----------------------------- MODULE LineDiscipline -----------------------------
(***************************************************************************)
(* What the console promises its readers: whole lines as they were edited,  *)
(* at most one in a read, and an end of file that a read of its own sees.   *)
(***************************************************************************)
EXTENDS Integers, Sequences

CONSTANTS Proc, Char, Newline, Eof, Size

VARIABLES lines,      \* typed, complete, and not yet read
          editing,    \* the line that is being typed
          result      \* what the last read of each process has delivered

lineVars == <<lines, editing, result>>

LineInit == lines = <<>> /\ editing = <<>> /\ result = [p \in Proc |-> <<>>]

\* A line is complete with its newline, an end of file, or when nothing more fits.
Type(c) ==
  /\ Len(lines) + Len(editing) < Size
  /\ IF c \in {Newline, Eof} \/ Len(lines) + Len(editing) + 1 = Size
     THEN lines' = lines \o Append(editing, c) /\ editing' = <<>>
     ELSE editing' = Append(editing, c) /\ UNCHANGED lines
  /\ UNCHANGED result

Erase == editing # <<>> /\ editing' = SubSeq(editing, 1, Len(editing) - 1) /\ UNCHANGED <<lines, result>>
EraseLine == editing' = <<>> /\ UNCHANGED <<lines, result>>

\* Nothing of a second line is delivered, and an end of file ends a read before it.
Plain(k) == \A j \in 1 .. k : lines[j] \notin {Newline, Eof}
Deliver(p, k) ==
  /\ Plain(k - 1) /\ (k > 0 => lines[k] # Eof)
  /\ \A j \in DOMAIN result[p] : result[p][j] # Newline
  /\ result' = [result EXCEPT ![p] = @ \o SubSeq(lines, 1, k)]
  /\ lines' = SubSeq(lines, k + 1, Len(lines))
  /\ UNCHANGED editing

\* The address that was given is bad: the byte that was to go there is gone.
Fault(p, k) ==
  /\ Plain(k - 1) /\ lines[k] # Eof
  /\ result' = [result EXCEPT ![p] = @ \o SubSeq(lines, 1, k - 1)]
  /\ lines' = SubSeq(lines, k + 1, Len(lines))
  /\ UNCHANGED editing

EndOfFile(p) ==
  /\ result[p] = <<>> /\ lines # <<>> /\ Head(lines) = Eof
  /\ lines' = Tail(lines)
  /\ UNCHANGED <<editing, result>>

Read(p) == result' = [result EXCEPT ![p] = <<>>] /\ UNCHANGED <<lines, editing>>

LineNext ==
  \/ \E c \in Char : Type(c)
  \/ Erase \/ EraseLine
  \/ \E p \in Proc : \/ Read(p) \/ EndOfFile(p)
                     \/ \E k \in 1 .. Len(lines) : Deliver(p, k) \/ Fault(p, k)

LineSpec == LineInit /\ [][LineNext]_lineVars

=============================================================================
