-------------------------------- MODULE FileStore --------------------------------
(***************************************************************************)
(* What the contents of files promise (fileread(), filewrite(), itrunc()): a *)
(* file is a sequence of bytes with a position in it that its users share,   *)
(* and one call at a time has it.  It reads on, or writes over and beyond    *)
(* the end, from that position; it may stop early.                           *)
(***************************************************************************)
EXTENDS Integers, Sequences

CONSTANTS File, Byte,
          BSIZE,       \* what lasts, lasts block by block
          MaxSize      \* no file is longer

VARIABLES content,     \* per file: its bytes
          kept,        \* per file: its bytes without the writes that bad memory tore
          pos,         \* per file: f->off
          turn         \* per file: the call that has it

storeVars == <<content, kept, pos, turn>>

NoTurn == [kind |-> "none", byte |-> 0, n |-> 0, done |-> 0, got |-> <<>>]
Turn(kind, byte, n) == [NoTurn EXCEPT !.kind = kind, !.byte = byte, !.n = n]

StoreInit ==
  /\ content = [f \in File |-> <<>>] /\ kept = content
  /\ pos = [f \in File |-> 0]
  /\ turn = [f \in File |-> NoTurn]

\* m times the byte at offset off of s, which gets longer if it has to.
Overwritten(s, off, m, byte) ==
  [k \in 1 .. (IF off + m > Len(s) THEN off + m ELSE Len(s)) |->
     IF k > off /\ k <= off + m THEN byte ELSE s[k]]

StartCall(f, t) ==
  /\ turn[f].kind = "none"
  /\ turn' = [turn EXCEPT ![f] = t]
  /\ UNCHANGED <<content, kept, pos>>

\* The block of what s has at offset off is taken from it, and the rest from t.
BlockOf(k) == (k - 1) \div BSIZE
WithBlock(t, s, b) == [k \in 1 .. Len(s) |-> IF BlockOf(k) = b THEN s[k] ELSE t[k]]

\* Up to the end of a block; what is before the position stays, so that there is no hole.
\* All of the block lasts, what was torn in it before too.
Put(f, m) ==
  LET t == turn[f] off == pos[f] + t.done IN
  /\ t.kind = "write" /\ t.done + m <= t.n
  /\ off <= Len(content[f]) /\ off + m <= MaxSize
  /\ BlockOf(off + m) = BlockOf(off + 1)
  /\ content' = [content EXCEPT ![f] = Overwritten(@, off, m, t.byte)]
  /\ kept' = [kept EXCEPT ![f] = WithBlock(@, content'[f], BlockOf(off + 1))]
  /\ turn' = [turn EXCEPT ![f].done = @ + m]
  /\ UNCHANGED pos

\* The memory of the user ends in the middle: what has been copied is not counted, and it
\* lasts only if the block has to be written for another reason.
Tear(f, m) ==
  LET t == turn[f] off == pos[f] + t.done IN
  /\ t.kind = "write" /\ t.done + m < t.n
  /\ off + m <= Len(content[f])
  /\ BlockOf(off + m) = BlockOf(off + 1)
  /\ content' = [content EXCEPT ![f] = Overwritten(@, off, m, t.byte)]
  /\ kept' \in {kept, [kept EXCEPT ![f] = WithBlock(@, content'[f], BlockOf(off + 1))]}
  /\ UNCHANGED <<pos, turn>>

\* A block goes back to what lasts.
Forget(f, b) ==
  /\ content' = [content EXCEPT ![f] = WithBlock(@, kept[f], b)]
  /\ UNCHANGED <<kept, pos, turn>>

Get(f, m) ==
  LET t == turn[f] off == pos[f] + t.done IN
  /\ t.kind = "read" /\ t.done + m <= t.n
  /\ off + m <= Len(content[f])
  /\ turn' = [turn EXCEPT ![f].done = @ + m, ![f].got = @ \o SubSeq(content[f], off + 1, off + m)]
  /\ UNCHANGED <<content, kept, pos>>

\* A read that fails leaves the position where it is.
Finish(f) ==
  /\ turn[f].kind # "none"
  /\ pos' \in {pos, [pos EXCEPT ![f] = @ + turn[f].done]}
  /\ turn[f].kind = "write" => pos'[f] = pos[f] + turn[f].done
  /\ turn' = [turn EXCEPT ![f] = NoTurn]
  /\ UNCHANGED <<content, kept>>

Truncate(f) ==
  /\ turn[f].kind = "none"
  /\ content' = [content EXCEPT ![f] = <<>>] /\ kept' = [kept EXCEPT ![f] = <<>>]
  /\ UNCHANGED <<pos, turn>>

Reopen(f) == pos' = [pos EXCEPT ![f] = 0] /\ UNCHANGED <<content, kept, turn>>

\* A step is of the file that moves.
Moves(f) == <<content[f], kept[f], pos[f], turn[f]>>' # <<content[f], kept[f], pos[f], turn[f]>>

StoreNext ==
  \E f \in {g \in File : Moves(g)} :
    \/ \E n \in 0 .. MaxSize : StartCall(f, Turn("read", 0, n)) \/ \E byte \in Byte : StartCall(f, Turn("write", byte, n))
    \/ \E m \in 1 .. MaxSize : Put(f, m) \/ Tear(f, m) \/ Get(f, m)
    \/ \E b \in 0 .. MaxSize : Forget(f, b)
    \/ Finish(f) \/ Truncate(f) \/ Reopen(f)

StoreSpec == StoreInit /\ [][StoreNext]_storeVars

=============================================================================
