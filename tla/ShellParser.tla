------------------------------- MODULE ShellParser -------------------------------
(***************************************************************************)
(* The parser of the shell (user/sh.c): recursive descent over the tokens    *)
(* of a line, and the grammar it stands for.  gettoken() and peek() find the *)
(* tokens in the characters; here a line is the sequence of its tokens.      *)
(***************************************************************************)
EXTENDS Integers, Sequences

CONSTANTS Word, MAXARGS

Redirections == {"<", ">", ">>"}
Symbols == Redirections \cup {"|", ";", "&", "(", ")"}
Token == Word \cup Symbols

ParserAssumption == Word \cap Symbols = {} /\ MAXARGS \in Nat \ {0}

-----------------------------------------------------------------------------
(* The constructors, and the result of a function of the parser: a command    *)
(* and what is left of the line, or none when panic() has ended the shell.    *)

Exec(argv) == [type |-> "EXEC", argv |-> argv]
Redir(cmd, mode, file) == [type |-> "REDIR", cmd |-> cmd, mode |-> mode, file |-> file]
PipeCmd(left, right) == [type |-> "PIPE", left |-> left, right |-> right]
List(left, right) == [type |-> "LIST", left |-> left, right |-> right]
Back(cmd) == [type |-> "BACK", cmd |-> cmd]
NoCmd == [type |-> "none"]

Result(cmd, rest) == [cmd |-> cmd, rest |-> rest]
Panic == Result(NoCmd, <<>>)
Failed(r) == r.cmd = NoCmd

Peek(s, tokens) == s # <<>> /\ Head(s) \in tokens

\* The EXEC command has redirections around it when more arguments come.
RECURSIVE Argc(_), AddArg(_, _)
Argc(c) == IF c.type = "EXEC" THEN Len(c.argv) ELSE Argc(c.cmd)
AddArg(c, w) ==
  IF c.type = "EXEC" THEN [c EXCEPT !.argv = Append(@, w)] ELSE [c EXCEPT !.cmd = AddArg(@, w)]

-----------------------------------------------------------------------------

RECURSIVE Parseline(_), Parsepipe(_), Parseredirs(_), Parseargs(_), Backs(_)

Parseredirs(r) ==
  IF Failed(r) \/ ~Peek(r.rest, Redirections) THEN r
  ELSE IF Len(r.rest) = 1 \/ r.rest[2] \notin Word THEN Panic
  ELSE Parseredirs(Result(Redir(r.cmd, r.rest[1], r.rest[2]), Tail(Tail(r.rest))))

Parseblock(s) ==
  LET inner == Parseline(Tail(s)) IN
  IF Failed(inner) \/ ~Peek(inner.rest, {")"}) THEN Panic
  ELSE Parseredirs(Result(inner.cmd, Tail(inner.rest)))

\* The loop of parseexec().
Parseargs(r) ==
  IF Failed(r) \/ r.rest = <<>> \/ Peek(r.rest, {"|", ")", "&", ";"}) THEN r
  ELSE IF Head(r.rest) \notin Word \/ Argc(r.cmd) + 1 >= MAXARGS THEN Panic
  ELSE Parseargs(Parseredirs(Result(AddArg(r.cmd, Head(r.rest)), Tail(r.rest))))

Parseexec(s) ==
  IF Peek(s, {"("}) THEN Parseblock(s) ELSE Parseargs(Parseredirs(Result(Exec(<<>>), s)))

\* Mutant: what is right of "|" is a whole line.
ParsepipeLine(s) ==
  LET left == Parseexec(s) IN
  IF Failed(left) \/ ~Peek(left.rest, {"|"}) THEN left
  ELSE LET right == Parseline(Tail(left.rest)) IN
       IF Failed(right) THEN Panic ELSE Result(PipeCmd(left.cmd, right.cmd), right.rest)

Parsepipe(s) ==
  LET left == Parseexec(s) IN
  IF Failed(left) \/ ~Peek(left.rest, {"|"}) THEN left
  ELSE LET right == Parsepipe(Tail(left.rest)) IN
       IF Failed(right) THEN Panic ELSE Result(PipeCmd(left.cmd, right.cmd), right.rest)

\* The two halves of parseline(): every "&", and then a ";".
Backs(r) ==
  IF Failed(r) \/ ~Peek(r.rest, {"&"}) THEN r ELSE Backs(Result(Back(r.cmd), Tail(r.rest)))

Parseline(s) ==
  LET left == Backs(Parsepipe(s)) IN
  IF Failed(left) \/ ~Peek(left.rest, {";"}) THEN left
  ELSE LET right == Parseline(Tail(left.rest)) IN
       IF Failed(right) THEN Panic ELSE Result(List(left.cmd, right.cmd), right.rest)

Parsecmd(s) == LET r == Parseline(s) IN IF r.rest # <<>> THEN NoCmd ELSE r.cmd

-----------------------------------------------------------------------------
(* The grammar: the set of the commands that a line may stand for.            *)

Before(s, i) == SubSeq(s, 1, i - 1)
After(s, i) == SubSeq(s, i + 1, Len(s))
At(s, token) == {i \in DOMAIN s : s[i] = token}
EndsIn(s, token) == s # <<>> /\ s[Len(s)] = token

RECURSIVE Lines(_), Jobs(_), Pipelines(_), Blocks(_), Simple(_)

Lines(s) ==
  Jobs(s) \cup UNION {{List(l, r) : l \in Jobs(Before(s, i)), r \in Lines(After(s, i))} : i \in At(s, ";")}

Jobs(s) ==
  Pipelines(s) \cup (IF EndsIn(s, "&") THEN {Back(c) : c \in Jobs(Before(s, Len(s)))} ELSE {})

Pipelines(s) ==
  Simple(s) \cup Blocks(s) \cup
  UNION {{PipeCmd(l, r) : l \in Simple(Before(s, i)) \cup Blocks(Before(s, i)), r \in Pipelines(After(s, i))} :
           i \in At(s, "|")}

\* A block may have redirections behind it, the last one is done first.
Blocks(s) ==
  LET n == Len(s) IN
  IF n < 2 \/ Head(s) # "(" THEN {}
  ELSE IF EndsIn(s, ")") THEN Lines(SubSeq(s, 2, n - 1))
  ELSE IF s[n] \in Word /\ s[n - 1] \in Redirections
       THEN {Redir(c, s[n - 1], s[n]) : c \in Blocks(SubSeq(s, 1, n - 2))}
  ELSE {}

\* A simple command has its redirections anywhere; the last one is done first.
Simple(s) ==
  LET at == {i \in DOMAIN s : s[i] \in Redirections} IN
  IF at = {}
  THEN IF Len(s) < MAXARGS /\ \A i \in DOMAIN s : s[i] \in Word THEN {Exec(s)} ELSE {}
  ELSE LET i == CHOOSE i \in at : \A j \in at : j <= i IN
       IF i < Len(s) /\ s[i + 1] \in Word /\ (i - 1) \notin at
       THEN {Redir(c, s[i], s[i + 1]) : c \in Simple(Before(s, i) \o After(s, i + 1))}
       ELSE {}

\* The parser accepts the lines of the grammar and no other, and finds the one
\* command that such a line stands for.
Recognises(s) == Lines(s) = {Parsecmd(s)} \ {NoCmd}

=============================================================================
