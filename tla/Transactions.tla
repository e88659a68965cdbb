----------------------------- MODULE Transactions ------------------------------
(***************************************************************************)
(* What kernel/log.c promises the file system: system calls write blocks    *)
(* between begin_op() and end_op(), and a crash at any moment keeps all the *)
(* writes of a system call or none of them.                                 *)
(***************************************************************************)
CONSTANTS Proc, Block, Value

VARIABLES
  current,  \* the contents that a running kernel reads
  durable,  \* the contents that a crash leaves
  active    \* processes between begin_op() and end_op()

vars == <<current, durable, active>>

Init ==
  /\ durable \in [Block -> Value]
  /\ current = durable
  /\ active = {}

Begin(p) ==
  /\ p \notin active
  /\ active' = active \cup {p}
  /\ UNCHANGED <<current, durable>>

Write(p, b, v) ==
  /\ p \in active
  /\ current' = [current EXCEPT ![b] = v]
  /\ UNCHANGED <<durable, active>>

End(p) ==
  /\ p \in active
  /\ active' = active \ {p}
  /\ UNCHANGED <<current, durable>>

\* All the writes since the last commit become durable at once, and only when no
\* system call is half way.
Commit ==
  /\ active = {}
  /\ durable' = current
  /\ UNCHANGED <<current, active>>

Crash ==
  /\ current' = durable
  /\ active' = {}
  /\ UNCHANGED durable

Next ==
  \/ \E p \in Proc : Begin(p) \/ End(p) \/ \E b \in Block, v \in Value : Write(p, b, v)
  \/ Commit \/ Crash

Spec == Init /\ [][Next]_vars

=============================================================================
