----------------------------- MODULE PrivateMemory -----------------------------
(***************************************************************************)
(* What fork(), sbrk(), exit() and stores promise a user program, without  *)
(* physical pages: every process has a memory of its own, and fork() gives *)
(* the child a copy of the parent's as it is at that moment.               *)
(***************************************************************************)
EXTENDS Integers

CONSTANTS Proc, InitProc, MaxPage, InitSz, Value, Zero, None

VARIABLES
  alive,  \* processes that run
  view    \* view[p][v]: what p reads in page v, or None beyond its size

Page == 0 .. MaxPage - 1
NoMemory == [v \in Page |-> None]

Init ==
  /\ alive = {InitProc}
  /\ view = [p \in Proc |-> IF p = InitProc
                            THEN [v \in Page |-> IF v < InitSz THEN Zero ELSE None]
                            ELSE NoMemory]

\* A store, by an instruction or by a system call: only p's own page changes.
Write(p, v, x) ==
  /\ p \in alive /\ view[p][v] # None
  /\ view' = [view EXCEPT ![p][v] = x]
  /\ UNCHANGED alive

Fork(p, c) ==
  /\ p \in alive /\ c \notin alive
  /\ alive' = alive \cup {c}
  /\ view' = [view EXCEPT ![c] = view[p]]

\* sbrk() to n pages: new pages are zero, the others keep their contents.
Resize(p, n) ==
  /\ p \in alive
  /\ view' = [view EXCEPT ![p] = [v \in Page |->
                CASE v >= n -> None
                  [] v < n /\ view[p][v] = None -> Zero
                  [] OTHER -> view[p][v]]]
  /\ UNCHANGED alive

Exit(p) ==
  /\ p \in alive
  /\ alive' = alive \ {p}
  /\ view' = [view EXCEPT ![p] = NoMemory]

Next ==
  \E p \in Proc :
    \/ \E v \in Page, x \in Value : Write(p, v, x)
    \/ \E c \in Proc : Fork(p, c)
    \/ \E n \in 0 .. MaxPage : Resize(p, n)
    \/ Exit(p)

Spec == Init /\ [][Next]_<<alive, view>>
=============================================================================
