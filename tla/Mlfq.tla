--------------------------------- MODULE Mlfq ---------------------------------
(***************************************************************************)
(* The multi-level feedback queue of XV6-1 (MLFQ_SCHED) on the one hart it  *)
(* is documented for: the two passes of scheduler(), ageing in              *)
(* update_time(), and the time slices of usertrap(), which calls devintr()  *)
(* a second time and looks at whatever scause holds then.                   *)
(*                                                                         *)
(* A hart takes at most one timer interrupt in one turn of the loop of      *)
(* scheduler(): a tick is a million cycles, a turn some thousand.           *)
(***************************************************************************)
EXTENDS Integers, FiniteSets

CONSTANTS Proc,       \* entries of the table, in the order of the scan: 1 .. n
          LastQue,    \* 3
          Slice,      \* 1, 3, 9, 15: a slice ends when qtime exceeds it
          AgeTicks,   \* 30
          None

MlfqAssumption ==
  /\ LastQue \in Nat /\ AgeTicks \in Nat
  /\ Slice \in [0 .. LastQue -> Nat]

VARIABLES state,      \* proc[p].state
          que, wtime, qtime,
          mode,       \* where p is or comes back to: user code or a system call
          turn,       \* the CPU: first pass, or running, or the end of usertrap()
          next,       \* the entry the first pass looks at
          min_que,
          cur,        \* c->proc
          scause,     \* the last trap of this hart was the timer, or another
          ticked      \* the timer has interrupted this turn of scheduler()

sched == <<turn, next, min_que>>
mlfqVars == <<state, que, wtime, qtime, mode, turn, next, min_que, cur, scause, ticked>>

MlfqInit ==
  /\ state = [p \in Proc |-> IF p = 1 THEN "RUNNABLE" ELSE "UNUSED"]
  /\ que = [p \in Proc |-> 0] /\ wtime = [p \in Proc |-> 0] /\ qtime = [p \in Proc |-> 0]
  /\ mode = [p \in Proc |-> "user"]
  /\ turn = "pass" /\ next = 1 /\ min_que = LastQue
  /\ cur = None /\ scause = "other" /\ ticked = FALSE

\* clockintr() calls update_time(): who waits has waited one more tick, and who
\* has waited too long moves up a queue.
Aged(p) == state[p] = "RUNNABLE" /\ wtime[p] >= AgeTicks /\ que[p] > 0
KeptQue == que   \* mutant: nobody moves up
UpdatedQue == [p \in Proc |-> IF Aged(p) THEN que[p] - 1 ELSE que[p]]
UpdatedWtime ==
  [p \in Proc |-> CASE Aged(p) -> 0
                    [] state[p] = "RUNNABLE" /\ ~Aged(p) -> wtime[p] + 1
                    [] OTHER -> wtime[p]]
UpdateTime == que' = UpdatedQue /\ wtime' = UpdatedWtime

Loop == turn' = "pass" /\ next' = 1 /\ min_que' = LastQue /\ ticked' = FALSE

\* The first pass reads state and que without the lock; it stops at a process of
\* queue 0.
FirstPass ==
  /\ turn = "pass" /\ next \in Proc
  /\ min_que' = IF state[next] = "RUNNABLE" /\ que[next] < min_que THEN que[next] ELSE min_que
  /\ next' = IF min_que' < min_que /\ min_que' = 0 THEN Cardinality(Proc) + 1 ELSE next + 1
  /\ UNCHANGED <<state, que, wtime, qtime, mode, turn, cur, scause, ticked>>

\* The second pass takes every lock, keeps them all, and chooses.
Candidates == {p \in Proc : state[p] = "RUNNABLE" /\ que[p] = min_que /\ wtime[p] > 0}
Longest == {p \in Candidates : \A q \in Candidates :
              wtime[q] <= wtime[p] /\ (wtime[q] = wtime[p] => p <= q)}

Switch(p) ==
  /\ turn = "pass" /\ next \notin Proc
  /\ p \in Longest
  /\ state' = [state EXCEPT ![p] = "RUNNING"]
  /\ wtime' = [wtime EXCEPT ![p] = 0]
  /\ qtime' = [qtime EXCEPT ![p] = 0]
  /\ cur' = p /\ turn' = "run"
  /\ UNCHANGED <<que, mode, next, min_que, scause, ticked>>

NoneFound ==
  /\ turn = "pass" /\ next \notin Proc
  /\ Candidates = {}
  /\ Loop
  /\ UNCHANGED <<state, que, wtime, qtime, mode, cur, scause>>

\* The timer interrupts the first pass, with interrupts on.
IdleTick ==
  /\ turn = "pass" /\ next \in Proc /\ ~ticked
  /\ UpdateTime
  /\ scause' = "timer" /\ ticked' = TRUE
  /\ UNCHANGED <<state, qtime, mode, turn, next, min_que, cur>>

\* The running process leaves the hart, through sched().
GiveUp(s) ==
  /\ state' = [state EXCEPT ![cur] = s]
  /\ cur' = None
  /\ Loop

\* usertrap(): a timer interrupt, handled by the first devintr().
UserTick ==
  /\ turn = "run" /\ mode[cur] = "user"
  /\ UpdateTime
  /\ turn' = "trapped" /\ scause' = "timer"
  /\ UNCHANGED <<state, qtime, mode, next, min_que, cur, ticked>>

Syscall ==
  /\ turn = "run" /\ mode[cur] = "user"
  /\ mode' = [mode EXCEPT ![cur] = "kernel"]
  /\ scause' = "other"
  /\ UNCHANGED <<state, que, wtime, qtime, turn, next, min_que, cur, ticked>>

\* Another interrupt, in user code or in a system call; the first devintr()
\* handles it and it may wake a process up.
DeviceTrap ==
  /\ turn = "run" /\ scause' = "other"
  /\ turn' = IF mode[cur] = "user" THEN "trapped" ELSE "run"
  /\ UNCHANGED <<state, que, wtime, qtime, mode, next, min_que, cur, ticked>>

\* kerneltrap(): a timer interrupt in a system call makes the process yield().
KernelTick ==
  /\ turn = "run" /\ mode[cur] = "kernel"
  /\ UpdateTime
  /\ scause' = "timer"
  /\ GiveUp("RUNNABLE")
  /\ UNCHANGED <<qtime, mode>>

SyscallDone ==
  /\ turn = "run" /\ mode[cur] = "kernel"
  /\ turn' = "trapped" /\ mode' = [mode EXCEPT ![cur] = "user"]
  /\ UNCHANGED <<state, que, wtime, qtime, next, min_que, cur, scause, ticked>>

\* The second devintr() of usertrap().  If scause is that of the timer it runs
\* clockintr() again, and the slice is looked at.
Demoted == IF que[cur] < LastQue THEN que[cur] + 1 ELSE que[cur]
SliceOver == qtime[cur] + 1 > Slice[que[cur]]

SecondTick ==
  /\ turn = "trapped" /\ scause = "timer" /\ ~SliceOver
  /\ UpdateTime
  /\ qtime' = [qtime EXCEPT ![cur] = @ + 1]
  /\ turn' = "run"
  /\ UNCHANGED <<state, mode, next, min_que, cur, scause, ticked>>

SliceEnd ==
  /\ turn = "trapped" /\ scause = "timer" /\ SliceOver
  /\ que' = [UpdatedQue EXCEPT ![cur] = Demoted]
  /\ wtime' = [UpdatedWtime EXCEPT ![cur] = 0]
  /\ qtime' = [qtime EXCEPT ![cur] = 0]
  /\ GiveUp("RUNNABLE")
  /\ UNCHANGED <<mode, scause>>

UserReturn ==
  /\ turn = "trapped" /\ scause = "other"
  /\ turn' = "run"
  /\ UNCHANGED <<state, que, wtime, qtime, mode, next, min_que, cur, scause, ticked>>

Sleep ==
  /\ turn = "run" /\ mode[cur] = "kernel"
  /\ GiveUp("SLEEPING")
  /\ UNCHANGED <<que, wtime, qtime, mode, scause>>

\* exit() and the wait() of the parent; a process that was killed exits on its way
\* out of usertrap().  What the entry holds until allocproc() clears it is read by
\* nobody, and cleared here.
Exit ==
  /\ (turn = "run" /\ mode[cur] = "kernel") \/ turn = "trapped"
  /\ GiveUp("UNUSED")
  /\ que' = [que EXCEPT ![cur] = 0] /\ wtime' = [wtime EXCEPT ![cur] = 0]
  /\ qtime' = [qtime EXCEPT ![cur] = 0] /\ mode' = [mode EXCEPT ![cur] = "user"]
  /\ UNCHANGED scause

\* allocproc() clears the fields; fork() makes the child RUNNABLE.
Fork(p) ==
  /\ turn = "run" /\ mode[cur] = "kernel"
  /\ state[p] = "UNUSED"
  /\ state' = [state EXCEPT ![p] = "RUNNABLE"]
  /\ que' = [que EXCEPT ![p] = 0] /\ wtime' = [wtime EXCEPT ![p] = 0]
  /\ qtime' = [qtime EXCEPT ![p] = 0] /\ mode' = [mode EXCEPT ![p] = "user"]
  /\ UNCHANGED <<turn, next, min_que, cur, scause, ticked>>

\* wakeup(), from an interrupt or a system call.
Wakeup(p) ==
  /\ turn # "trapped"
  /\ state[p] = "SLEEPING"
  /\ state' = [state EXCEPT ![p] = "RUNNABLE"]
  /\ UNCHANGED <<que, wtime, qtime, mode, turn, next, min_que, cur, scause, ticked>>

MlfqNext ==
  \/ FirstPass \/ NoneFound \/ IdleTick
  \/ UserTick \/ Syscall \/ DeviceTrap \/ KernelTick \/ SyscallDone
  \/ SecondTick \/ SliceEnd \/ UserReturn
  \/ Sleep \/ Exit
  \/ \E p \in Proc : Switch(p) \/ Fork(p) \/ Wakeup(p)

\* The hart goes on, and the timer keeps ticking: a tick that falls in the second
\* pass or in a trap stays pending and is taken when interrupts are on again.
MlfqFair ==
  /\ WF_mlfqVars(FirstPass) /\ WF_mlfqVars(NoneFound \/ \E p \in Proc : Switch(p))
  /\ WF_mlfqVars(SecondTick \/ SliceEnd \/ UserReturn)
  /\ SF_mlfqVars(IdleTick) /\ SF_mlfqVars(UserTick) /\ SF_mlfqVars(KernelTick)

MlfqSpec == MlfqInit /\ [][MlfqNext]_mlfqVars /\ MlfqFair

-----------------------------------------------------------------------------

\* README: an ageing mechanism prevents starvation.  Whatever the others do, a
\* process that is ready to run is run.
RunsAgain(p) == state[p] = "RUNNABLE" ~> state[p] = "RUNNING"

=============================================================================
