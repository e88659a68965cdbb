---------------------------- MODULE ProcTableProof ----------------------------
(***************************************************************************)
(* Proofs about ProcTable for any number of processes and harts: who is on  *)
(* which stack, who holds which lock, who is whose parent, and that no       *)
(* wakeup() is lost.                                                        *)
(***************************************************************************)
EXTENDS ProcTable, TLAPS

\* Labels at which a process holds wait_lock, or tickslock, or has a child to make.
Locking == {"reparent", "exit_zombie", "wait_scan", "wait_sleep"}
Timing == {"ticks_check", "ticks_sleep"}
Forking == {"fork_copy", "fork_parent", "fork_runnable"}

\* With a lock a process stays on its CPU: nothing makes it yield.
Busy == Locking \cup Timing \cup {"fork_copy"}

\* A process that has a stack in use is RUNNING, or in sched() with its lock.
StackInv ==
  /\ \A c, d \in Cpu : cpu[c] = cpu[d] /\ cpu[c] # None => c = d
  /\ \A p \in Proc : state[p] = "RUNNING" => p \notin insched /\ \E c \in Cpu : cpu[c] = p
  /\ \A c \in Cpu : cpu[c] # None => state[cpu[c]] = "RUNNING" \/ cpu[c] \in insched
  /\ \A p \in insched : lock[p] = p /\ state[p] \in {"RUNNABLE", "SLEEPING", "ZOMBIE"}
  /\ clk # 0 => cpu[Cpu0] \notin insched

\* The label of a thread says what the state of its process can be.
LabelInv ==
  /\ \A p \in Proc : pc[p] = "none" <=> state[p] \in {"UNUSED", "USED"}
  /\ \A p \in Proc : pc[p] = "zombie" <=> state[p] = "ZOMBIE"
  /\ \A p \in Proc : pc[p] \in Busy => state[p] = "RUNNING"
  /\ pc[InitProc] \notin {"none", "zombie", "exit", "reparent", "exit_zombie"}
  /\ \A p \in Proc : loc[p].w # 0 => pc[p] \in {"reparent", "exit_zombie"}
  /\ \A p \in Proc : pc[p] \in {"none", "user", "exit", "zombie"} => loc[p].i = 1

\* Who holds a lock can be read off the labels.
LockInv ==
  /\ \A q \in Proc : lock[q] # None =>
       \/ lock[q] = q /\ q \in insched
       \/ pc[lock[q]] = "fork_copy" /\ loc[lock[q]].np = q
  /\ \A p \in Proc : wait_lock = p <=> pc[p] \in Locking
  /\ \A p \in Proc : tickslock = p <=> pc[p] \in Timing
  /\ tickslock = Clock <=> clk # 0

\* The entry that fork() fills in is in USE by it alone, and by nobody else.
ForkInv ==
  /\ \A p \in Proc : pc[p] \in Forking => loc[p].np \in Proc /\ state[loc[p].np] = "USED"
  /\ \A p, q \in Proc :
       pc[p] \in Forking /\ pc[q] \in Forking /\ loc[p].np = loc[q].np => p = q
  /\ \A p \in Proc : pc[p] = "fork_copy" => lock[loc[p].np] = p

Core == TypeOK /\ StackInv /\ LabelInv /\ LockInv /\ ForkInv

\* A parent can still wait for its children; one that exits hands them over first.
FamilyInv ==
  /\ \A q \in Proc : parent[q] # None => state[parent[q]] \notin {"UNUSED", "USED", "ZOMBIE"}
  /\ \A q \in Proc \ {InitProc} : state[q] \notin {"UNUSED", "USED"} => parent[q] # None
  /\ \A p \in Proc : pc[p] = "fork_runnable" => parent[loc[p].np] = p
  /\ \A p, q \in Proc : pc[p] = "reparent" /\ q < loc[p].i => parent[q] # p
  /\ \A p, q \in Proc : pc[p] = "exit_zombie" => parent[q] # p

\* A scan that has ended with a child goes to sleep; see ScanComplete.
ScanInv ==
  /\ ScanComplete
  /\ \A p \in Proc : pc[p] = "wait_sleep" => loc[p].i = NPROC + 1

\* p sleeps in wait().  It is owed a wakeup while r is on its way to it in the table.
Asleep(p) == state[p] = "SLEEPING" /\ chan[p] = p
Owed(r, p) == loc[r].w \in 1 .. p /\ loc[r].ch = p

\* A process that sleeps in wait() and has a dead child, or a dying one, is owed one.
WaitInv ==
  /\ \A p, q \in Proc : Asleep(p) /\ parent[q] = p /\ state[q] = "ZOMBIE" =>
       wait_lock \in Proc /\ Owed(wait_lock, p)
  /\ \A p, q \in Proc : Asleep(p) /\ parent[q] = p /\ pc[q] = "exit_zombie" => Owed(q, p)

\* A process that sleeps in sys_sleep() with no time left is owed one by clockintr().
ClockInv ==
  /\ \A p \in Proc : state[p] = "SLEEPING" /\ chan[p] = Ticks /\ loc[p].left = 0 => clk \in 1 .. p
  /\ \A p \in Proc : pc[p] = "ticks_sleep" => loc[p].left > 0

IInv == Core /\ FamilyInv /\ ScanInv /\ WaitInv /\ ClockInv

-----------------------------------------------------------------------------
(* Facts about the state and the locals                                     *)

LEMMA InitIsProc == InitProc \in Proc
  BY TableAssumption DEF InitProc, Proc

LEMMA LocFields ==
  ASSUME TypeOK, NEW p \in Proc
  PROVE  /\ loc[p].i \in 1 .. NPROC + 1 /\ loc[p].havekids \in BOOLEAN
         /\ loc[p].np \in Proc \cup {None} /\ loc[p].w \in 0 .. NPROC
         /\ loc[p].ch \in Proc \cup {None} /\ loc[p].left \in Nat
  BY DEF TypeOK, Locals

\* The clock interrupt counts down, and touches no other local.
LEMMA ClockIntrLocals ==
  ASSUME TypeOK, ClockIntr, NEW p \in Proc
  PROVE  /\ loc'[p].i = loc[p].i /\ loc'[p].havekids = loc[p].havekids
         /\ loc'[p].np = loc[p].np /\ loc'[p].w = loc[p].w /\ loc'[p].ch = loc[p].ch
         /\ loc'[p].left = IF loc[p].left = 0 THEN 0 ELSE loc[p].left - 1
  BY DEF TypeOK, Locals, ClockIntr

LEMMA WaitLockLocals ==
  ASSUME TypeOK, NEW p \in Proc, WaitLock(p)
  PROVE  /\ \A q \in Proc \ {p} : loc'[q] = loc[q]
         /\ loc'[p].i = 1 /\ loc'[p].havekids = FALSE
         /\ loc'[p].np = loc[p].np /\ loc'[p].w = loc[p].w /\ loc'[p].ch = loc[p].ch
         /\ loc'[p].left = loc[p].left
  BY DEF TypeOK, Locals, WaitLock

LEMMA WaitNextLocals ==
  ASSUME TypeOK, NEW p \in Proc, WaitNext(p)
  PROVE  /\ \A q \in Proc \ {p} : loc'[q] = loc[q]
         /\ loc'[p].i = loc[p].i + 1
         /\ loc'[p].havekids = (loc[p].havekids \/ parent[loc[p].i] = p)
         /\ loc'[p].np = loc[p].np /\ loc'[p].w = loc[p].w /\ loc'[p].ch = loc[p].ch
         /\ loc'[p].left = loc[p].left
  BY DEF TypeOK, Locals, WaitNext

LEMMA ReparentLocals ==
  ASSUME TypeOK, NEW p \in Proc, Reparent(p)
  PROVE  /\ \A q \in Proc \ {p} : loc'[q] = loc[q]
         /\ loc'[p].i = loc[p].i + 1
         /\ loc'[p].havekids = loc[p].havekids
         /\ loc'[p].np = loc[p].np
         /\ parent[loc[p].i] = p => loc'[p].w = 1 /\ loc'[p].ch = InitProc
         /\ parent[loc[p].i] # p => loc'[p].w = loc[p].w /\ loc'[p].ch = loc[p].ch
         /\ loc'[p].left = loc[p].left
  BY DEF TypeOK, Locals, Reparent

LEMMA ExitWakeupLocals ==
  ASSUME TypeOK, NEW p \in Proc, ExitWakeup(p)
  PROVE  /\ \A q \in Proc \ {p} : loc'[q] = loc[q]
         /\ loc'[p].i = 1 /\ loc'[p].w = 1 /\ loc'[p].ch = parent[p]
         /\ loc'[p].np = loc[p].np /\ loc'[p].havekids = loc[p].havekids
         /\ loc'[p].left = loc[p].left
  BY DEF TypeOK, Locals, ExitWakeup

LEMMA WakeupLocals ==
  ASSUME TypeOK, NEW p \in Proc, Wakeup(p)
  PROVE  /\ \A q \in Proc \ {p} : loc'[q] = loc[q]
         /\ loc'[p].w = After(loc[p].w)
         /\ loc'[p].i = loc[p].i /\ loc'[p].ch = loc[p].ch
         /\ loc'[p].np = loc[p].np /\ loc'[p].havekids = loc[p].havekids
         /\ loc'[p].left = loc[p].left
  BY DEF TypeOK, Locals, Wakeup

\* A thread that executes has its stack to itself, and no clock interrupt on it.
LEMMA Executing ==
  ASSUME Core, NEW p \in Proc, On(p)
  PROVE  state[p] = "RUNNING" /\ p \notin insched /\ (clk # 0 => cpu[Cpu0] # p)
  BY TableAssumption DEF Core, StackInv, On, Interrupted, TypeOK

\* It goes off duty with its lock.
LEMMA OffDuty ==
  ASSUME Core, NEW p \in Proc, On(p),
         lock' = [lock EXCEPT ![p] = p], insched' = insched \cup {p}, UNCHANGED <<cpu, clk>>,
         NEW s \in {"RUNNABLE", "SLEEPING", "ZOMBIE"}, state' = [state EXCEPT ![p] = s]
  PROVE  StackInv'
  BY Executing DEF Core, StackInv, TypeOK

-----------------------------------------------------------------------------
(* Types                                                                   *)

LEMMA TypeAllocproc ==
  ASSUME Core, NEW p \in Proc, NEW c \in Proc, Allocproc(p, c) PROVE TypeOK'
<1>1. loc \in [Proc -> Locals] /\ loc' = [loc EXCEPT ![p].np = c]
  BY DEF Core, TypeOK, Allocproc
<1>2. loc' \in [Proc -> Locals]
  BY <1>1 DEF Locals
<1> QED
  BY <1>2 DEF Core, TypeOK, Allocproc, Goto, State, PcLabel

LEMMA TypeSysSleep ==
  ASSUME Core, NEW p \in Proc, NEW n \in Sleeps[p], SysSleep(p, n) PROVE TypeOK'
<1>1. loc \in [Proc -> Locals] /\ loc' = [loc EXCEPT ![p].left = n] /\ n \in Nat
  BY TableAssumption DEF Core, TypeOK, SysSleep
<1>2. loc' \in [Proc -> Locals]
  BY <1>1 DEF Locals
<1> QED
  BY <1>2 DEF Core, TypeOK, SysSleep, Goto, table, PcLabel

LEMMA TypeWakeup == ASSUME Core, NEW p \in Proc, Wakeup(p) PROVE TypeOK'
<1> DEFINE q == loc[p].w
<1>1. loc \in [Proc -> Locals] /\ loc' = [loc EXCEPT ![p].w = After(q)]
  BY DEF Core, TypeOK, Wakeup
<1>2. After(q) \in 0 .. NPROC
  BY LocFields, TableAssumption DEF Core, After
<1>3. loc' \in [Proc -> Locals]
  BY <1>1, <1>2 DEF Locals
<1> QED
  BY <1>3 DEF Core, TypeOK, Wakeup, Wake, table, locks, State

LEMMA TypeForkFail == ASSUME Core, NEW p \in Proc, ForkFail(p) PROVE TypeOK'
<1>1. NoLocals \in Locals
  BY TableAssumption DEF NoLocals, Locals
<1> QED
  BY <1>1 DEF Core, TypeOK, ForkFail, Freeproc, Return, Goto, State, PcLabel, At,
     ForkInv, Forking

LEMMA TypeForkRunnable == ASSUME Core, NEW p \in Proc, ForkRunnable(p) PROVE TypeOK'
<1>1. NoLocals \in Locals
  BY TableAssumption DEF NoLocals, Locals
<1> QED
  BY <1>1 DEF Core, TypeOK, ForkRunnable, State, PcLabel, locks

LEMMA TypeReparent == ASSUME Core, NEW p \in Proc, Reparent(p) PROVE TypeOK'
<1> DEFINE q == loc[p].i
<1>1. /\ loc \in [Proc -> Locals] /\ q \in Proc
      /\ \/ /\ parent' = [parent EXCEPT ![q] = InitProc]
            /\ loc' = [loc EXCEPT ![p].i = q + 1, ![p].w = 1, ![p].ch = InitProc]
         \/ parent' = parent /\ loc' = [loc EXCEPT ![p].i = q + 1]
  BY DEF Core, TypeOK, Reparent
<1>2. q + 1 \in 1 .. NPROC + 1 /\ 1 \in 0 .. NPROC
  BY <1>1, TableAssumption DEF Proc
<1>3. loc' \in [Proc -> Locals]
  BY <1>1, <1>2, InitIsProc DEF Locals
<1>4. parent' \in [Proc -> Proc \cup {None}]
  BY <1>1, InitIsProc DEF Core, TypeOK
<1> QED
  BY <1>3, <1>4 DEF Core, TypeOK, Reparent, locks

LEMMA TypeExitWakeup == ASSUME Core, NEW p \in Proc, ExitWakeup(p) PROVE TypeOK'
<1>1. /\ loc \in [Proc -> Locals] /\ parent[p] \in Proc \cup {None}
      /\ loc' = [loc EXCEPT ![p].w = 1, ![p].ch = parent[p], ![p].i = 1]
  BY DEF Core, TypeOK, ExitWakeup
<1>2. 1 \in 0 .. NPROC /\ 1 \in 1 .. NPROC + 1
  BY TableAssumption
<1>3. loc' \in [Proc -> Locals]
  BY <1>1, <1>2, ZenonT(30) DEF Locals
<1> QED
  BY <1>3 DEF Core, TypeOK, ExitWakeup, Goto, table, locks, PcLabel

LEMMA TypeWaitLock == ASSUME Core, NEW p \in Proc, WaitLock(p) PROVE TypeOK'
<1>1. loc \in [Proc -> Locals] /\ loc' = [loc EXCEPT ![p].i = 1, ![p].havekids = FALSE]
  BY DEF Core, TypeOK, WaitLock
<1>2. 1 \in 1 .. NPROC + 1 /\ FALSE \in BOOLEAN
  BY TableAssumption
<1>3. loc' \in [Proc -> Locals]
  BY <1>1, <1>2 DEF Locals
<1> QED
  BY <1>3 DEF Core, TypeOK, WaitLock, Goto, table, PcLabel

LEMMA TypeWaitNext == ASSUME Core, NEW p \in Proc, WaitNext(p) PROVE TypeOK'
<1> DEFINE q == loc[p].i
<1>1. loc \in [Proc -> Locals] /\ q \in Proc
      /\ loc' = [loc EXCEPT ![p].i = q + 1, ![p].havekids = @ \/ parent[q] = p]
  BY DEF Core, TypeOK, WaitNext
<1>2. q + 1 \in 1 .. NPROC + 1
  BY <1>1, TableAssumption DEF Proc
<1>3. loc' \in [Proc -> Locals]
  BY <1>1, <1>2, ZenonT(30) DEF Locals
<1> QED
  BY <1>3 DEF Core, TypeOK, WaitNext, table, locks

LEMMA TypeClockIntr == ASSUME Core, ClockIntr PROVE TypeOK'
<1> DEFINE Left(p) == IF loc[p].left = 0 THEN 0 ELSE loc[p].left - 1
<1>1. /\ loc \in [Proc -> Locals]
      /\ loc' = [p \in Proc |-> [loc[p] EXCEPT !.left = Left(p)]]
  BY DEF Core, TypeOK, ClockIntr
<1>2. ASSUME NEW p \in Proc PROVE [loc[p] EXCEPT !.left = Left(p)] \in Locals
  <2>1. Left(p) \in Nat
    BY LocFields DEF Core
  <2> HIDE DEF Left
  <2> QED
    BY <1>1, <2>1 DEF Locals
<1>3. loc' \in [Proc -> Locals]
  BY <1>1, <1>2
<1> QED
  BY <1>3, TableAssumption DEF Core, TypeOK, ClockIntr, table

\* Every step keeps the types.
LEMMA TypeOKStep == ASSUME Core, [Next]_vars PROVE TypeOK'
<1>1. ASSUME NEW p \in Proc, NEW c \in Proc, Allocproc(p, c) PROVE TypeOK'
  BY <1>1, TypeAllocproc
<1>2. ASSUME NEW p \in Proc, NEW c \in Proc, Kill(p, c) PROVE TypeOK'
  BY <1>2 DEF Kill, locks, Core, TypeOK, State
<1>3. ASSUME NEW p \in Proc, NEW c \in Proc, KillZero(p, c) PROVE TypeOK'
  BY <1>3 DEF KillZero, locks, Core, TypeOK
<1>4. ASSUME NEW p \in Proc, Exit(p) PROVE TypeOK'
  BY <1>4, TableAssumption DEF Exit, Goto, table, locks, Core, TypeOK, PcLabel,
     NoLocals, Locals
<1>5. ASSUME NEW p \in Proc, Wait(p) PROVE TypeOK'
  BY <1>5 DEF Wait, Goto, table, locks, Core, TypeOK, PcLabel
<1>6. ASSUME NEW p \in Proc, NEW n \in Sleeps[p], SysSleep(p, n) PROVE TypeOK'
  BY <1>6, TypeSysSleep
<1>7. ASSUME NEW p \in Proc, Wakeup(p) PROVE TypeOK'
  BY <1>7, TypeWakeup
<1>8. ASSUME NEW p \in Proc, ForkFail(p) PROVE TypeOK'
  BY <1>8, TypeForkFail
<1>9. ASSUME NEW p \in Proc, ForkCopied(p) PROVE TypeOK'
  BY <1>9 DEF ForkCopied, Goto, table, Core, TypeOK, State, PcLabel
<1>10. ASSUME NEW p \in Proc, ForkParent(p) PROVE TypeOK'
  BY <1>10 DEF ForkParent, Goto, locks, Core, TypeOK, PcLabel
<1>11. ASSUME NEW p \in Proc, ForkRunnable(p) PROVE TypeOK'
  BY <1>11, TypeForkRunnable
<1>12. ASSUME NEW p \in Proc, ExitLock(p) PROVE TypeOK'
  BY <1>12 DEF ExitLock, Goto, table, Core, TypeOK, PcLabel
<1>13. ASSUME NEW p \in Proc, Reparent(p) PROVE TypeOK'
  BY <1>13, TypeReparent
<1>14. ASSUME NEW p \in Proc, ExitWakeup(p) PROVE TypeOK'
  BY <1>14, TypeExitWakeup
<1>15. ASSUME NEW p \in Proc, ExitZombie(p) PROVE TypeOK'
  BY <1>15, TableAssumption DEF ExitZombie, Goto, Core, TypeOK, State, PcLabel,
     NoLocals, Locals
<1>16. ASSUME NEW p \in Proc, WaitLock(p) PROVE TypeOK'
  BY <1>16, TypeWaitLock
<1>17. ASSUME NEW p \in Proc, WaitNext(p) PROVE TypeOK'
  BY <1>17, TypeWaitNext
<1>18. ASSUME NEW p \in Proc, Reap(p) PROVE TypeOK'
  BY <1>18, TableAssumption DEF Reap, Freeproc, Core, TypeOK, State, PcLabel, NoLocals,
     Locals
<1>19. ASSUME NEW p \in Proc, ReapFail(p) PROVE TypeOK'
  BY <1>19, TableAssumption DEF ReapFail, Return, Goto, table, Core, TypeOK, PcLabel,
     NoLocals, Locals
<1>20. ASSUME NEW p \in Proc, WaitNone(p) PROVE TypeOK'
  BY <1>20, TableAssumption DEF WaitNone, Return, Goto, table, Core, TypeOK, PcLabel,
     NoLocals, Locals
<1>21. ASSUME NEW p \in Proc, WaitCheck(p) PROVE TypeOK'
  BY <1>21 DEF WaitCheck, Goto, table, locks, Core, TypeOK, PcLabel
<1>22. ASSUME NEW p \in Proc, WaitSleep(p) PROVE TypeOK'
  BY <1>22 DEF WaitSleep, Sleep, Goto, Core, TypeOK, State, PcLabel
<1>23. ASSUME NEW p \in Proc, TicksDone(p) PROVE TypeOK'
  BY <1>23, TableAssumption DEF TicksDone, Return, Goto, table, Core, TypeOK, PcLabel,
     NoLocals, Locals
<1>24. ASSUME NEW p \in Proc, TicksCheck(p) PROVE TypeOK'
  BY <1>24 DEF TicksCheck, Goto, table, locks, Core, TypeOK, PcLabel
<1>25. ASSUME NEW p \in Proc, TicksSleep(p) PROVE TypeOK'
  BY <1>25 DEF TicksSleep, Sleep, Goto, Core, TypeOK, State, PcLabel
<1>26. ASSUME NEW p \in Proc, TicksLock(p) PROVE TypeOK'
  BY <1>26 DEF TicksLock, Goto, table, Core, TypeOK, PcLabel
<1>27. ASSUME NEW p \in Proc, Yield(p) PROVE TypeOK'
  BY <1>27 DEF Yield, Core, TypeOK, State
<1>28. ASSUME NEW h \in Cpu, Swtch(h) PROVE TypeOK'
  BY <1>28 DEF Swtch, table, Core, TypeOK
<1>29. ASSUME NEW h \in Cpu, NEW p \in Proc, Run(h, p) PROVE TypeOK'
  BY <1>29 DEF Run, locks, Core, TypeOK, State
<1>30. ASSUME ClockIntr PROVE TypeOK'
  BY <1>30, TypeClockIntr
<1>31. ASSUME ClockWakeup PROVE TypeOK'
  BY <1>31, TableAssumption DEF ClockWakeup, Wake, After, table, Core, TypeOK, State,
     NoLocals, Locals
<1>32. CASE UNCHANGED vars
  BY <1>32 DEF vars, table, locks, Core, TypeOK
<1> QED
  BY <1>1, <1>2, <1>3, <1>4, <1>5, <1>6, <1>7, <1>8, <1>9, <1>10, <1>11, <1>12, <1>13,
     <1>14, <1>15, <1>16, <1>17, <1>18, <1>19, <1>20, <1>21, <1>22, <1>23, <1>24, <1>25,
     <1>26, <1>27, <1>28, <1>29, <1>30, <1>31, <1>32 DEF Next, Program, Kernel

-----------------------------------------------------------------------------
(* Stacks                                                                  *)

\* A thread goes off duty with its lock (OffDuty), and comes back where nobody runs.
LEMMA StackStep == ASSUME Core, [Next]_vars PROVE StackInv'
<1>1. ASSUME NEW p \in Proc, NEW c \in Proc, Allocproc(p, c) PROVE StackInv'
  BY <1>1 DEF Allocproc, Goto, Core, StackInv
<1>2. ASSUME NEW p \in Proc, NEW c \in Proc, Kill(p, c) PROVE StackInv'
  BY <1>2 DEF Kill, locks, Core, StackInv
<1>3. ASSUME NEW p \in Proc, NEW c \in Proc, KillZero(p, c) PROVE StackInv'
  BY <1>3 DEF KillZero, locks, Core, StackInv
<1>4. ASSUME NEW p \in Proc, Exit(p) PROVE StackInv'
  BY <1>4 DEF Exit, Goto, table, locks, Core, StackInv, TypeOK
<1>5. ASSUME NEW p \in Proc, Wait(p) PROVE StackInv'
  BY <1>5 DEF Wait, Goto, table, locks, Core, StackInv
<1>6. ASSUME NEW p \in Proc, NEW n \in Sleeps[p], SysSleep(p, n) PROVE StackInv'
  BY <1>6 DEF SysSleep, Goto, table, Core, StackInv
<1>7. ASSUME NEW p \in Proc, Wakeup(p) PROVE StackInv'
  BY <1>7 DEF Wakeup, Wake, After, table, locks, Core, StackInv, TypeOK
<1>8. ASSUME NEW p \in Proc, ForkFail(p) PROVE StackInv'
  BY <1>8 DEF ForkFail, At, Freeproc, Return, Goto, Core, StackInv, TypeOK, ForkInv,
     Forking
<1>9. ASSUME NEW p \in Proc, ForkCopied(p) PROVE StackInv'
  BY <1>9 DEF ForkCopied, At, Goto, table, Core, StackInv, TypeOK, ForkInv, Forking
<1>10. ASSUME NEW p \in Proc, ForkParent(p) PROVE StackInv'
  BY <1>10 DEF ForkParent, Goto, locks, Core, StackInv
<1>11. ASSUME NEW p \in Proc, ForkRunnable(p) PROVE StackInv'
  BY <1>11 DEF ForkRunnable, At, locks, Core, StackInv, TypeOK, ForkInv, Forking
<1>12. ASSUME NEW p \in Proc, ExitLock(p) PROVE StackInv'
  BY <1>12 DEF ExitLock, Goto, table, Core, StackInv
<1>13. ASSUME NEW p \in Proc, Reparent(p) PROVE StackInv'
  BY <1>13 DEF Reparent, locks, Core, StackInv
<1>14. ASSUME NEW p \in Proc, ExitWakeup(p) PROVE StackInv'
  BY <1>14 DEF ExitWakeup, Goto, table, locks, Core, StackInv
<1>15. ASSUME NEW p \in Proc, ExitZombie(p) PROVE StackInv'
  BY <1>15, OffDuty DEF ExitZombie, At
<1>16. ASSUME NEW p \in Proc, WaitLock(p) PROVE StackInv'
  BY <1>16 DEF WaitLock, Goto, table, Core, StackInv
<1>17. ASSUME NEW p \in Proc, WaitNext(p) PROVE StackInv'
  BY <1>17 DEF WaitNext, table, locks, Core, StackInv
<1>18. ASSUME NEW p \in Proc, Reap(p) PROVE StackInv'
  BY <1>18, TableAssumption, LocFields DEF Reap, Free, Freeproc, Core, StackInv, TypeOK,
     ForkInv, Forking
<1>19. ASSUME NEW p \in Proc, ReapFail(p) PROVE StackInv'
  BY <1>19 DEF ReapFail, Return, Goto, table, Core, StackInv
<1>20. ASSUME NEW p \in Proc, WaitNone(p) PROVE StackInv'
  BY <1>20 DEF WaitNone, Return, Goto, table, Core, StackInv
<1>21. ASSUME NEW p \in Proc, WaitCheck(p) PROVE StackInv'
  BY <1>21 DEF WaitCheck, Goto, table, locks, Core, StackInv
<1>22. ASSUME NEW p \in Proc, WaitSleep(p) PROVE StackInv'
  BY <1>22, OffDuty DEF WaitSleep, Sleep, At
<1>23. ASSUME NEW p \in Proc, TicksDone(p) PROVE StackInv'
  BY <1>23 DEF TicksDone, Return, Goto, table, Core, StackInv
<1>24. ASSUME NEW p \in Proc, TicksCheck(p) PROVE StackInv'
  BY <1>24 DEF TicksCheck, Goto, table, locks, Core, StackInv
<1>25. ASSUME NEW p \in Proc, TicksSleep(p) PROVE StackInv'
  BY <1>25, OffDuty DEF TicksSleep, Sleep, At
<1>26. ASSUME NEW p \in Proc, TicksLock(p) PROVE StackInv'
  BY <1>26 DEF TicksLock, Goto, table, Core, StackInv
<1>27. ASSUME NEW p \in Proc, Yield(p) PROVE StackInv'
  BY <1>27, OffDuty DEF Yield, At
<1>28. ASSUME NEW h \in Cpu, Swtch(h) PROVE StackInv'
  BY <1>28 DEF Swtch, table, Core, StackInv, TypeOK
<1>29. ASSUME NEW h \in Cpu, NEW p \in Proc, Run(h, p) PROVE StackInv'
  BY <1>29, TableAssumption, LocFields DEF Run, Free, locks, Core, StackInv, TypeOK,
     ForkInv, Forking
<1>30. ASSUME ClockIntr PROVE StackInv'
  BY <1>30, TableAssumption, LocFields DEF ClockIntr, IntrOn, Holds, table, Core,
     StackInv, TypeOK, ForkInv, Forking
<1>31. ASSUME ClockWakeup PROVE StackInv'
  BY <1>31 DEF ClockWakeup, Wake, After, table, Core, StackInv, TypeOK
<1>32. CASE UNCHANGED vars
  BY <1>32 DEF vars, table, locks, Core, StackInv
<1> QED
  BY <1>1, <1>2, <1>3, <1>4, <1>5, <1>6, <1>7, <1>8, <1>9, <1>10, <1>11, <1>12, <1>13,
     <1>14, <1>15, <1>16, <1>17, <1>18, <1>19, <1>20, <1>21, <1>22, <1>23, <1>24, <1>25,
     <1>26, <1>27, <1>28, <1>29, <1>30, <1>31, <1>32 DEF Next, Program, Kernel

-----------------------------------------------------------------------------
(* Labels                                                                  *)

LEMMA LabelReap == ASSUME Core, NEW p \in Proc, Reap(p) PROVE LabelInv'
<1> DEFINE q == loc[p].i
<1>1. /\ q \in Proc /\ state[p] = "RUNNING" /\ state[q] = "ZOMBIE"
      /\ state' = [state EXCEPT ![q] = "UNUSED"]
      /\ pc' = [pc EXCEPT ![p] = "user", ![q] = "none"]
      /\ loc' = [loc EXCEPT ![p] = NoLocals]
  BY Executing DEF Reap, Freeproc, At
<1>2. q # InitProc /\ pc[q] = "zombie"
  BY <1>1, InitIsProc DEF Core, LabelInv
<1> QED
  BY <1>1, <1>2, InitIsProc DEF Core, TypeOK, LabelInv, NoLocals, Busy, Locking, Timing

LEMMA LabelClockIntr == ASSUME Core, ClockIntr PROVE LabelInv'
<1>1. UNCHANGED <<state, pc>>
  BY DEF ClockIntr, table
<1>2. \A p \in Proc : loc'[p].w = loc[p].w /\ loc'[p].i = loc[p].i
  BY ClockIntrLocals DEF Core
<1> QED
  BY <1>1, <1>2 DEF Core, LabelInv

\* The label moves with the state.
LEMMA LabelStep == ASSUME Core, [Next]_vars PROVE LabelInv'
<1>1. ASSUME NEW p \in Proc, NEW c \in Proc, Allocproc(p, c) PROVE LabelInv'
  BY <1>1, Executing DEF Allocproc, InUser, At, Goto, Core, LabelInv, TypeOK
<1>2. ASSUME NEW p \in Proc, NEW c \in Proc, Kill(p, c) PROVE LabelInv'
  BY <1>2 DEF Kill, Core, LabelInv
<1>3. ASSUME NEW p \in Proc, NEW c \in Proc, KillZero(p, c) PROVE LabelInv'
  BY <1>3 DEF KillZero, Core, LabelInv
<1>4. ASSUME NEW p \in Proc, Exit(p) PROVE LabelInv'
  BY <1>4, Executing DEF Exit, At, Goto, table, Core, LabelInv, TypeOK
<1>5. ASSUME NEW p \in Proc, Wait(p) PROVE LabelInv'
  BY <1>5, Executing DEF Wait, InUser, At, Goto, table, Core, LabelInv, TypeOK
<1>6. ASSUME NEW p \in Proc, NEW n \in Sleeps[p], SysSleep(p, n) PROVE LabelInv'
  BY <1>6, Executing, LocFields DEF SysSleep, InUser, At, Goto, table, Core, LabelInv,
     TypeOK
<1>7. ASSUME NEW p \in Proc, Wakeup(p) PROVE LabelInv'
  BY <1>7 DEF Wakeup, Wake, After, table, Core, LabelInv, TypeOK
<1>8. ASSUME NEW p \in Proc, ForkFail(p) PROVE LabelInv'
  BY <1>8, Executing, InitIsProc, LocFields DEF ForkFail, At, Freeproc, Return, Goto,
     Core, LabelInv, TypeOK, ForkInv, Forking, NoLocals
<1>9. ASSUME NEW p \in Proc, ForkCopied(p) PROVE LabelInv'
  BY <1>9, Executing DEF ForkCopied, At, Goto, table, Core, LabelInv, TypeOK
<1>10. ASSUME NEW p \in Proc, ForkParent(p) PROVE LabelInv'
  BY <1>10, Executing DEF ForkParent, At, Goto, Core, LabelInv, TypeOK
<1>11. ASSUME NEW p \in Proc, ForkRunnable(p) PROVE LabelInv'
  BY <1>11, Executing, InitIsProc, LocFields DEF ForkRunnable, At, Core, LabelInv,
     TypeOK, ForkInv, Forking, NoLocals, Busy, Locking, Timing
<1>12. ASSUME NEW p \in Proc, ExitLock(p) PROVE LabelInv'
  BY <1>12, Executing DEF ExitLock, At, Goto, table, Core, LabelInv, TypeOK
<1>13. ASSUME NEW p \in Proc, Reparent(p) PROVE LabelInv'
  BY <1>13 DEF Reparent, At, Core, LabelInv, TypeOK
<1>14. ASSUME NEW p \in Proc, ExitWakeup(p) PROVE LabelInv'
  BY <1>14, Executing DEF ExitWakeup, At, Goto, table, Core, LabelInv, TypeOK
<1>15. ASSUME NEW p \in Proc, ExitZombie(p) PROVE LabelInv'
  BY <1>15, Executing, InitIsProc, LocFields DEF ExitZombie, At, Goto, Core, LabelInv,
     TypeOK, Busy, Locking, Timing, NoLocals, LockInv
<1>16. ASSUME NEW p \in Proc, WaitLock(p) PROVE LabelInv'
  BY <1>16, Executing DEF WaitLock, At, Goto, table, Core, LabelInv, TypeOK
<1>17. ASSUME NEW p \in Proc, WaitNext(p) PROVE LabelInv'
  BY <1>17 DEF WaitNext, At, table, Core, LabelInv, TypeOK
<1>18. ASSUME NEW p \in Proc, Reap(p) PROVE LabelInv'
  BY <1>18, LabelReap
<1>19. ASSUME NEW p \in Proc, ReapFail(p) PROVE LabelInv'
  BY <1>19, Executing DEF ReapFail, At, Return, Goto, table, Core, LabelInv, TypeOK,
     NoLocals
<1>20. ASSUME NEW p \in Proc, WaitNone(p) PROVE LabelInv'
  BY <1>20, Executing DEF WaitNone, At, Return, Goto, table, Core, LabelInv, TypeOK,
     NoLocals
<1>21. ASSUME NEW p \in Proc, WaitCheck(p) PROVE LabelInv'
  BY <1>21, Executing DEF WaitCheck, At, Free, GivesUp, Goto, table, Core, LabelInv,
     TypeOK
<1>22. ASSUME NEW p \in Proc, WaitSleep(p) PROVE LabelInv'
  BY <1>22, Executing, InitIsProc, LocFields DEF WaitSleep, At, Sleep, Goto, Core,
     LabelInv, TypeOK, Busy, Locking, Timing, NoLocals, LockInv
<1>23. ASSUME NEW p \in Proc, TicksDone(p) PROVE LabelInv'
  BY <1>23, Executing DEF TicksDone, At, Return, Goto, table, Core, LabelInv, TypeOK,
     NoLocals
<1>24. ASSUME NEW p \in Proc, TicksCheck(p) PROVE LabelInv'
  BY <1>24, Executing DEF TicksCheck, At, Goto, table, Core, LabelInv, TypeOK
<1>25. ASSUME NEW p \in Proc, TicksSleep(p) PROVE LabelInv'
  BY <1>25, Executing DEF TicksSleep, At, Sleep, Goto, Core, LabelInv, TypeOK, Busy,
     Locking, Timing
<1>26. ASSUME NEW p \in Proc, TicksLock(p) PROVE LabelInv'
  BY <1>26, Executing DEF TicksLock, At, Goto, table, Core, LabelInv, TypeOK
<1>27. ASSUME NEW p \in Proc, Yield(p) PROVE LabelInv'
  BY <1>27, TableAssumption, InitIsProc, LocFields DEF Yield, On, Free, IntrOn, Holds,
     Core, LabelInv, TypeOK, LockInv, Locking, Timing, Busy, ForkInv, Forking, NoLocals,
     StackInv
<1>28. ASSUME NEW h \in Cpu, Swtch(h) PROVE LabelInv'
  BY <1>28 DEF Swtch, table, Core, LabelInv
<1>29. ASSUME NEW h \in Cpu, NEW p \in Proc, Run(h, p) PROVE LabelInv'
  BY <1>29 DEF Run, Core, LabelInv
<1>30. ASSUME ClockIntr PROVE LabelInv'
  BY <1>30, LabelClockIntr
<1>31. ASSUME ClockWakeup PROVE LabelInv'
  BY <1>31 DEF ClockWakeup, Wake, After, table, Core, LabelInv, TypeOK
<1>32. CASE UNCHANGED vars
  BY <1>32 DEF vars, table, locks, Core, LabelInv
<1> QED
  BY <1>1, <1>2, <1>3, <1>4, <1>5, <1>6, <1>7, <1>8, <1>9, <1>10, <1>11, <1>12, <1>13,
     <1>14, <1>15, <1>16, <1>17, <1>18, <1>19, <1>20, <1>21, <1>22, <1>23, <1>24, <1>25,
     <1>26, <1>27, <1>28, <1>29, <1>30, <1>31, <1>32 DEF Next, Program, Kernel

-----------------------------------------------------------------------------
(* Locks                                                                   *)

LEMMA LockWaitLock == ASSUME Core, NEW p \in Proc, WaitLock(p) PROVE LockInv'
<1>1. /\ UNCHANGED <<lock, tickslock, insched, clk>>
      /\ pc[p] = "wait" /\ pc' = [pc EXCEPT ![p] = "wait_scan"]
      /\ wait_lock = None /\ wait_lock' = p
  BY DEF WaitLock, At, Goto
<1>2. \A q \in Proc : loc'[q].np = loc[q].np
  BY WaitLockLocals DEF Core
<1>3. \A q \in Proc : pc[q] \notin Locking
  BY <1>1, TableAssumption DEF Core, LockInv
<1> QED
  BY <1>1, <1>2, <1>3, TableAssumption DEF Core, TypeOK, LockInv, Locking, Timing

\* Locks are taken and given back at the labels that say so.
LEMMA LockStep == ASSUME Core, [Next]_vars PROVE LockInv'
<1>1. ASSUME NEW p \in Proc, NEW c \in Proc, Allocproc(p, c) PROVE LockInv'
  BY <1>1 DEF Allocproc, InUser, At, Goto, Core, LockInv, TypeOK, Locking, Timing
<1>2. ASSUME NEW p \in Proc, NEW c \in Proc, Kill(p, c) PROVE LockInv'
  BY <1>2 DEF Kill, locks, Core, LockInv
<1>3. ASSUME NEW p \in Proc, NEW c \in Proc, KillZero(p, c) PROVE LockInv'
  BY <1>3 DEF KillZero, locks, Core, LockInv
<1>4. ASSUME NEW p \in Proc, Exit(p) PROVE LockInv'
  BY <1>4 DEF Exit, At, Goto, locks, Core, LockInv, TypeOK, Locking, Timing
<1>5. ASSUME NEW p \in Proc, Wait(p) PROVE LockInv'
  BY <1>5 DEF Wait, InUser, At, Goto, locks, Core, LockInv, TypeOK, Locking, Timing
<1>6. ASSUME NEW p \in Proc, NEW n \in Sleeps[p], SysSleep(p, n) PROVE LockInv'
  BY <1>6, TableAssumption DEF SysSleep, InUser, At, Goto, Core, LockInv, TypeOK,
     Locking, Timing
<1>7. ASSUME NEW p \in Proc, Wakeup(p) PROVE LockInv'
  BY <1>7 DEF Wakeup, Wake, After, locks, Core, LockInv
<1>8. ASSUME NEW p \in Proc, ForkFail(p) PROVE LockInv'
  BY <1>8 DEF ForkFail, At, Freeproc, Return, Goto, Core, LockInv, TypeOK, Locking,
     Timing
<1>9. ASSUME NEW p \in Proc, ForkCopied(p) PROVE LockInv'
  BY <1>9 DEF ForkCopied, At, Goto, Core, LockInv, TypeOK, Locking, Timing
<1>10. ASSUME NEW p \in Proc, ForkParent(p) PROVE LockInv'
  BY <1>10 DEF ForkParent, At, Goto, locks, Core, LockInv, TypeOK, Locking, Timing
<1>11. ASSUME NEW p \in Proc, ForkRunnable(p) PROVE LockInv'
  BY <1>11 DEF ForkRunnable, At, locks, Core, LockInv, TypeOK, Locking, Timing,
     LabelInv, ForkInv, Forking
<1>12. ASSUME NEW p \in Proc, ExitLock(p) PROVE LockInv'
  BY <1>12, TableAssumption DEF ExitLock, At, Goto, Core, LockInv, TypeOK, Locking,
     Timing
<1>13. ASSUME NEW p \in Proc, Reparent(p) PROVE LockInv'
  BY <1>13 DEF Reparent, At, locks, Core, LockInv, TypeOK
<1>14. ASSUME NEW p \in Proc, ExitWakeup(p) PROVE LockInv'
  BY <1>14 DEF ExitWakeup, At, Goto, locks, Core, LockInv, TypeOK, Locking, Timing
<1>15. ASSUME NEW p \in Proc, ExitZombie(p) PROVE LockInv'
  BY <1>15, TableAssumption DEF ExitZombie, At, Goto, Core, LockInv, TypeOK, Locking,
     Timing
<1>16. ASSUME NEW p \in Proc, WaitLock(p) PROVE LockInv'
  BY <1>16, LockWaitLock
<1>17. ASSUME NEW p \in Proc, WaitNext(p) PROVE LockInv'
  BY <1>17 DEF WaitNext, locks, Core, LockInv, TypeOK
<1>18. ASSUME NEW p \in Proc, Reap(p) PROVE LockInv'
  BY <1>18, TableAssumption, Executing DEF Reap, At, Freeproc, Core, LockInv, TypeOK,
     Locking, Timing, LabelInv, Busy
<1>19. ASSUME NEW p \in Proc, ReapFail(p) PROVE LockInv'
  BY <1>19, TableAssumption DEF ReapFail, At, Return, Goto, Core, LockInv, TypeOK,
     Locking, Timing
<1>20. ASSUME NEW p \in Proc, WaitNone(p) PROVE LockInv'
  BY <1>20, TableAssumption DEF WaitNone, At, Return, Goto, Core, LockInv, TypeOK,
     Locking, Timing
<1>21. ASSUME NEW p \in Proc, WaitCheck(p) PROVE LockInv'
  BY <1>21 DEF WaitCheck, At, Goto, locks, Core, LockInv, TypeOK, Locking, Timing
<1>22. ASSUME NEW p \in Proc, WaitSleep(p) PROVE LockInv'
  BY <1>22, TableAssumption DEF WaitSleep, At, Sleep, Goto, Core, LockInv, TypeOK,
     Locking, Timing
<1>23. ASSUME NEW p \in Proc, TicksDone(p) PROVE LockInv'
  BY <1>23, TableAssumption DEF TicksDone, At, Return, Goto, Core, LockInv, TypeOK,
     Locking, Timing
<1>24. ASSUME NEW p \in Proc, TicksCheck(p) PROVE LockInv'
  BY <1>24 DEF TicksCheck, At, Free, Goto, locks, Core, LockInv, TypeOK, Locking, Timing
<1>25. ASSUME NEW p \in Proc, TicksSleep(p) PROVE LockInv'
  BY <1>25, TableAssumption DEF TicksSleep, At, Sleep, Goto, Core, LockInv, TypeOK,
     Locking, Timing
<1>26. ASSUME NEW p \in Proc, TicksLock(p) PROVE LockInv'
  BY <1>26, TableAssumption DEF TicksLock, At, Goto, Core, LockInv, TypeOK, Locking,
     Timing
<1>27. ASSUME NEW p \in Proc, Yield(p) PROVE LockInv'
  BY <1>27 DEF Yield, Core, LockInv
<1>28. ASSUME NEW h \in Cpu, Swtch(h) PROVE LockInv'
  BY <1>28 DEF Swtch, table, Core, LockInv, TypeOK
<1>29. ASSUME NEW h \in Cpu, NEW p \in Proc, Run(h, p) PROVE LockInv'
  BY <1>29 DEF Run, locks, Core, LockInv
<1>30. ASSUME ClockIntr PROVE LockInv'
  BY <1>30, TableAssumption DEF ClockIntr, Core, LockInv, TypeOK, Locking, Timing
<1>31. ASSUME ClockWakeup PROVE LockInv'
  BY <1>31, TableAssumption DEF ClockWakeup, Wake, After, Core, LockInv, TypeOK,
     Locking, Timing
<1>32. CASE UNCHANGED vars
  BY <1>32 DEF vars, locks, Core, LockInv
<1> QED
  BY <1>1, <1>2, <1>3, <1>4, <1>5, <1>6, <1>7, <1>8, <1>9, <1>10, <1>11, <1>12, <1>13,
     <1>14, <1>15, <1>16, <1>17, <1>18, <1>19, <1>20, <1>21, <1>22, <1>23, <1>24, <1>25,
     <1>26, <1>27, <1>28, <1>29, <1>30, <1>31, <1>32 DEF Next, Program, Kernel

-----------------------------------------------------------------------------
(* fork()                                                                  *)

\* Nobody but its maker touches an entry in state USED.
LEMMA ForkStep == ASSUME Core, [Next]_vars PROVE ForkInv'
<1>1. ASSUME NEW p \in Proc, NEW c \in Proc, Allocproc(p, c) PROVE ForkInv'
  BY <1>1 DEF Allocproc, Goto, Core, ForkInv, Forking, TypeOK
<1>2. ASSUME NEW p \in Proc, NEW c \in Proc, Kill(p, c) PROVE ForkInv'
  BY <1>2 DEF Kill, locks, Core, ForkInv, Forking
<1>3. ASSUME NEW p \in Proc, NEW c \in Proc, KillZero(p, c) PROVE ForkInv'
  BY <1>3 DEF KillZero, locks, Core, ForkInv, Forking
<1>4. ASSUME NEW p \in Proc, Exit(p) PROVE ForkInv'
  BY <1>4 DEF Exit, Goto, table, locks, Core, ForkInv, Forking, TypeOK
<1>5. ASSUME NEW p \in Proc, Wait(p) PROVE ForkInv'
  BY <1>5 DEF Wait, Goto, table, locks, Core, ForkInv, Forking
<1>6. ASSUME NEW p \in Proc, NEW n \in Sleeps[p], SysSleep(p, n) PROVE ForkInv'
  BY <1>6 DEF SysSleep, Goto, table, Core, ForkInv, Forking
<1>7. ASSUME NEW p \in Proc, Wakeup(p) PROVE ForkInv'
  BY <1>7 DEF Wakeup, Wake, After, table, locks, Core, ForkInv, Forking, TypeOK
<1>8. ASSUME NEW p \in Proc, ForkFail(p) PROVE ForkInv'
  BY <1>8 DEF ForkFail, At, Freeproc, Return, Goto, Core, ForkInv, Forking, TypeOK,
     LockInv
<1>9. ASSUME NEW p \in Proc, ForkCopied(p) PROVE ForkInv'
  BY <1>9 DEF ForkCopied, At, Goto, table, Core, ForkInv, Forking, TypeOK
<1>10. ASSUME NEW p \in Proc, ForkParent(p) PROVE ForkInv'
  BY <1>10 DEF ForkParent, At, Goto, locks, Core, ForkInv, Forking
<1>11. ASSUME NEW p \in Proc, ForkRunnable(p) PROVE ForkInv'
  BY <1>11 DEF ForkRunnable, At, Free, locks, Core, ForkInv, Forking, TypeOK
<1>12. ASSUME NEW p \in Proc, ExitLock(p) PROVE ForkInv'
  BY <1>12 DEF ExitLock, Goto, table, Core, ForkInv, Forking
<1>13. ASSUME NEW p \in Proc, Reparent(p) PROVE ForkInv'
  BY <1>13 DEF Reparent, At, locks, Core, ForkInv, Forking, TypeOK
<1>14. ASSUME NEW p \in Proc, ExitWakeup(p) PROVE ForkInv'
  BY <1>14 DEF ExitWakeup, Goto, table, locks, Core, ForkInv, Forking, TypeOK
<1>15. ASSUME NEW p \in Proc, ExitZombie(p) PROVE ForkInv'
  BY <1>15 DEF ExitZombie, At, Goto, Core, ForkInv, Forking, TypeOK, LabelInv, LockInv
<1>16. ASSUME NEW p \in Proc, WaitLock(p) PROVE ForkInv'
  BY <1>16 DEF WaitLock, Goto, table, Core, ForkInv, Forking, TypeOK
<1>17. ASSUME NEW p \in Proc, WaitNext(p) PROVE ForkInv'
  BY <1>17 DEF WaitNext, table, locks, Core, ForkInv, Forking, TypeOK
<1>18. ASSUME NEW p \in Proc, Reap(p) PROVE ForkInv'
  BY <1>18 DEF Reap, Freeproc, Core, ForkInv, Forking, TypeOK
<1>19. ASSUME NEW p \in Proc, ReapFail(p) PROVE ForkInv'
  BY <1>19 DEF ReapFail, At, Return, Goto, table, Core, ForkInv, Forking
<1>20. ASSUME NEW p \in Proc, WaitNone(p) PROVE ForkInv'
  BY <1>20 DEF WaitNone, At, Return, Goto, table, Core, ForkInv, Forking
<1>21. ASSUME NEW p \in Proc, WaitCheck(p) PROVE ForkInv'
  BY <1>21 DEF WaitCheck, Goto, table, locks, Core, ForkInv, Forking
<1>22. ASSUME NEW p \in Proc, WaitSleep(p) PROVE ForkInv'
  BY <1>22 DEF WaitSleep, At, Sleep, Goto, Core, ForkInv, Forking, TypeOK, LabelInv,
     LockInv
<1>23. ASSUME NEW p \in Proc, TicksDone(p) PROVE ForkInv'
  BY <1>23 DEF TicksDone, At, Return, Goto, table, Core, ForkInv, Forking
<1>24. ASSUME NEW p \in Proc, TicksCheck(p) PROVE ForkInv'
  BY <1>24 DEF TicksCheck, Goto, table, locks, Core, ForkInv, Forking
<1>25. ASSUME NEW p \in Proc, TicksSleep(p) PROVE ForkInv'
  BY <1>25 DEF TicksSleep, At, Sleep, Goto, Core, ForkInv, Forking, TypeOK, LabelInv,
     LockInv
<1>26. ASSUME NEW p \in Proc, TicksLock(p) PROVE ForkInv'
  BY <1>26 DEF TicksLock, Goto, table, Core, ForkInv, Forking
<1>27. ASSUME NEW p \in Proc, Yield(p) PROVE ForkInv'
  BY <1>27, Executing DEF Yield, Core, ForkInv, Forking, TypeOK
<1>28. ASSUME NEW h \in Cpu, Swtch(h) PROVE ForkInv'
  BY <1>28, Executing DEF Swtch, table, Core, ForkInv, Forking, TypeOK, StackInv
<1>29. ASSUME NEW h \in Cpu, NEW p \in Proc, Run(h, p) PROVE ForkInv'
  BY <1>29 DEF Run, locks, Core, ForkInv, Forking
<1>30. ASSUME ClockIntr PROVE ForkInv'
  BY <1>30, ClockIntrLocals, SMTT(30) DEF Core, ForkInv, ClockIntr, table, Forking
<1>31. ASSUME ClockWakeup PROVE ForkInv'
  BY <1>31 DEF ClockWakeup, Wake, After, table, Core, ForkInv, Forking, TypeOK
<1>32. CASE UNCHANGED vars
  BY <1>32 DEF vars, table, locks, Core, ForkInv, Forking
<1> QED
  BY <1>1, <1>2, <1>3, <1>4, <1>5, <1>6, <1>7, <1>8, <1>9, <1>10, <1>11, <1>12, <1>13,
     <1>14, <1>15, <1>16, <1>17, <1>18, <1>19, <1>20, <1>21, <1>22, <1>23, <1>24, <1>25,
     <1>26, <1>27, <1>28, <1>29, <1>30, <1>31, <1>32 DEF Next, Program, Kernel

-----------------------------------------------------------------------------
(* Parents and children                                                    *)

LEMMA FamilyReparent ==
  ASSUME Core, FamilyInv, NEW p \in Proc, Reparent(p) PROVE FamilyInv'
<1> DEFINE q == loc[p].i
<1>1. /\ UNCHANGED <<state, pc>>
      /\ pc[p] = "reparent" /\ q \in Proc
      /\ parent' = IF parent[q] = p THEN [parent EXCEPT ![q] = InitProc] ELSE parent
  BY DEF Reparent, At
<1>2. p # InitProc /\ state[InitProc] \notin {"UNUSED", "USED", "ZOMBIE"}
  BY <1>1, InitIsProc DEF Core, LabelInv
<1>3. \A r \in Proc : pc[r] \in {"reparent", "exit_zombie"} => r = p
  BY <1>1 DEF Core, LockInv, Locking
<1>4. loc'[p].i = q + 1 /\ \A r \in Proc : loc'[r].np = loc[r].np
  BY ReparentLocals DEF Core
<1>5. \A r \in Proc : r < q + 1 <=> r < q \/ r = q
  BY <1>1 DEF Proc
<1>6. \A r \in Proc : /\ parent'[r] \in {parent[r], InitProc}
                    /\ parent'[r] # parent[r] => parent[r] = p
  BY <1>1 DEF Core, TypeOK
<1>7. \A r \in Proc : r < loc'[p].i => parent'[r] # p
  BY <1>1, <1>2, <1>4, <1>5, <1>6 DEF Core, TypeOK, FamilyInv
<1>8. \A r \in Proc : pc[r] = "fork_runnable" => loc[r].np \in Proc /\ r # p
  BY <1>1 DEF Core, ForkInv, Forking
<1>9. /\ \A r \in Proc : parent'[r] # None => state'[parent'[r]] \notin {"UNUSED", "USED", "ZOMBIE"}
      /\ \A r \in Proc \ {InitProc} : state'[r] \notin {"UNUSED", "USED"} => parent'[r] # None
  BY <1>1, <1>2, <1>6, InitIsProc, TableAssumption DEF FamilyInv, InitProc
<1>10. \A r \in Proc : pc'[r] = "fork_runnable" => parent'[loc'[r].np] = r
  BY <1>1, <1>4, <1>6, <1>8 DEF FamilyInv
<1> QED
  BY <1>1, <1>3, <1>7, <1>9, <1>10 DEF FamilyInv

LEMMA FamilyExitWakeup ==
  ASSUME Core, FamilyInv, NEW p \in Proc, ExitWakeup(p) PROVE FamilyInv'
<1>1. UNCHANGED <<state, parent>> /\ pc[p] = "reparent" /\ loc[p].i \notin Proc
      /\ pc' = [pc EXCEPT ![p] = "exit_zombie"]
  BY DEF ExitWakeup, At, Goto, table
<1>2. \A r \in Proc : r < loc[p].i
  BY <1>1, LocFields, TableAssumption DEF Core, Proc
<1>3. \A r \in Proc : loc'[r].np = loc[r].np /\ (r # p => loc'[r].i = loc[r].i)
  BY ExitWakeupLocals DEF Core
<1> QED
  BY <1>1, <1>2, <1>3 DEF Core, TypeOK, FamilyInv

\* reparent() hands over the children one by one, under wait_lock.
LEMMA FamilyStep == ASSUME Core, FamilyInv, [Next]_vars PROVE FamilyInv'
<1>1. ASSUME NEW p \in Proc, NEW c \in Proc, Allocproc(p, c) PROVE FamilyInv'
  BY <1>1 DEF Allocproc, InUser, At, Goto, Core, FamilyInv
<1>2. ASSUME NEW p \in Proc, NEW c \in Proc, Kill(p, c) PROVE FamilyInv'
  BY <1>2 DEF Kill, Core, FamilyInv
<1>3. ASSUME NEW p \in Proc, NEW c \in Proc, KillZero(p, c) PROVE FamilyInv'
  BY <1>3 DEF KillZero, Core, FamilyInv
<1>4. ASSUME NEW p \in Proc, Exit(p) PROVE FamilyInv'
  BY <1>4 DEF Exit, Goto, table, Core, FamilyInv, TypeOK
<1>5. ASSUME NEW p \in Proc, Wait(p) PROVE FamilyInv'
  BY <1>5 DEF Wait, Goto, table, Core, FamilyInv
<1>6. ASSUME NEW p \in Proc, NEW n \in Sleeps[p], SysSleep(p, n) PROVE FamilyInv'
  BY <1>6 DEF SysSleep, Goto, table, Core, FamilyInv
<1>7. ASSUME NEW p \in Proc, Wakeup(p) PROVE FamilyInv'
  BY <1>7 DEF Wakeup, Wake, After, table, Core, FamilyInv, TypeOK
<1>8. ASSUME NEW p \in Proc, ForkFail(p) PROVE FamilyInv'
  BY <1>8, TableAssumption, InitIsProc, LocFields DEF ForkFail, At, Freeproc, Return,
     Goto, Core, FamilyInv, TypeOK, LabelInv, LockInv, Locking, ForkInv, Forking
<1>9. ASSUME NEW p \in Proc, ForkCopied(p) PROVE FamilyInv'
  BY <1>9 DEF ForkCopied, Goto, table, Core, FamilyInv
<1>10. ASSUME NEW p \in Proc, ForkParent(p) PROVE FamilyInv'
  BY <1>10 DEF ForkParent, At, Goto, Core, FamilyInv, TypeOK, LabelInv, ForkInv, Forking
<1>11. ASSUME NEW p \in Proc, ForkRunnable(p) PROVE FamilyInv'
  BY <1>11, TableAssumption, InitIsProc, LocFields DEF ForkRunnable, At, Core,
     FamilyInv, TypeOK, LabelInv, LockInv, Locking, ForkInv, Forking
<1>12. ASSUME NEW p \in Proc, ExitLock(p) PROVE FamilyInv'
  BY <1>12 DEF Core, FamilyInv, LabelInv, TypeOK, PcLabel, ExitLock, At, Goto, table,
     Proc
<1>13. ASSUME NEW p \in Proc, Reparent(p) PROVE FamilyInv'
  BY <1>13, FamilyReparent
<1>14. ASSUME NEW p \in Proc, ExitWakeup(p) PROVE FamilyInv'
  BY <1>14, FamilyExitWakeup
<1>15. ASSUME NEW p \in Proc, ExitZombie(p) PROVE FamilyInv'
  BY <1>15 DEF ExitZombie, At, Goto, Core, FamilyInv, TypeOK, LabelInv
<1>16. ASSUME NEW p \in Proc, WaitLock(p) PROVE FamilyInv'
  BY <1>16 DEF WaitLock, Goto, table, Core, FamilyInv, TypeOK
<1>17. ASSUME NEW p \in Proc, WaitNext(p) PROVE FamilyInv'
  BY <1>17 DEF WaitNext, At, table, Core, FamilyInv, TypeOK
<1>18. ASSUME NEW p \in Proc, Reap(p) PROVE FamilyInv'
  BY <1>18 DEF Reap, At, Freeproc, Core, FamilyInv, TypeOK, LabelInv, LockInv, Locking
<1>19. ASSUME NEW p \in Proc, ReapFail(p) PROVE FamilyInv'
  BY <1>19 DEF ReapFail, At, Return, Goto, table, Core, FamilyInv
<1>20. ASSUME NEW p \in Proc, WaitNone(p) PROVE FamilyInv'
  BY <1>20 DEF WaitNone, At, Return, Goto, table, Core, FamilyInv
<1>21. ASSUME NEW p \in Proc, WaitCheck(p) PROVE FamilyInv'
  BY <1>21 DEF WaitCheck, Goto, table, locks, Core, FamilyInv
<1>22. ASSUME NEW p \in Proc, WaitSleep(p) PROVE FamilyInv'
  BY <1>22 DEF WaitSleep, At, Sleep, Goto, Core, FamilyInv, TypeOK, LabelInv
<1>23. ASSUME NEW p \in Proc, TicksDone(p) PROVE FamilyInv'
  BY <1>23 DEF TicksDone, At, Free, Return, Goto, table, Core, FamilyInv
<1>24. ASSUME NEW p \in Proc, TicksCheck(p) PROVE FamilyInv'
  BY <1>24 DEF TicksCheck, Goto, table, Core, FamilyInv
<1>25. ASSUME NEW p \in Proc, TicksSleep(p) PROVE FamilyInv'
  BY <1>25 DEF TicksSleep, At, Sleep, Goto, Core, FamilyInv, TypeOK, LabelInv
<1>26. ASSUME NEW p \in Proc, TicksLock(p) PROVE FamilyInv'
  BY <1>26 DEF TicksLock, Goto, table, Core, FamilyInv
<1>27. ASSUME NEW p \in Proc, Yield(p) PROVE FamilyInv'
  BY <1>27, Executing DEF Core, TypeOK, FamilyInv, Yield
<1>28. ASSUME NEW h \in Cpu, Swtch(h) PROVE FamilyInv'
  BY <1>28 DEF Swtch, table, Core, FamilyInv
<1>29. ASSUME NEW h \in Cpu, NEW p \in Proc, Run(h, p) PROVE FamilyInv'
  BY <1>29 DEF Run, Core, FamilyInv
<1>30. ASSUME ClockIntr PROVE FamilyInv'
  BY <1>30, ClockIntrLocals DEF Core, FamilyInv, ClockIntr, table
<1>31. ASSUME ClockWakeup PROVE FamilyInv'
  BY <1>31 DEF ClockWakeup, Wake, After, table, Core, FamilyInv, TypeOK
<1>32. CASE UNCHANGED vars
  BY <1>32 DEF vars, table, Core, FamilyInv
<1> QED
  BY <1>1, <1>2, <1>3, <1>4, <1>5, <1>6, <1>7, <1>8, <1>9, <1>10, <1>11, <1>12, <1>13,
     <1>14, <1>15, <1>16, <1>17, <1>18, <1>19, <1>20, <1>21, <1>22, <1>23, <1>24, <1>25,
     <1>26, <1>27, <1>28, <1>29, <1>30, <1>31, <1>32 DEF Next, Program, Kernel

-----------------------------------------------------------------------------
(* The scan of wait()                                                      *)

LEMMA ScanWaitLock == ASSUME Core, ScanInv, NEW p \in Proc, WaitLock(p) PROVE ScanInv'
<1>1. /\ UNCHANGED <<state, parent>> /\ wait_lock' = p
      /\ pc' = [pc EXCEPT ![p] = "wait_scan"]
  BY DEF WaitLock, Goto, table
<1>2. loc'[p].i = 1 /\ \A r \in Proc \ {p} : loc'[r] = loc[r]
  BY WaitLockLocals DEF Core
<1>3. \A r \in Proc : ~(r < 1)
  BY DEF Proc
<1> QED
  BY <1>1, <1>2, <1>3 DEF Core, TypeOK, ScanInv, ScanComplete

LEMMA ScanWaitNext == ASSUME Core, ScanInv, NEW p \in Proc, WaitNext(p) PROVE ScanInv'
<1> DEFINE q == loc[p].i
<1>1. /\ UNCHANGED <<state, parent, wait_lock, pc>>
      /\ pc[p] = "wait_scan" /\ wait_lock = p
      /\ q \in Proc /\ (parent[q] = p => state[q] # "ZOMBIE")
  BY DEF WaitNext, At, table, locks, Core, LockInv, Locking
<1>2. /\ loc'[p].i = q + 1 /\ loc'[p].havekids = (loc[p].havekids \/ parent[q] = p)
      /\ \A r \in Proc \ {p} : loc'[r] = loc[r]
  BY WaitNextLocals DEF Core
<1>3. \A r \in Proc : r < q + 1 <=> r < q \/ r = q
  BY <1>1 DEF Proc
<1>4. ASSUME NEW s \in Proc, s < loc'[p].i, parent[s] = p
      PROVE  loc'[p].havekids /\ state[s] # "ZOMBIE"
  <2>1. CASE s = q
    BY <1>1, <1>2, <1>4, <2>1
  <2>2. CASE s < q
    BY <1>1, <1>2, <1>4, <2>2 DEF ScanInv, ScanComplete
  <2> QED
    BY <1>2, <1>3, <1>4, <2>1, <2>2
<1>5. \A r \in Proc : pc[r] = "wait_sleep" => r # p /\ loc'[r].i = NPROC + 1
  BY <1>1, <1>2 DEF ScanInv
<1> QED
  BY <1>1, <1>2, <1>4, <1>5 DEF ScanInv, ScanComplete

LEMMA ScanWaitCheck == ASSUME Core, ScanInv, NEW p \in Proc, WaitCheck(p) PROVE ScanInv'
<1>1. /\ UNCHANGED <<state, parent, wait_lock, loc>>
      /\ pc[p] = "wait_scan" /\ loc[p].i \notin Proc
      /\ pc' = [pc EXCEPT ![p] = "wait_sleep"]
  BY DEF WaitCheck, At, Goto, table, locks
<1>2. loc[p].i = NPROC + 1
  BY <1>1, LocFields, TableAssumption DEF Core, Proc
<1> QED
  BY <1>1, <1>2 DEF Core, TypeOK, ScanInv, ScanComplete

\* What wait() has scanned cannot change before it sleeps: exit() needs wait_lock.
LEMMA ScanStep == ASSUME Core, ScanInv, [Next]_vars PROVE ScanInv'
<1>1. ASSUME NEW p \in Proc, NEW c \in Proc, Allocproc(p, c) PROVE ScanInv'
  BY <1>1 DEF Allocproc, Goto, Core, ScanInv, ScanComplete
<1>2. ASSUME NEW p \in Proc, NEW c \in Proc, Kill(p, c) PROVE ScanInv'
  BY <1>2 DEF Kill, locks, Core, ScanInv, ScanComplete
<1>3. ASSUME NEW p \in Proc, NEW c \in Proc, KillZero(p, c) PROVE ScanInv'
  BY <1>3 DEF KillZero, locks, Core, ScanInv, ScanComplete
<1>4. ASSUME NEW p \in Proc, Exit(p) PROVE ScanInv'
  BY <1>4 DEF Exit, Goto, table, locks, Core, ScanInv, ScanComplete, TypeOK
<1>5. ASSUME NEW p \in Proc, Wait(p) PROVE ScanInv'
  BY <1>5 DEF Wait, Goto, table, locks, Core, ScanInv, ScanComplete
<1>6. ASSUME NEW p \in Proc, NEW n \in Sleeps[p], SysSleep(p, n) PROVE ScanInv'
  BY <1>6 DEF SysSleep, Goto, table, Core, ScanInv, ScanComplete
<1>7. ASSUME NEW p \in Proc, Wakeup(p) PROVE ScanInv'
  BY <1>7 DEF Wakeup, Wake, After, table, locks, Core, ScanInv, ScanComplete, TypeOK
<1>8. ASSUME NEW p \in Proc, ForkFail(p) PROVE ScanInv'
  BY <1>8, TableAssumption, LocFields DEF ForkFail, Freeproc, Return, Goto, Core,
     ScanInv, ScanComplete, TypeOK, LockInv, Locking, ForkInv, Forking, LabelInv,
     NoLocals
<1>9. ASSUME NEW p \in Proc, ForkCopied(p) PROVE ScanInv'
  BY <1>9 DEF ForkCopied, Goto, table, Core, ScanInv, ScanComplete
<1>10. ASSUME NEW p \in Proc, ForkParent(p) PROVE ScanInv'
  BY <1>10 DEF ForkParent, At, Goto, locks, Core, ScanInv, ScanComplete
<1>11. ASSUME NEW p \in Proc, ForkRunnable(p) PROVE ScanInv'
  BY <1>11 DEF ForkRunnable, Core, ScanInv, ScanComplete, TypeOK, LockInv, Locking
<1>12. ASSUME NEW p \in Proc, ExitLock(p) PROVE ScanInv'
  BY <1>12 DEF ExitLock, At, Goto, table, Core, ScanInv, ScanComplete
<1>13. ASSUME NEW p \in Proc, Reparent(p) PROVE ScanInv'
  BY <1>13 DEF Reparent, At, Core, ScanInv, ScanComplete, TypeOK, LockInv, Locking
<1>14. ASSUME NEW p \in Proc, ExitWakeup(p) PROVE ScanInv'
  BY <1>14 DEF ExitWakeup, Goto, table, locks, Core, ScanInv, ScanComplete, TypeOK
<1>15. ASSUME NEW p \in Proc, ExitZombie(p) PROVE ScanInv'
  BY <1>15 DEF ExitZombie, At, Goto, Core, ScanInv, ScanComplete, TypeOK, LabelInv,
     LockInv, Locking
<1>16. ASSUME NEW p \in Proc, WaitLock(p) PROVE ScanInv'
  BY <1>16, ScanWaitLock
<1>17. ASSUME NEW p \in Proc, WaitNext(p) PROVE ScanInv'
  BY <1>17, ScanWaitNext
<1>18. ASSUME NEW p \in Proc, Reap(p) PROVE ScanInv'
  BY <1>18 DEF Reap, At, Freeproc, Core, ScanInv, ScanComplete, TypeOK, LockInv, Locking
<1>19. ASSUME NEW p \in Proc, ReapFail(p) PROVE ScanInv'
  BY <1>19 DEF ReapFail, Return, Goto, table, Core, ScanInv, ScanComplete, TypeOK,
     LockInv, Locking
<1>20. ASSUME NEW p \in Proc, WaitNone(p) PROVE ScanInv'
  BY <1>20 DEF WaitNone, Return, Goto, table, Core, ScanInv, ScanComplete, TypeOK,
     LockInv, Locking
<1>21. ASSUME NEW p \in Proc, WaitCheck(p) PROVE ScanInv'
  BY <1>21, ScanWaitCheck
<1>22. ASSUME NEW p \in Proc, WaitSleep(p) PROVE ScanInv'
  BY <1>22 DEF WaitSleep, Sleep, Goto, Core, ScanInv, ScanComplete, TypeOK, LockInv,
     Locking
<1>23. ASSUME NEW p \in Proc, TicksDone(p) PROVE ScanInv'
  BY <1>23 DEF TicksDone, At, Return, Goto, table, Core, ScanInv, ScanComplete
<1>24. ASSUME NEW p \in Proc, TicksCheck(p) PROVE ScanInv'
  BY <1>24 DEF TicksCheck, Goto, table, locks, Core, ScanInv, ScanComplete
<1>25. ASSUME NEW p \in Proc, TicksSleep(p) PROVE ScanInv'
  BY <1>25 DEF TicksSleep, Sleep, Goto, Core, ScanInv, ScanComplete
<1>26. ASSUME NEW p \in Proc, TicksLock(p) PROVE ScanInv'
  BY <1>26 DEF TicksLock, Goto, table, Core, ScanInv, ScanComplete
<1>27. ASSUME NEW p \in Proc, Yield(p) PROVE ScanInv'
  BY <1>27 DEF Yield, Core, ScanInv, ScanComplete
<1>28. ASSUME NEW h \in Cpu, Swtch(h) PROVE ScanInv'
  BY <1>28 DEF Swtch, table, Core, ScanInv, ScanComplete
<1>29. ASSUME NEW h \in Cpu, NEW p \in Proc, Run(h, p) PROVE ScanInv'
  BY <1>29 DEF Run, locks, Core, ScanInv, ScanComplete
<1>30. ASSUME ClockIntr PROVE ScanInv'
  BY <1>30, ClockIntrLocals DEF Core, ScanInv, ScanComplete, ClockIntr, table
<1>31. ASSUME ClockWakeup PROVE ScanInv'
  BY <1>31 DEF ClockWakeup, Wake, After, table, Core, ScanInv, ScanComplete, TypeOK
<1>32. CASE UNCHANGED vars
  BY <1>32 DEF vars, table, locks, Core, ScanInv, ScanComplete
<1> QED
  BY <1>1, <1>2, <1>3, <1>4, <1>5, <1>6, <1>7, <1>8, <1>9, <1>10, <1>11, <1>12, <1>13,
     <1>14, <1>15, <1>16, <1>17, <1>18, <1>19, <1>20, <1>21, <1>22, <1>23, <1>24, <1>25,
     <1>26, <1>27, <1>28, <1>29, <1>30, <1>31, <1>32 DEF Next, Program, Kernel

-----------------------------------------------------------------------------
(* Waiting parents                                                         *)

LEMMA WaitWakeup ==
  ASSUME Core, FamilyInv, ScanInv, WaitInv, NEW p \in Proc, Wakeup(p) PROVE WaitInv'
<1> DEFINE q == loc[p].w
<1>1. /\ UNCHANGED <<chan, parent, wait_lock, pc>>
      /\ q \in Proc /\ On(p)
      /\ q = p => UNCHANGED state
      /\ q # p => state' = IF state[q] = "SLEEPING" /\ chan[q] = loc[p].ch
                           THEN [state EXCEPT ![q] = "RUNNABLE"] ELSE state
  BY LocFields DEF Wakeup, Wake, table, locks, Core, Proc
<1>2. pc[p] \in Locking /\ wait_lock = p
  BY <1>1 DEF Core, LabelInv, LockInv, Locking, Proc
<1>3. state[p] = "RUNNING"
  BY <1>1, Executing
<1>4. /\ \A r \in Proc \ {p} : loc'[r] = loc[r]
      /\ loc'[p].ch = loc[p].ch /\ loc'[p].w = After(q)
  BY WakeupLocals DEF Core
<1>5. \A r \in Proc : Asleep(r)' => Asleep(r)
  BY <1>1 DEF Asleep, Core, TypeOK
<1>6. \A r \in Proc : state'[r] = "ZOMBIE" => state[r] = "ZOMBIE"
  BY <1>1 DEF Core, TypeOK
<1>7. ASSUME NEW r \in Proc, Asleep(r)', Owed(p, r) PROVE Owed(p, r)'
  <2>1. q # r
    BY <1>1, <1>3, <1>7 DEF Asleep, Owed, Core, TypeOK
  <2>2. After(q) \in 1 .. r
    BY <1>1, <1>7, <2>1, TableAssumption DEF Owed, After, Proc
  <2> QED
    BY <1>4, <1>7, <2>2 DEF Owed
<1>8. ASSUME NEW r \in Proc, NEW t \in Proc, t # p, Owed(t, r) PROVE Owed(t, r)'
  BY <1>4, <1>8 DEF Owed
<1> QED
  BY <1>1, <1>2, <1>5, <1>6, <1>7, <1>8 DEF WaitInv

LEMMA WaitReparent ==
  ASSUME Core, FamilyInv, ScanInv, WaitInv, NEW p \in Proc, Reparent(p) PROVE WaitInv'
<1> DEFINE q == loc[p].i
<1>1. /\ UNCHANGED <<state, chan, pc, wait_lock>>
      /\ pc[p] = "reparent" /\ q \in Proc /\ loc[p].w = 0
      /\ parent' = IF parent[q] = p THEN [parent EXCEPT ![q] = InitProc] ELSE parent
  BY DEF Reparent, At, locks
<1>2. wait_lock = p /\ \A r \in Proc : pc[r] # "exit_zombie"
  BY <1>1 DEF Core, LockInv, Locking
<1>3. ASSUME NEW r \in Proc PROVE ~Owed(p, r)
  BY <1>1 DEF Owed
<1>4. ASSUME NEW r \in Proc, NEW s \in Proc, Asleep(r)', parent'[s] = r, state'[s] = "ZOMBIE"
      PROVE  Owed(p, r)'
  <2>1. Asleep(r) /\ state[s] = "ZOMBIE"
    BY <1>1, <1>4 DEF Asleep
  <2>2. parent[s] # r
    BY <1>2, <1>3, <2>1 DEF WaitInv
  <2>3. s = q /\ parent[q] = p /\ r = InitProc
    BY <1>1, <1>4, <2>2 DEF Core, TypeOK
  <2>4. loc'[p].w = 1 /\ loc'[p].ch = InitProc
    BY <2>3, ReparentLocals DEF Core
  <2> QED
    BY <2>3, <2>4 DEF Owed, InitProc
<1> QED
  BY <1>1, <1>2, <1>4 DEF WaitInv

LEMMA WaitExitWakeup ==
  ASSUME Core, FamilyInv, ScanInv, WaitInv, NEW p \in Proc, ExitWakeup(p) PROVE WaitInv'
<1>1. /\ UNCHANGED <<state, chan, parent, wait_lock>>
      /\ pc[p] = "reparent" /\ loc[p].w = 0
      /\ pc' = [pc EXCEPT ![p] = "exit_zombie"]
  BY DEF ExitWakeup, At, Goto, table, locks
<1>2. wait_lock = p /\ \A r \in Proc : pc[r] # "exit_zombie"
  BY <1>1 DEF Core, LockInv, Locking
<1>3. ASSUME NEW r \in Proc PROVE ~Owed(p, r)
  BY <1>1 DEF Owed
<1>4. ASSUME NEW r \in Proc, parent[p] = r PROVE Owed(p, r)'
  <2>1. loc'[p].w = 1 /\ loc'[p].ch = r
    BY <1>4, ExitWakeupLocals DEF Core
  <2>2. 1 \in 1 .. r
    BY DEF Proc
  <2> QED
    BY <2>1, <2>2 DEF Owed
<1>5. \A r \in Proc : Asleep(r)' <=> Asleep(r)
  BY <1>1 DEF Asleep
<1>6. \A s \in Proc : pc'[s] = "exit_zombie" => s = p
  BY <1>1, <1>2 DEF Core, TypeOK
<1> QED
  BY <1>1, <1>2, <1>3, <1>4, <1>5, <1>6 DEF WaitInv

LEMMA WaitWaitSleep ==
  ASSUME Core, FamilyInv, ScanInv, WaitInv, NEW p \in Proc, WaitSleep(p) PROVE WaitInv'
<1>1. /\ UNCHANGED <<parent, loc>> /\ wait_lock' = None
      /\ pc[p] = "wait_sleep"
      /\ pc' = [pc EXCEPT ![p] = "wait"]
      /\ state' = [state EXCEPT ![p] = "SLEEPING"]
      /\ chan' = [chan EXCEPT ![p] = p]
  BY DEF WaitSleep, Sleep, At, Goto
<1>2. wait_lock = p /\ loc[p].w = 0 /\ \A r \in Proc : pc[r] # "exit_zombie"
  BY <1>1 DEF Core, LockInv, Locking, LabelInv
<1>3. \A s \in Proc : parent[s] = p => state[s] # "ZOMBIE"
  <2>1. \A s \in Proc : s < loc[p].i
    BY <1>1, TableAssumption DEF ScanInv, Proc
  <2> QED
    BY <1>1, <1>2, <2>1 DEF ScanInv, ScanComplete
<1>4. ASSUME NEW r \in Proc, NEW s \in Proc, Asleep(r)', parent'[s] = r, state'[s] = "ZOMBIE"
      PROVE  FALSE
  <2>1. r # p
    BY <1>1, <1>3, <1>4 DEF Core, TypeOK
  <2>2. Asleep(r) /\ parent[s] = r /\ state[s] = "ZOMBIE"
    BY <1>1, <1>4, <2>1 DEF Asleep, Core, TypeOK
  <2> QED
    BY <1>2, <2>2 DEF WaitInv, Owed
<1>5. \A s \in Proc : pc'[s] # "exit_zombie"
  BY <1>1, <1>2 DEF Core, TypeOK
<1> QED
  BY <1>4, <1>5 DEF WaitInv

LEMMA WaitClockIntr == ASSUME Core, WaitInv, ClockIntr PROVE WaitInv'
<1>1. UNCHANGED <<state, chan, parent, pc, wait_lock>>
  BY DEF ClockIntr, table
<1>2. \A p \in Proc : loc'[p].w = loc[p].w /\ loc'[p].ch = loc[p].ch
  BY ClockIntrLocals DEF Core
<1> QED
  BY <1>1, <1>2 DEF Core, WaitInv, Asleep, Owed

\* Who finds no dead child sleeps, and who dies then owes it a wakeup().
LEMMA WaitStep == ASSUME Core, FamilyInv, ScanInv, WaitInv, [Next]_vars PROVE WaitInv'
<1>1. ASSUME NEW p \in Proc, NEW c \in Proc, Allocproc(p, c) PROVE WaitInv'
  BY <1>1 DEF Allocproc, Goto, Core, WaitInv, Asleep, Owed
<1>2. ASSUME NEW p \in Proc, NEW c \in Proc, Kill(p, c) PROVE WaitInv'
  BY <1>2 DEF Kill, locks, Core, WaitInv, Asleep, Owed
<1>3. ASSUME NEW p \in Proc, NEW c \in Proc, KillZero(p, c) PROVE WaitInv'
  BY <1>3 DEF KillZero, locks, Core, WaitInv, Asleep, Owed
<1>4. ASSUME NEW p \in Proc, Exit(p) PROVE WaitInv'
  BY <1>4 DEF Exit, Goto, table, locks, Core, WaitInv, Asleep, Owed, TypeOK
<1>5. ASSUME NEW p \in Proc, Wait(p) PROVE WaitInv'
  BY <1>5 DEF Wait, Goto, table, locks, Core, WaitInv, Asleep, Owed
<1>6. ASSUME NEW p \in Proc, NEW n \in Sleeps[p], SysSleep(p, n) PROVE WaitInv'
  BY <1>6 DEF SysSleep, Goto, table, Core, WaitInv, Asleep, Owed
<1>7. ASSUME NEW p \in Proc, Wakeup(p) PROVE WaitInv'
  BY <1>7, WaitWakeup
<1>8. ASSUME NEW p \in Proc, ForkFail(p) PROVE WaitInv'
  BY <1>8 DEF ForkFail, At, Freeproc, Return, Goto, Core, WaitInv, Asleep, Owed, TypeOK,
     LabelInv, LockInv, Locking, ForkInv, Forking
<1>9. ASSUME NEW p \in Proc, ForkCopied(p) PROVE WaitInv'
  BY <1>9 DEF ForkCopied, Goto, table, Core, WaitInv, Asleep, Owed
<1>10. ASSUME NEW p \in Proc, ForkParent(p) PROVE WaitInv'
  BY <1>10, Executing DEF ForkParent, At, Goto, locks, Core, WaitInv, Asleep, Owed,
     TypeOK, LabelInv, LockInv, Locking
<1>11. ASSUME NEW p \in Proc, ForkRunnable(p) PROVE WaitInv'
  BY <1>11 DEF ForkRunnable, At, locks, Core, WaitInv, Asleep, Owed, TypeOK, LockInv,
     Locking
<1>12. ASSUME NEW p \in Proc, ExitLock(p) PROVE WaitInv'
  BY <1>12, TableAssumption DEF ExitLock, Goto, table, Core, WaitInv, Asleep, Owed,
     TypeOK, LabelInv, LockInv, Locking
<1>13. ASSUME NEW p \in Proc, Reparent(p) PROVE WaitInv'
  BY <1>13, WaitReparent
<1>14. ASSUME NEW p \in Proc, ExitWakeup(p) PROVE WaitInv'
  BY <1>14, WaitExitWakeup
<1>15. ASSUME NEW p \in Proc, ExitZombie(p) PROVE WaitInv'
  BY <1>15 DEF ExitZombie, At, Goto, Core, WaitInv, Asleep, Owed, TypeOK, LockInv,
     Locking
<1>16. ASSUME NEW p \in Proc, WaitLock(p) PROVE WaitInv'
  BY <1>16, TableAssumption DEF WaitLock, Goto, table, Core, WaitInv, Asleep, Owed,
     TypeOK, LabelInv, LockInv, Locking
<1>17. ASSUME NEW p \in Proc, WaitNext(p) PROVE WaitInv'
  BY <1>17 DEF WaitNext, table, locks, Core, WaitInv, Asleep, Owed, TypeOK
<1>18. ASSUME NEW p \in Proc, Reap(p) PROVE WaitInv'
  BY <1>18 DEF Reap, At, Free, Freeproc, Core, WaitInv, Asleep, Owed, TypeOK, LockInv,
     Locking
<1>19. ASSUME NEW p \in Proc, ReapFail(p) PROVE WaitInv'
  BY <1>19 DEF ReapFail, At, Return, Goto, table, Core, WaitInv, Asleep, Owed, TypeOK,
     LockInv, Locking
<1>20. ASSUME NEW p \in Proc, WaitNone(p) PROVE WaitInv'
  BY <1>20 DEF WaitNone, At, Return, Goto, table, Core, WaitInv, Asleep, Owed, TypeOK,
     LockInv, Locking
<1>21. ASSUME NEW p \in Proc, WaitCheck(p) PROVE WaitInv'
  BY <1>21 DEF WaitCheck, Goto, table, locks, Core, WaitInv, Asleep, Owed
<1>22. ASSUME NEW p \in Proc, WaitSleep(p) PROVE WaitInv'
  BY <1>22, WaitWaitSleep
<1>23. ASSUME NEW p \in Proc, TicksDone(p) PROVE WaitInv'
  BY <1>23 DEF TicksDone, At, Return, Goto, table, Core, WaitInv, Asleep, Owed
<1>24. ASSUME NEW p \in Proc, TicksCheck(p) PROVE WaitInv'
  BY <1>24 DEF TicksCheck, Goto, table, locks, Core, WaitInv, Asleep, Owed
<1>25. ASSUME NEW p \in Proc, TicksSleep(p) PROVE WaitInv'
  BY <1>25, TableAssumption DEF TicksSleep, Sleep, Goto, Core, WaitInv, Asleep, Owed,
     TypeOK, LabelInv, LockInv, Locking
<1>26. ASSUME NEW p \in Proc, TicksLock(p) PROVE WaitInv'
  BY <1>26 DEF TicksLock, Goto, table, Core, WaitInv, Asleep, Owed
<1>27. ASSUME NEW p \in Proc, Yield(p) PROVE WaitInv'
  BY <1>27 DEF Yield, Core, WaitInv, Asleep, Owed
<1>28. ASSUME NEW h \in Cpu, Swtch(h) PROVE WaitInv'
  BY <1>28 DEF Swtch, table, Core, WaitInv, Asleep, Owed
<1>29. ASSUME NEW h \in Cpu, NEW p \in Proc, Run(h, p) PROVE WaitInv'
  BY <1>29 DEF Run, locks, Core, WaitInv, Asleep, Owed
<1>30. ASSUME ClockIntr PROVE WaitInv'
  BY <1>30, WaitClockIntr
<1>31. ASSUME ClockWakeup PROVE WaitInv'
  BY <1>31 DEF ClockWakeup, Wake, After, table, Core, WaitInv, Asleep, Owed, TypeOK
<1>32. CASE UNCHANGED vars
  BY <1>32 DEF vars, table, locks, Core, WaitInv, Asleep, Owed
<1> QED
  BY <1>1, <1>2, <1>3, <1>4, <1>5, <1>6, <1>7, <1>8, <1>9, <1>10, <1>11, <1>12, <1>13,
     <1>14, <1>15, <1>16, <1>17, <1>18, <1>19, <1>20, <1>21, <1>22, <1>23, <1>24, <1>25,
     <1>26, <1>27, <1>28, <1>29, <1>30, <1>31, <1>32 DEF Next, Program, Kernel

-----------------------------------------------------------------------------
(* sys_sleep() and the clock                                               *)

LEMMA ClockClockIntr == ASSUME Core, ClockInv, ClockIntr PROVE ClockInv'
<1>1. UNCHANGED <<state, chan, pc>> /\ clk' = 1 /\ tickslock = None
  BY DEF ClockIntr, table
<1>2. ASSUME NEW p \in Proc, pc[p] = "ticks_sleep" PROVE FALSE
  BY <1>1, <1>2, TableAssumption DEF Core, LockInv, Timing
<1>3. \A p \in Proc : 1 \in 1 .. p
  BY DEF Proc
<1> QED
  BY <1>1, <1>2, <1>3 DEF Core, ClockInv

LEMMA ClockClockWakeup == ASSUME Core, ClockInv, ClockWakeup PROVE ClockInv'
<1>1. /\ UNCHANGED <<chan, pc, loc>> /\ clk \in Proc
      /\ clk = cpu[Cpu0] => UNCHANGED state
      /\ clk # cpu[Cpu0] => state' = IF state[clk] = "SLEEPING" /\ chan[clk] = Ticks
                           THEN [state EXCEPT ![clk] = "RUNNABLE"] ELSE state
      /\ clk' = After(clk)
  BY DEF ClockWakeup, Wake, table, Core, TypeOK, Proc
<1>2. clk = cpu[Cpu0] => state[clk] = "RUNNING"
  BY <1>1, TableAssumption DEF Core, StackInv, Proc
<1>3. ASSUME NEW r \in Proc, state'[r] = "SLEEPING", chan'[r] = Ticks, loc'[r].left = 0
      PROVE  clk' \in 1 .. r
  <2>1. state[r] = "SLEEPING" /\ chan[r] = Ticks /\ clk \in 1 .. r
    BY <1>1, <1>3 DEF Core, TypeOK, ClockInv
  <2>2. clk # r
    BY <1>1, <1>2, <1>3, <2>1 DEF Core, TypeOK
  <2> QED
    BY <1>1, <2>1, <2>2, TableAssumption DEF After, Proc
<1> QED
  BY <1>1, <1>3 DEF ClockInv

\* Who has slept enough is still ahead of the clock's scan of the table.
LEMMA ClockStep == ASSUME Core, ClockInv, [Next]_vars PROVE ClockInv'
<1>1. ASSUME NEW p \in Proc, NEW c \in Proc, Allocproc(p, c) PROVE ClockInv'
  BY <1>1 DEF Allocproc, Goto, Core, ClockInv
<1>2. ASSUME NEW p \in Proc, NEW c \in Proc, Kill(p, c) PROVE ClockInv'
  BY <1>2 DEF Kill, Core, ClockInv
<1>3. ASSUME NEW p \in Proc, NEW c \in Proc, KillZero(p, c) PROVE ClockInv'
  BY <1>3 DEF KillZero, Core, ClockInv
<1>4. ASSUME NEW p \in Proc, Exit(p) PROVE ClockInv'
  BY <1>4 DEF Exit, Goto, table, Core, ClockInv, TypeOK
<1>5. ASSUME NEW p \in Proc, Wait(p) PROVE ClockInv'
  BY <1>5 DEF Wait, Goto, table, Core, ClockInv
<1>6. ASSUME NEW p \in Proc, NEW n \in Sleeps[p], SysSleep(p, n) PROVE ClockInv'
  BY <1>6, TableAssumption, Executing DEF SysSleep, InUser, At, Goto, table, Core,
     ClockInv, TypeOK
<1>7. ASSUME NEW p \in Proc, Wakeup(p) PROVE ClockInv'
  BY <1>7 DEF Wakeup, Wake, After, table, Core, ClockInv, TypeOK
<1>8. ASSUME NEW p \in Proc, ForkFail(p) PROVE ClockInv'
  BY <1>8, TableAssumption, Executing DEF ForkFail, At, Freeproc, Return, Goto, Core,
     ClockInv, TypeOK
<1>9. ASSUME NEW p \in Proc, ForkCopied(p) PROVE ClockInv'
  BY <1>9 DEF ForkCopied, Goto, table, Core, ClockInv
<1>10. ASSUME NEW p \in Proc, ForkParent(p) PROVE ClockInv'
  BY <1>10 DEF ForkParent, Goto, locks, Core, ClockInv
<1>11. ASSUME NEW p \in Proc, ForkRunnable(p) PROVE ClockInv'
  BY <1>11, TableAssumption, Executing DEF ForkRunnable, At, Core, ClockInv, TypeOK
<1>12. ASSUME NEW p \in Proc, ExitLock(p) PROVE ClockInv'
  BY <1>12 DEF ExitLock, Goto, table, Core, ClockInv
<1>13. ASSUME NEW p \in Proc, Reparent(p) PROVE ClockInv'
  BY <1>13, TableAssumption, InitIsProc, LocFields DEF Reparent, At, Core, ClockInv,
     TypeOK, LockInv, Locking, Timing, LabelInv, Busy, ForkInv, Forking, NoLocals,
     StackInv, On
<1>14. ASSUME NEW p \in Proc, ExitWakeup(p) PROVE ClockInv'
  BY <1>14 DEF ExitWakeup, Goto, table, Core, ClockInv, TypeOK
<1>15. ASSUME NEW p \in Proc, ExitZombie(p) PROVE ClockInv'
  BY <1>15 DEF ExitZombie, Goto, Core, ClockInv, TypeOK
<1>16. ASSUME NEW p \in Proc, WaitLock(p) PROVE ClockInv'
  BY <1>16 DEF WaitLock, Goto, table, Core, ClockInv, TypeOK
<1>17. ASSUME NEW p \in Proc, WaitNext(p) PROVE ClockInv'
  BY <1>17 DEF WaitNext, table, Core, ClockInv, TypeOK
<1>18. ASSUME NEW p \in Proc, Reap(p) PROVE ClockInv'
  BY <1>18, TableAssumption, Executing DEF Reap, At, Freeproc, Core, ClockInv, TypeOK
<1>19. ASSUME NEW p \in Proc, ReapFail(p) PROVE ClockInv'
  BY <1>19, TableAssumption, Executing DEF ReapFail, At, Free, Return, Goto, table,
     Core, ClockInv, TypeOK
<1>20. ASSUME NEW p \in Proc, WaitNone(p) PROVE ClockInv'
  BY <1>20, TableAssumption, Executing DEF WaitNone, At, Return, Goto, table, Core,
     ClockInv, TypeOK
<1>21. ASSUME NEW p \in Proc, WaitCheck(p) PROVE ClockInv'
  BY <1>21 DEF WaitCheck, Goto, table, Core, ClockInv
<1>22. ASSUME NEW p \in Proc, WaitSleep(p) PROVE ClockInv'
  BY <1>22, TableAssumption DEF WaitSleep, Sleep, Goto, Core, ClockInv, TypeOK
<1>23. ASSUME NEW p \in Proc, TicksDone(p) PROVE ClockInv'
  BY <1>23, TableAssumption, Executing DEF TicksDone, At, Return, Goto, table, Core,
     ClockInv, TypeOK
<1>24. ASSUME NEW p \in Proc, TicksCheck(p) PROVE ClockInv'
  BY <1>24 DEF TicksCheck, Goto, table, Core, ClockInv
<1>25. ASSUME NEW p \in Proc, TicksSleep(p) PROVE ClockInv'
  BY <1>25 DEF TicksSleep, At, Sleep, Goto, Core, ClockInv
<1>26. ASSUME NEW p \in Proc, TicksLock(p) PROVE ClockInv'
  BY <1>26 DEF TicksLock, Goto, table, Core, ClockInv
<1>27. ASSUME NEW p \in Proc, Yield(p) PROVE ClockInv'
  BY <1>27 DEF Yield, Core, ClockInv
<1>28. ASSUME NEW h \in Cpu, Swtch(h) PROVE ClockInv'
  BY <1>28 DEF Swtch, table, Core, ClockInv
<1>29. ASSUME NEW h \in Cpu, NEW p \in Proc, Run(h, p) PROVE ClockInv'
  BY <1>29 DEF Run, Core, ClockInv
<1>30. ASSUME ClockIntr PROVE ClockInv'
  BY <1>30, ClockClockIntr
<1>31. ASSUME ClockWakeup PROVE ClockInv'
  BY <1>31, ClockClockWakeup
<1>32. CASE UNCHANGED vars
  BY <1>32 DEF vars, table, Core, ClockInv
<1> QED
  BY <1>1, <1>2, <1>3, <1>4, <1>5, <1>6, <1>7, <1>8, <1>9, <1>10, <1>11, <1>12, <1>13,
     <1>14, <1>15, <1>16, <1>17, <1>18, <1>19, <1>20, <1>21, <1>22, <1>23, <1>24, <1>25,
     <1>26, <1>27, <1>28, <1>29, <1>30, <1>31, <1>32 DEF Next, Program, Kernel

-----------------------------------------------------------------------------
(* The invariant                                                           *)

LEMMA InitInv == Init => IInv
<1> SUFFICES ASSUME Init PROVE IInv
  OBVIOUS
<1>1. /\ NoLocals \in Locals /\ NoLocals.w = 0 /\ NoLocals.i = 1
      /\ NoLocals.np = None /\ NoLocals.left = 0
  BY TableAssumption DEF NoLocals, Locals
<1>2. \A p \in Proc : loc[p] = NoLocals /\ pc[p] \in {"user", "none"}
  BY DEF Init
<1>3. TypeOK
  BY <1>1, TableAssumption DEF Init, TypeOK, State, PcLabel
<1>4. StackInv
  BY DEF Init, StackInv
<1>5. LabelInv
  BY <1>1, <1>2, InitIsProc DEF Init, LabelInv, Busy, Locking, Timing
<1>6. LockInv
  BY <1>2, TableAssumption DEF Init, LockInv, Locking, Timing
<1>7. ForkInv
  BY <1>2 DEF ForkInv, Forking
<1>8. FamilyInv
  BY <1>2 DEF Init, FamilyInv
<1>9. ScanInv
  BY <1>2 DEF ScanInv, ScanComplete
<1>10. \A p \in Proc : state[p] # "SLEEPING"
  BY DEF Init
<1>11. WaitInv
  BY <1>10 DEF WaitInv, Asleep
<1>12. ClockInv
  BY <1>2, <1>10 DEF ClockInv
<1> QED
  BY <1>3, <1>4, <1>5, <1>6, <1>7, <1>8, <1>9, <1>11, <1>12 DEF IInv, Core

LEMMA NextInv == IInv /\ [Next]_vars => IInv'
  BY TypeOKStep, StackStep, LabelStep, LockStep, ForkStep, FamilyStep, ScanStep, WaitStep,
     ClockStep DEF IInv, Core

LEMMA Invariance == Spec => []IInv
  BY InitInv, NextInv, PTL DEF Spec

-----------------------------------------------------------------------------
(* What it says                                                            *)

\* Whatever the scheduler, the interrupts and the callers do, the variables keep
\* their types: no table scan runs off the table, no thread is at an unknown label.
THEOREM TypeCorrect == Spec => []TypeOK
<1>1. IInv => TypeOK
  BY DEF IInv, Core
<1> QED
  BY <1>1, Invariance, PTL

\* Two CPUs never run on the same kernel stack, and freeproc() never takes one
\* away that exit() or swtch() is still on.
THEOREM StacksExclusive == Spec => []OneStack
<1>1. IInv => OneStack
  BY TableAssumption DEF IInv, Core, TypeOK, StackInv, OneStack
<1> QED
  BY <1>1, Invariance, PTL

\* The panics of sched() about locks are out of reach.
THEOREM SchedHoldsItsLock == Spec => []SchedLocks
<1>1. ASSUME IInv, NEW p \in insched
      PROVE  Holds(p) = {p} /\ wait_lock # p /\ tickslock # p
  <2>1. p \in Proc /\ lock[p] = p /\ state[p] # "RUNNING"
    BY <1>1 DEF IInv, Core, TypeOK, StackInv
  <2>2. pc[p] \notin Busy
    BY <1>1, <2>1 DEF IInv, Core, LabelInv
  <2>3. \A q \in Proc : lock[q] = p => q = p
    BY <1>1, <2>1, <2>2, TableAssumption DEF IInv, Core, LockInv, Busy
  <2>4. wait_lock # p /\ tickslock # p
    BY <1>1, <2>1, <2>2 DEF IInv, Core, LockInv, Busy
  <2> QED
    BY <2>1, <2>3, <2>4 DEF Holds
<1>2. IInv => SchedLocks
  BY <1>1 DEF SchedLocks
<1> QED
  BY <1>2, Invariance, PTL

\* No process is left without a parent that can still wait for it: fork() sets it
\* before the child can run, reparent() hands it over before the parent is dead.
THEOREM NoOrphans == Spec => []ParentAlive
<1>1. IInv => ParentAlive
  BY DEF IInv, FamilyInv, ParentAlive
<1> QED
  BY <1>1, Invariance, PTL

\* What wait() has seen of the table is still so when it goes to sleep.
THEOREM ScanStays == Spec => []ScanComplete
<1>1. IInv => ScanComplete
  BY DEF IInv, ScanInv
<1> QED
  BY <1>1, Invariance, PTL

\* No wakeup() is lost between a parent in wait() and a child in exit(), or
\* between initproc and the zombies that it inherits.
THEOREM NoLostChild == Spec => []WaitersWoken
<1>1. IInv => WaitersWoken
  BY TableAssumption DEF IInv, WaitInv, Asleep, WaitersWoken
<1> QED
  BY <1>1, Invariance, PTL

\* No wakeup() is lost between sys_sleep() and the clock interrupt.
THEOREM NoOversleeping == Spec => []SleepersWoken
<1>1. ASSUME IInv, tickslock = None, NEW p \in Proc, state[p] = "SLEEPING", chan[p] = Ticks
      PROVE  loc[p].left > 0
  <2>1. clk = 0
    BY <1>1, TableAssumption DEF IInv, Core, LockInv
  <2>2. loc[p].left # 0
    BY <1>1, <2>1 DEF IInv, ClockInv
  <2> QED
    BY <1>1, <2>2, LocFields DEF IInv, Core
<1>2. IInv => SleepersWoken
  BY <1>1 DEF SleepersWoken
<1> QED
  BY <1>2, Invariance, PTL

=============================================================================
