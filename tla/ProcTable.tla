------------------------------- MODULE ProcTable -------------------------------
(***************************************************************************)
(* The life of a process in XV6-2: the process table of kernel/proc.c with  *)
(* fork(), exit(), wait(), kill(), sleep(), wakeup(), yield() and the       *)
(* round-robin scheduler(), and the clock of kernel/trap.c with sys_sleep() *)
(* of kernel/sysproc.c.                                                     *)
(*                                                                         *)
(* A step begins where a thread acquires a lock and ends before it acquires *)
(* the next one, so it also does what the thread does after releasing the   *)
(* lock.  A lock that stays held over several steps is in lock, wait_lock   *)
(* or tickslock: by fork() on the child, by wait() on the table, by a       *)
(* process on its way through sched() until it is off its CPU.  An acquire  *)
(* of a lock that is held waits: the step is disabled.                      *)
(***************************************************************************)
EXTENDS Integers, FiniteSets

CONSTANTS
  NPROC,      \* entries of the process table
  Cpu,        \* the harts
  Cpu0,       \* the hart that takes the clock interrupt
  Sleeps,     \* per process: the ticks n that its program may sleep(n) for
  Clock,      \* clockintr() as a holder of tickslock
  Ticks,      \* the channel &ticks
  None

Proc == 1 .. NPROC
InitProc == 1

ASSUME TableAssumption ==
  /\ NPROC \in Nat \ {0} /\ Sleeps \in [Proc -> SUBSET Nat]
  /\ IsFiniteSet(Cpu) /\ Cpu0 \in Cpu
  /\ {Clock, Ticks, None} \cap Proc = {} /\ None \notin {Clock, Ticks} \cup Cpu

VARIABLES
  state,      \* p->state
  chan,       \* p->chan
  killed,     \* processes with p->killed
  parent,     \* p->parent
  lock,       \* the thread that holds p->lock from one step to the next
  wait_lock,  \* the thread that holds wait_lock
  tickslock,  \* the thread that holds tickslock, or Clock
  cpu,        \* c->proc: the process a CPU has switched to
  insched,    \* processes in sched(): off duty, but still on their stacks
  pc,         \* where p's thread is, or will go on when it runs again
  loc,        \* its locals
  clk         \* where clockintr() is in wakeup(&ticks), 0 if not running

table == <<state, chan, killed, parent>>
locks == <<lock, wait_lock, tickslock>>
vars == <<table, locks, cpu, insched, pc, loc, clk>>

State == {"UNUSED", "USED", "SLEEPING", "RUNNABLE", "RUNNING", "ZOMBIE"}
PcLabel == { "none", "user", "fork_copy", "fork_parent", "fork_runnable",
             "exit", "reparent", "exit_zombie", "zombie",
             "wait", "wait_scan", "wait_sleep",
             "ticks", "ticks_check", "ticks_sleep" }

\* i: the entry a table scan has reached; havekids: of wait(); np: of fork();
\* w: the entry wakeup(ch) has reached, 0 outside; left: the ticks that
\* sys_sleep() has still to wait for, n - (ticks - ticks0).
Locals == [i : 1 .. NPROC + 1, havekids : BOOLEAN, np : Proc \cup {None},
           w : 0 .. NPROC, ch : Proc \cup {None}, left : Nat]
NoLocals == [i |-> 1, havekids |-> FALSE, np |-> None, w |-> 0, ch |-> None, left |-> 0]

-----------------------------------------------------------------------------
Goto(p, l) == pc' = [pc EXCEPT ![p] = l]
Return(p) == Goto(p, "user") /\ loc' = [loc EXCEPT ![p] = NoLocals]

\* The clock interrupt runs on Cpu0 in place of whatever ran there.
Interrupted(c) == c = Cpu0 /\ clk # 0

\* p's thread executes, outside sched() and outside wakeup().
On(p) == /\ \E c \in Cpu : cpu[c] = p /\ ~Interrupted(c)
         /\ p \notin insched
At(p, l) == On(p) /\ pc[p] = l /\ loc[p].w = 0

\* p is in user mode and has not been killed: usertrap() sends a killed process
\* to exit() at the next trap, before and after every system call.
InUser(p) == At(p, "user") /\ p \notin killed

Free(q) == lock[q] = None
Holds(p) == {q \in Proc : lock[q] = p}

\* A process with p->lock released runs with interrupts on only if it holds no
\* other lock either (push_off, pop_off).
IntrOn(p) == Holds(p) = {} /\ wait_lock # p /\ tickslock # p

-----------------------------------------------------------------------------
(* scheduler(), sched(), yield(), sleep()                                  *)

\* Mutant: a scheduler that does not take p->lock.
RunUnlocked(c, p) ==
  /\ cpu[c] = None /\ ~Interrupted(c)
  /\ state[p] = "RUNNABLE"
  /\ state' = [state EXCEPT ![p] = "RUNNING"]
  /\ chan' = [chan EXCEPT ![p] = None]
  /\ cpu' = [cpu EXCEPT ![c] = p]
  /\ UNCHANGED <<killed, parent, locks, insched, pc, loc, clk>>

\* scheduler() on CPU c switches to p, which releases p->lock where it comes
\* out of sched(), or in forkret(); sleep() also clears p->chan there.
Run(c, p) ==
  /\ cpu[c] = None /\ ~Interrupted(c)
  /\ state[p] = "RUNNABLE" /\ Free(p)
  /\ state' = [state EXCEPT ![p] = "RUNNING"]
  /\ chan' = [chan EXCEPT ![p] = None]
  /\ cpu' = [cpu EXCEPT ![c] = p]
  /\ UNCHANGED <<killed, parent, locks, insched, pc, loc, clk>>

\* The swtch() of sched() back to the scheduler, which releases p->lock.
Swtch(c) ==
  LET p == cpu[c]
  IN  /\ p \in insched
      /\ cpu' = [cpu EXCEPT ![c] = None]
      /\ lock' = [lock EXCEPT ![p] = None]
      /\ insched' = insched \ {p}
      /\ UNCHANGED <<table, wait_lock, tickslock, pc, loc, clk>>

\* acquire() turns interrupts off before it waits for a lock.
Spins(p) ==
  \/ pc[p] \in {"fork_parent", "exit", "wait"} /\ wait_lock # None
  \/ pc[p] = "ticks" /\ tickslock # None
  \/ pc[p] = "fork_runnable" /\ ~Free(loc[p].np)

\* A timer interrupt: yield() up to swtch().
Yield(p) ==
  /\ On(p) /\ IntrOn(p) /\ ~Spins(p) /\ Free(p)
  /\ lock' = [lock EXCEPT ![p] = p]
  /\ state' = [state EXCEPT ![p] = "RUNNABLE"]
  /\ insched' = insched \cup {p}
  /\ UNCHANGED <<chan, killed, parent, wait_lock, tickslock, cpu, pc, loc, clk>>

\* sleep(ch, lk) up to swtch(): acquire p->lock, release lk.
Sleep(p, ch) ==
  /\ Free(p)
  /\ lock' = [lock EXCEPT ![p] = p]
  /\ state' = [state EXCEPT ![p] = "SLEEPING"]
  /\ chan' = [chan EXCEPT ![p] = ch]
  /\ insched' = insched \cup {p}
  /\ UNCHANGED <<killed, parent, cpu>>

\* One turn of the loop of wakeup(ch), on entry q.
Wake(q, ch) ==
  /\ Free(q)
  /\ state' = IF state[q] = "SLEEPING" /\ chan[q] = ch
              THEN [state EXCEPT ![q] = "RUNNABLE"] ELSE state
  /\ UNCHANGED <<chan, killed, parent>>

\* The index after q, 0 after the last one.
After(q) == IF q = NPROC THEN 0 ELSE q + 1

\* wakeup() called by p, which skips p itself.
Wakeup(p) ==
  LET q == loc[p].w
  IN  /\ On(p) /\ q # 0
      /\ IF q = p THEN UNCHANGED table ELSE Wake(q, loc[p].ch)
      /\ loc' = [loc EXCEPT ![p].w = After(q)]
      /\ UNCHANGED <<locks, cpu, insched, pc, clk>>

-----------------------------------------------------------------------------
(* fork()                                                                  *)

\* allocproc(): the entry c stays locked.
Allocproc(p, c) ==
  /\ InUser(p)
  /\ state[c] = "UNUSED" /\ Free(c)
  /\ state' = [state EXCEPT ![c] = "USED"]
  /\ lock' = [lock EXCEPT ![c] = p]
  /\ loc' = [loc EXCEPT ![p].np = c]
  /\ Goto(p, "fork_copy")
  /\ UNCHANGED <<chan, killed, parent, wait_lock, tickslock, cpu, insched, clk>>

\* freeproc(): q becomes UNUSED.
Freeproc(q) ==
  /\ state' = [state EXCEPT ![q] = "UNUSED"]
  /\ chan' = [chan EXCEPT ![q] = None]
  /\ killed' = killed \ {q}
  /\ parent' = [parent EXCEPT ![q] = None]

\* kalloc() failed in allocproc() or in uvmcopy().
ForkFail(p) ==
  LET c == loc[p].np
  IN  /\ At(p, "fork_copy")
      /\ Freeproc(c)
      /\ lock' = [lock EXCEPT ![c] = None]
      /\ Return(p)
      /\ UNCHANGED <<wait_lock, tickslock, cpu, insched, clk>>

\* release(&np->lock): until fork() returns nobody is np's parent.
ForkCopied(p) ==
  /\ At(p, "fork_copy")
  /\ lock' = [lock EXCEPT ![loc[p].np] = None]
  /\ Goto(p, "fork_parent")
  /\ UNCHANGED <<table, wait_lock, tickslock, cpu, insched, loc, clk>>

ForkParent(p) ==
  /\ At(p, "fork_parent")
  /\ wait_lock = None
  /\ parent' = [parent EXCEPT ![loc[p].np] = p]
  /\ Goto(p, "fork_runnable")
  /\ UNCHANGED <<state, chan, killed, locks, cpu, insched, loc, clk>>

\* The child starts in forkret() when it is scheduled.
ForkRunnable(p) ==
  LET c == loc[p].np
  IN  /\ At(p, "fork_runnable")
      /\ Free(c)
      /\ state' = [state EXCEPT ![c] = "RUNNABLE"]
      /\ pc' = [pc EXCEPT ![p] = "user", ![c] = "user"]
      /\ loc' = [loc EXCEPT ![p] = NoLocals]
      /\ UNCHANGED <<chan, killed, parent, locks, cpu, insched, clk>>

-----------------------------------------------------------------------------
(* exit()                                                                  *)

\* exit(), by the program or because p was killed.  initproc does not exit.
Exit(p) ==
  /\ At(p, "user") /\ p # InitProc
  /\ Goto(p, "exit")
  /\ UNCHANGED <<table, locks, cpu, insched, loc, clk>>

\* Mutant: exit() does not take wait_lock.
ExitUnlocked(p) ==
  /\ At(p, "exit")
  /\ Goto(p, "reparent")
  /\ UNCHANGED <<table, locks, cpu, insched, loc, clk>>

\* The files are closed: acquire(&wait_lock).
ExitLock(p) ==
  /\ At(p, "exit")
  /\ wait_lock = None
  /\ wait_lock' = p
  /\ Goto(p, "reparent")
  /\ UNCHANGED <<table, lock, tickslock, cpu, insched, loc, clk>>

\* Mutant: a child that is already dead is not handed over.
ReparentLiving(p) ==
  LET q == loc[p].i
  IN  /\ At(p, "reparent") /\ q \in Proc
      /\ IF parent[q] = p /\ state[q] # "ZOMBIE"
         THEN /\ parent' = [parent EXCEPT ![q] = InitProc]
              /\ loc' = [loc EXCEPT ![p].i = q + 1, ![p].w = 1, ![p].ch = InitProc]
         ELSE /\ loc' = [loc EXCEPT ![p].i = q + 1]
              /\ UNCHANGED parent
      /\ UNCHANGED <<state, chan, killed, locks, cpu, insched, pc, clk>>

\* One turn of reparent(): a child goes to initproc, which is woken up.
Reparent(p) ==
  LET q == loc[p].i
  IN  /\ At(p, "reparent") /\ q \in Proc
      /\ IF parent[q] = p
         THEN /\ parent' = [parent EXCEPT ![q] = InitProc]
              /\ loc' = [loc EXCEPT ![p].i = q + 1, ![p].w = 1, ![p].ch = InitProc]
         ELSE /\ loc' = [loc EXCEPT ![p].i = q + 1]
              /\ UNCHANGED parent
      /\ UNCHANGED <<state, chan, killed, locks, cpu, insched, pc, clk>>

\* Mutant: the parent is not woken up.
ExitSilent(p) ==
  /\ At(p, "reparent") /\ loc[p].i \notin Proc
  /\ Goto(p, "exit_zombie")
  /\ UNCHANGED <<table, locks, cpu, insched, loc, clk>>

\* wakeup(p->parent).
ExitWakeup(p) ==
  /\ At(p, "reparent") /\ loc[p].i \notin Proc
  /\ loc' = [loc EXCEPT ![p].w = 1, ![p].ch = parent[p], ![p].i = 1]
  /\ Goto(p, "exit_zombie")
  /\ UNCHANGED <<table, locks, cpu, insched, clk>>

\* p->lock is taken before wait_lock is released and kept through sched().
ExitZombie(p) ==
  /\ At(p, "exit_zombie")
  /\ Free(p)
  /\ lock' = [lock EXCEPT ![p] = p]
  /\ state' = [state EXCEPT ![p] = "ZOMBIE"]
  /\ wait_lock' = None
  /\ insched' = insched \cup {p}
  /\ Goto(p, "zombie")
  /\ loc' = [loc EXCEPT ![p] = NoLocals]
  /\ UNCHANGED <<chan, killed, parent, tickslock, cpu, clk>>

-----------------------------------------------------------------------------
(* wait()                                                                  *)

Wait(p) ==
  /\ InUser(p)
  /\ Goto(p, "wait")
  /\ UNCHANGED <<table, locks, cpu, insched, loc, clk>>

\* acquire(&wait_lock), also where sleep() reacquires it: the scan starts over.
WaitLock(p) ==
  /\ At(p, "wait")
  /\ wait_lock = None
  /\ wait_lock' = p
  /\ loc' = [loc EXCEPT ![p].i = 1, ![p].havekids = FALSE]
  /\ Goto(p, "wait_scan")
  /\ UNCHANGED <<table, lock, tickslock, cpu, insched, clk>>

\* One turn of the scan past an entry that is not a zombie child of p.
WaitNext(p) ==
  LET q == loc[p].i
  IN  /\ At(p, "wait_scan") /\ q \in Proc
      /\ parent[q] = p => Free(q) /\ state[q] # "ZOMBIE"
      /\ loc' = [loc EXCEPT ![p].i = q + 1, ![p].havekids = @ \/ parent[q] = p]
      /\ UNCHANGED <<table, locks, cpu, insched, pc, clk>>

\* A zombie child: freeproc().
Reap(p) ==
  LET q == loc[p].i
  IN  /\ At(p, "wait_scan") /\ q \in Proc
      /\ parent[q] = p /\ Free(q) /\ state[q] = "ZOMBIE"
      /\ Freeproc(q)
      /\ wait_lock' = None
      /\ pc' = [pc EXCEPT ![p] = "user", ![q] = "none"]
      /\ loc' = [loc EXCEPT ![p] = NoLocals]
      /\ UNCHANGED <<lock, tickslock, cpu, insched, clk>>

\* The copyout() of its status failed: the child stays.  initproc calls wait(0).
ReapFail(p) ==
  LET q == loc[p].i
  IN  /\ At(p, "wait_scan") /\ q \in Proc /\ p # InitProc
      /\ parent[q] = p /\ Free(q) /\ state[q] = "ZOMBIE"
      /\ wait_lock' = None
      /\ Return(p)
      /\ UNCHANGED <<table, lock, tickslock, cpu, insched, clk>>

\* Mutant: wait() goes back to sleep although p was killed.
NoKids(p) == ~loc[p].havekids

\* The table is scanned.  No children, or p was killed: ...
GivesUp(p) == ~loc[p].havekids \/ p \in killed

\* ... wait() returns -1.
WaitNone(p) ==
  /\ At(p, "wait_scan") /\ loc[p].i \notin Proc
  /\ loc[p].havekids => Free(p)
  /\ GivesUp(p)
  /\ wait_lock' = None
  /\ Return(p)
  /\ UNCHANGED <<table, lock, tickslock, cpu, insched, clk>>

\* killed(p) has returned 0.  A kill() that comes now finds p not yet asleep.
WaitCheck(p) ==
  /\ At(p, "wait_scan") /\ loc[p].i \notin Proc
  /\ ~GivesUp(p) /\ Free(p)
  /\ Goto(p, "wait_sleep")
  /\ UNCHANGED <<table, locks, cpu, insched, loc, clk>>

\* Mutant: sleep() keeps lk.
WaitSleepHolding(p) ==
  /\ At(p, "wait_sleep")
  /\ Sleep(p, p)
  /\ Goto(p, "wait")
  /\ UNCHANGED <<wait_lock, tickslock, loc, clk>>

\* sleep(p, &wait_lock).
WaitSleep(p) ==
  /\ At(p, "wait_sleep")
  /\ Sleep(p, p)
  /\ wait_lock' = None
  /\ Goto(p, "wait")
  /\ UNCHANGED <<tickslock, loc, clk>>

-----------------------------------------------------------------------------
(* kill()                                                                  *)

\* kill(pid) on the entry c that has the pid.  Nobody kills initproc: its exit
\* stops the machine.
Kill(p, c) ==
  /\ InUser(p)
  /\ state[c] # "UNUSED" /\ Free(c) /\ c # InitProc
  /\ killed' = killed \cup {c}
  /\ state' = IF state[c] = "SLEEPING" THEN [state EXCEPT ![c] = "RUNNABLE"] ELSE state
  /\ UNCHANGED <<chan, parent, locks, cpu, insched, pc, loc, clk>>

\* kill(0), which is also what `kill' does with a word that is no number: the
\* entries that have pid 0 are the unused ones.
KillZero(p, c) ==
  /\ InUser(p)
  /\ state[c] = "UNUSED" /\ Free(c)
  /\ killed' = killed \cup {c}
  /\ UNCHANGED <<state, chan, parent, locks, cpu, insched, pc, loc, clk>>

-----------------------------------------------------------------------------
(* sys_sleep() and clockintr()                                             *)

SysSleep(p, n) ==
  /\ InUser(p)
  /\ tickslock = None
  /\ tickslock' = p
  /\ loc' = [loc EXCEPT ![p].left = n]
  /\ Goto(p, "ticks_check")
  /\ UNCHANGED <<table, lock, wait_lock, cpu, insched, clk>>

\* The time is up, or p was killed.
TicksDone(p) ==
  /\ At(p, "ticks_check")
  /\ loc[p].left = 0 \/ (Free(p) /\ p \in killed)
  /\ tickslock' = None
  /\ Return(p)
  /\ UNCHANGED <<table, lock, wait_lock, cpu, insched, clk>>

TicksCheck(p) ==
  /\ At(p, "ticks_check")
  /\ loc[p].left > 0 /\ Free(p) /\ p \notin killed
  /\ Goto(p, "ticks_sleep")
  /\ UNCHANGED <<table, locks, cpu, insched, loc, clk>>

\* sleep(&ticks, &tickslock).
TicksSleep(p) ==
  /\ At(p, "ticks_sleep")
  /\ Sleep(p, Ticks)
  /\ tickslock' = None
  /\ Goto(p, "ticks")
  /\ UNCHANGED <<wait_lock, loc, clk>>

\* sleep() reacquires tickslock.
TicksLock(p) ==
  /\ At(p, "ticks")
  /\ tickslock = None
  /\ tickslock' = p
  /\ Goto(p, "ticks_check")
  /\ UNCHANGED <<table, lock, wait_lock, cpu, insched, loc, clk>>

\* ticks++.
ClockIntr ==
  /\ clk = 0 /\ tickslock = None
  /\ cpu[Cpu0] # None => IntrOn(cpu[Cpu0]) /\ ~Spins(cpu[Cpu0])
  /\ tickslock' = Clock
  /\ clk' = 1
  /\ loc' = [p \in Proc |-> [loc[p] EXCEPT !.left = IF @ = 0 THEN 0 ELSE @ - 1]]
  /\ UNCHANGED <<table, lock, wait_lock, cpu, insched, pc>>

\* Mutant: the last entry of the table is not looked at.
ClockWakeupShort ==
  /\ clk # 0
  /\ IF clk \in {cpu[Cpu0], NPROC} THEN UNCHANGED table ELSE Wake(clk, Ticks)
  /\ clk' = After(clk)
  /\ tickslock' = IF After(clk) = 0 THEN None ELSE tickslock
  /\ UNCHANGED <<lock, wait_lock, cpu, insched, pc, loc>>

\* One turn of wakeup(&ticks); myproc() is what the interrupt came in.
ClockWakeup ==
  /\ clk # 0
  /\ IF clk = cpu[Cpu0] THEN UNCHANGED table ELSE Wake(clk, Ticks)
  /\ clk' = After(clk)
  /\ tickslock' = IF After(clk) = 0 THEN None ELSE tickslock
  /\ UNCHANGED <<lock, wait_lock, cpu, insched, pc, loc>>

-----------------------------------------------------------------------------
\* initproc is about to run its program.
Init ==
  /\ state = [p \in Proc |-> IF p = InitProc THEN "RUNNABLE" ELSE "UNUSED"]
  /\ chan = [p \in Proc |-> None]
  /\ killed = {}
  /\ parent = [p \in Proc |-> None]
  /\ lock = [p \in Proc |-> None]
  /\ wait_lock = None
  /\ tickslock = None
  /\ cpu = [c \in Cpu |-> None]
  /\ insched = {}
  /\ pc = [p \in Proc |-> IF p = InitProc THEN "user" ELSE "none"]
  /\ loc = [p \in Proc |-> NoLocals]
  /\ clk = 0

\* What the program of p may ask for.
Program(p) ==
  \/ \E c \in Proc : Allocproc(p, c) \/ Kill(p, c) \/ KillZero(p, c)
  \/ Exit(p) \/ Wait(p)
  \/ \E n \in Sleeps[p] : SysSleep(p, n)

\* What the kernel does for p once it is asked.
Kernel(p) ==
  \/ Wakeup(p)
  \/ ForkFail(p) \/ ForkCopied(p) \/ ForkParent(p) \/ ForkRunnable(p)
  \/ ExitLock(p) \/ Reparent(p) \/ ExitWakeup(p) \/ ExitZombie(p)
  \/ WaitLock(p) \/ WaitNext(p) \/ Reap(p) \/ ReapFail(p)
  \/ WaitNone(p) \/ WaitCheck(p) \/ WaitSleep(p)
  \/ TicksDone(p) \/ TicksCheck(p) \/ TicksSleep(p) \/ TicksLock(p)

Next ==
  \/ \E p \in Proc : Program(p) \/ Kernel(p) \/ Yield(p)
  \/ \E c \in Cpu : Swtch(c) \/ \E p \in Proc : Run(c, p)
  \/ ClockIntr \/ ClockWakeup

Spec == Init /\ [][Next]_vars

\* A thread in the kernel goes on, and a killed process in user mode to exit().
Thread(p) == Kernel(p) \/ (p \in killed /\ Exit(p))

\* scheduler() goes round the table, so a runnable process is not passed over
\* for ever; every CPU has its timer interrupts; a thread is not always
\* interrupted before its next instruction, nor does it always lose the race
\* for a lock.
Fairness ==
  /\ \A p \in Proc : /\ SF_vars(\E c \in Cpu : Run(c, p))
                      /\ SF_vars(Thread(p))
  /\ \A c \in Cpu : /\ SF_vars(\E p \in Proc : cpu[c] = p /\ Yield(p))
                     /\ WF_vars(Swtch(c))
  /\ SF_vars(ClockIntr) /\ SF_vars(ClockWakeup)

FairSpec == Spec /\ Fairness

-----------------------------------------------------------------------------
(* Properties                                                              *)

\* Every variable has its type.
TypeOK ==
  /\ state \in [Proc -> State]
  /\ chan \in [Proc -> Proc \cup {Ticks, None}]
  /\ killed \in SUBSET Proc
  /\ parent \in [Proc -> Proc \cup {None}]
  /\ lock \in [Proc -> Proc \cup {None}]
  /\ wait_lock \in Proc \cup {None}
  /\ tickslock \in Proc \cup {Clock, None}
  /\ cpu \in [Cpu -> Proc \cup {None}]
  /\ insched \in SUBSET Proc
  /\ pc \in [Proc -> PcLabel]
  /\ loc \in [Proc -> Locals]
  /\ clk \in 0 .. NPROC

\* A kernel stack is in use by one CPU at a time, by none once the process is
\* runnable, asleep or dead and its lock is free, and by none when freeproc()
\* gives the entry away (proc.c:420, "make sure the child isn't still in exit()
\* or swtch()").
OneStack ==
  \A p \in Proc :
    /\ \A c, d \in Cpu : cpu[c] = p /\ cpu[d] = p => c = d
    /\ state[p] = "RUNNING" <=> (p \notin insched /\ \E c \in Cpu : cpu[c] = p)
    /\ state[p] \in {"UNUSED", "USED"} \/ (lock[p] = None /\ state[p] # "RUNNING")
         => \A c \in Cpu : cpu[c] # p

\* wait() never sleeps through the death of a child, nor through the arrival of
\* a dead one that its parent leaves to initproc.
WaitersWoken ==
  wait_lock = None =>
    \A p, q \in Proc :
      ~(state[p] = "SLEEPING" /\ chan[p] = p /\ parent[q] = p /\ state[q] = "ZOMBIE")

\* sleep(n) never sleeps past its time.
SleepersWoken ==
  tickslock = None =>
    \A p \in Proc : state[p] = "SLEEPING" /\ chan[p] = Ticks => loc[p].left > 0

\* What wait() has seen of the table stays true until it returns or sleeps: no
\* entry it has passed becomes its child, or a zombie, behind its back.
ScanComplete ==
  \A p, q \in Proc :
    pc[p] \in {"wait_scan", "wait_sleep"} /\ wait_lock = p /\ q < loc[p].i /\ parent[q] = p
      => loc[p].havekids /\ state[q] # "ZOMBIE"

\* Every process but initproc has a parent that can still wait for it.
ParentAlive ==
  \A q \in Proc \ {InitProc} :
    state[q] \notin {"UNUSED", "USED"} =>
      /\ parent[q] # None
      /\ state[parent[q]] \notin {"UNUSED", "USED", "ZOMBIE"}

\* sched() is called with p->lock held and no other lock: the panics "sched
\* p->lock" and "sched locks" are out of reach.
SchedLocks ==
  \A p \in insched : Holds(p) = {p} /\ wait_lock # p /\ tickslock # p

\* kill() sets the flag of a process (proc.c:647, "Kill the process with the
\* given pid"), never that of an entry which a later fork() will use.
KilledInUse == \A p \in killed : state[p] # "UNUSED"

\* wait() returns when there is a dead child to return for, whenever it died and
\* whoever left it behind.
WaitReturns ==
  \A p \in Proc :
    pc[p] = "wait" /\ (\E q \in Proc : parent[q] = p /\ state[q] = "ZOMBIE")
      ~> pc[p] = "user"

\* A killed process exits, unless kill() came between its killed() and its
\* sleep() in wait().  Nobody kills initproc.
KilledExits ==
  \A p \in Proc \ {InitProc} :
    p \in killed /\ pc[p] # "wait_sleep" /\ ~(state[p] = "SLEEPING" /\ chan[p] = p)
      ~> state[p] \in {"ZOMBIE", "UNUSED"}

=============================================================================
