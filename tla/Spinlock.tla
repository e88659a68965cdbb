-------------------------------- MODULE Spinlock --------------------------------
(***************************************************************************)
(* Spinlocks and interrupts on several harts (spinlock.c): acquire() and    *)
(* release() one memory access after the other, push_off() and pop_off(),   *)
(* and what swtch() does to the hart's noff and intena, which belong to     *)
(* the kernel thread that runs.                                             *)
(*                                                                         *)
(* A kernel thread is a process or the scheduler of a hart.  What it does   *)
(* is a script of operations on locks, translated from the callers; an      *)
(* interrupt puts the script of its handler in front.  ProcTable has the    *)
(* same callers in detail, with a lock as one step.                         *)
(***************************************************************************)
EXTENDS Integers, Sequences, FiniteSets

CONSTANTS Process, Cpu,
          Cpu0,        \* the hart that runs clockintr()
          Shared,      \* a lock that is taken first and held around p->lock: tickslock
          None

SpinlockAssumption ==
  /\ Cpu0 \in Cpu /\ Process \cap Cpu = {}
  /\ Shared \notin Process /\ None \notin Process \cup Cpu \cup {Shared} \cup BOOLEAN

ASSUME SpinlockConstants == SpinlockAssumption

VARIABLES locked, owner,          \* per lock: lk->locked, lk->cpu
          intr,                   \* per hart: SSTATUS_SIE
          noff, intena,           \* per hart
          running,                \* the thread on a hart: a process, or the hart's scheduler
          script,                 \* per thread: what it has still to do
          saved                   \* per process: the local intena of its sched(), or None

locks == <<locked, owner>>
harts == <<intr, noff, intena>>
spinVars == <<locks, harts, running, script, saved>>

\* p->lock is named p.
Lock == Process \cup {Shared}
Thread == Process \cup Cpu

Acq(l) == <<"acquire", l>>
Rel(l) == <<"release", l>>

(* The scripts                                                             *)
Forkret(p) == <<Rel(p), <<"sret", "user">>>>
SysUptime == <<Acq(Shared), Rel(Shared)>>
SleepOn(p) == <<Acq(Shared), Acq(p), Rel(Shared), <<"sched", p>>, Rel(p), Acq(Shared), Rel(Shared)>>
KillOf(q) == <<Acq(q), Rel(q)>>
ExitOf(p) == <<Acq(Shared), Acq(p), Rel(Shared), <<"exit", p>>>> \o Forkret(p)
Yield(p) == <<Acq(p), <<"sched", p>>, Rel(p)>>
\* The wakeup() of clockintr() looks at one process q after the other: at one here.
Clockintr(q) == <<Acq(Shared), Acq(q), Rel(q), Rel(Shared)>>
Devintr(c, q) == IF c = Cpu0 THEN Clockintr(q) ELSE <<>>
Timer(c, t, q) ==
  Devintr(c, q) \o (IF t \in Process THEN Yield(t) ELSE <<>>) \o <<<<"sret", "kernel">>>>
Visit(p) == <<Acq(p), <<"swtch", p>>, Rel(p)>>

\* Every hart is in its scheduler, interrupts off since boot; every process is new.
SpinInit ==
  /\ locked = [l \in Lock |-> FALSE] /\ owner = [l \in Lock |-> None]
  /\ intr = [c \in Cpu |-> FALSE] /\ noff = [c \in Cpu |-> 0] /\ intena = [c \in Cpu |-> FALSE]
  /\ running = [c \in Cpu |-> c]
  /\ script = [t \in Thread |-> IF t \in Process THEN Forkret(t) ELSE <<>>]
  /\ saved = [p \in Process |-> None]

\* The thread on hart c is about to do op to l.
At(c, op, l) ==
  LET todo == script[running[c]] IN todo # <<>> /\ Head(todo) = <<op, l>>
Becomes(c, ops) == script' = [script EXCEPT ![running[c]] = ops \o Tail(@)]

Holding(c, l) == locked[l] /\ owner[l] = c

-----------------------------------------------------------------------------
(* acquire() and release()                                                 *)

PushOff(c, l) ==
  /\ At(c, "acquire", l)
  /\ ~Holding(c, l)
  /\ intr' = [intr EXCEPT ![c] = FALSE]
  /\ intena' = IF noff[c] = 0 THEN [intena EXCEPT ![c] = intr[c]] ELSE intena
  /\ noff' = [noff EXCEPT ![c] = @ + 1]
  /\ Becomes(c, <<<<"spin", l>>>>)
  /\ UNCHANGED <<locks, running, saved>>

TestAndSet(c, l) ==
  /\ At(c, "spin", l)
  /\ ~locked[l]
  /\ locked' = [locked EXCEPT ![l] = TRUE]
  /\ Becomes(c, <<<<"own", l>>>>)
  /\ UNCHANGED <<owner, harts, running, saved>>

Own(c, l) ==
  /\ At(c, "own", l)
  /\ owner' = [owner EXCEPT ![l] = c]
  /\ Becomes(c, <<>>)
  /\ UNCHANGED <<locked, harts, running, saved>>

Disown(c, l) ==
  /\ At(c, "release", l)
  /\ Holding(c, l)
  /\ owner' = [owner EXCEPT ![l] = None]
  /\ Becomes(c, <<<<"unlock", l>>>>)
  /\ UNCHANGED <<locked, harts, running, saved>>

\* The lock is free, and then pop_off().
Unlock(c, l) ==
  /\ At(c, "unlock", l)
  /\ ~intr[c] /\ noff[c] > 0
  /\ locked' = [locked EXCEPT ![l] = FALSE]
  /\ noff' = [noff EXCEPT ![c] = @ - 1]
  /\ intr' = IF noff[c] = 1 /\ intena[c] THEN [intr EXCEPT ![c] = TRUE] ELSE intr
  /\ Becomes(c, <<>>)
  /\ UNCHANGED <<owner, intena, running, saved>>

-----------------------------------------------------------------------------
(* Switching between threads                                               *)

\* Mutant: sched() does not keep intena across swtch().
SchedForgets(c, p) ==
  /\ running[c] = p /\ At(c, "sched", p)
  /\ saved' = [saved EXCEPT ![p] = None]
  /\ running' = [running EXCEPT ![c] = c]
  /\ Becomes(c, <<>>)
  /\ UNCHANGED <<locks, harts>>

Sched(c, p) ==
  /\ running[c] = p /\ At(c, "sched", p)
  /\ saved' = [saved EXCEPT ![p] = intena[c]]
  /\ running' = [running EXCEPT ![c] = c]
  /\ Becomes(c, <<>>)
  /\ UNCHANGED <<locks, harts>>

\* The sched() of exit() does not return: the entry is freed and begins anew.
Exit(c, p) ==
  /\ running[c] = p /\ At(c, "exit", p)
  /\ saved' = [saved EXCEPT ![p] = None]
  /\ running' = [running EXCEPT ![c] = c]
  /\ Becomes(c, <<>>)
  /\ UNCHANGED <<locks, harts>>

\* scheduler() has p->lock, and switches to p if it is RUNNABLE: at least it does
\* not run.  The end of sched() restores intena; a new process has none to restore.
Swtch(c, p) ==
  /\ At(c, "swtch", p)
  /\ Becomes(c, <<>>)
  /\ \/ /\ p \notin {running[d] : d \in Cpu}
        /\ running' = [running EXCEPT ![c] = p]
        /\ intena' = IF saved[p] # None THEN [intena EXCEPT ![c] = saved[p]] ELSE intena
        /\ saved' = [saved EXCEPT ![p] = FALSE]
     \/ UNCHANGED <<running, intena, saved>>
  /\ UNCHANGED <<locks, intr, noff>>

\* The outer loop turns interrupts on; the inner loop visits one entry after another.
Loop(c) ==
  /\ running[c] = c /\ script[c] = <<>>
  /\ \E p \in Process : script' = [script EXCEPT ![c] = Visit(p)]
  /\ intr' \in {intr, [intr EXCEPT ![c] = TRUE]}
  /\ UNCHANGED <<locks, noff, intena, running, saved>>

-----------------------------------------------------------------------------
(* System calls and interrupts                                             *)

\* usertrap() has turned interrupts on.
Syscall(c, p) ==
  /\ running[c] = p /\ script[p] = <<>>
  /\ \E ops \in {SysUptime, SleepOn(p), ExitOf(p)} \cup {KillOf(q) : q \in Process} :
       script' = [script EXCEPT ![p] = ops]
  /\ UNCHANGED <<locks, harts, running, saved>>

\* The timer interrupts the thread of hart c, in user or in kernel mode.
Interrupt(c) ==
  /\ intr[c]
  /\ intr' = [intr EXCEPT ![c] = FALSE]
  /\ \E q \in Process \ {running[c]} :
       script' = [script EXCEPT ![running[c]] = Timer(c, running[c], q) \o @]
  /\ UNCHANGED <<locks, noff, intena, running, saved>>

\* Back to what was interrupted, or for the first time to user mode.
Sret(c, mode) ==
  /\ At(c, "sret", mode)
  /\ intr' = [intr EXCEPT ![c] = TRUE]
  /\ Becomes(c, <<>>)
  /\ UNCHANGED <<locks, noff, intena, running, saved>>

SpinNext ==
  \E c \in Cpu :
    \/ \E l \in Lock :
         PushOff(c, l) \/ TestAndSet(c, l) \/ Own(c, l) \/ Disown(c, l) \/ Unlock(c, l)
    \/ \E p \in Process : Sched(c, p) \/ Exit(c, p) \/ Swtch(c, p) \/ Syscall(c, p)
    \/ Loop(c) \/ Interrupt(c)
    \/ \E mode \in {"user", "kernel"} : Sret(c, mode)

SpinSpec == SpinInit /\ [][SpinNext]_spinVars

-----------------------------------------------------------------------------

\* The locks a hart has, and those it is half way to or from.
Op(c) == IF script[running[c]] = <<>> THEN "none" ELSE Head(script[running[c]])[1]
Has(c) == Cardinality({l \in Lock : owner[l] = c}) + (IF Op(c) \in {"spin", "own", "unlock"} THEN 1 ELSE 0)
InHandler(t) == <<"sret", "kernel">> \in {script[t][k] : k \in DOMAIN script[t]}

\* Interrupts and locks fit together on every hart, whichever thread it runs and
\* wherever that thread took its locks: noff counts the locks, a hart with a lock is
\* not interrupted (its handler might wait for that lock), a handler is not
\* interrupted either, and a process outside a handler has interrupts on when it
\* has no lock.  No panic() of spinlock.c or sched() is reached.
LocksNest ==
  \A c \in Cpu :
    /\ noff[c] = Has(c)
    /\ noff[c] > 0 \/ InHandler(running[c]) => ~intr[c]
    /\ running[c] \in Process /\ noff[c] = 0 /\ Op(c) # "sret" /\ ~InHandler(running[c]) => intr[c]
    /\ \A l \in Lock : /\ At(c, "acquire", l) => ~Holding(c, l)
                       /\ At(c, "release", l) => Holding(c, l)
    /\ Op(c) \in {"sched", "exit"} => noff[c] = 1 /\ Holding(c, running[c])

=============================================================================
