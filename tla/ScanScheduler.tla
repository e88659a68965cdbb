----------------------------- MODULE ScanScheduler -----------------------------
(***************************************************************************)
(* scheduler() in its two forms that scan the whole table, one lock at a    *)
(* time, for the process with the least key and lock that process again:    *)
(* FCFS_SCHED of XV6-1 (the key is ctime) and PBS_SCHED of XV6-2 (the key   *)
(* is the dynamic priority).  rtime, stime and wtime stay 0 in XV6-2, for   *)
(* no code calls update_time(), so that the recent behaviour index is 0 and *)
(* the dynamic priority is p->priority.  Left out is the store p->rtime = 0  *)
(* of PBS, where p is one past the table: it hits no entry.                 *)
(*                                                                         *)
(* Yield, Sleep, Exit, Fork and Wakeup are the steps by which other code    *)
(* changes what the scan reads, each under p->lock; ProcTable has them in   *)
(* detail.  exit() and the wait() of the parent are one step here: the scan *)
(* skips USED, ZOMBIE and UNUSED entries alike.                             *)
(***************************************************************************)
EXTENDS Integers

CONSTANTS NPROC,      \* entries of the table
          Cpu,        \* harts
          Policies,   \* the kernels looked at: a subset of {"FCFS", "PBS"}
          Priority,   \* priorities set_priority() is asked for
          MaxTicks,   \* bound: ticks stops here
          None

ScanAssumption ==
  /\ NPROC \in Nat \ {0} /\ MaxTicks \in Nat
  /\ Policies \subseteq {"FCFS", "PBS"} /\ Priority \subseteq 0 .. 99
  /\ None \notin 0 .. NPROC - 1

ASSUME ScanConstants == ScanAssumption

VARIABLES policy,     \* SCHEDULER of the Makefile
          ticks,
          pstate,     \* proc[p].state
          key,        \* proc[p].ctime, proc[p].priority
          cpu,        \* per hart: p of the loop, the best so far, c->proc
          min_dp,     \* per hart: PBS keeps the least priority it has read
          seen        \* per hart: found RUNNABLE by this scan and so ever since

scanVars == <<policy, ticks, pstate, key, cpu, min_dp, seen>>

Entries == 0 .. NPROC - 1
IdleCpu == [p |-> 0, best |-> None, proc |-> None]

\* allocproc() leaves p->ctime = ticks and p->priority = 50.
NewKey == IF policy = "FCFS" THEN ticks ELSE 50

\* userinit() has made the first process.
ScanInit ==
  /\ policy \in Policies
  /\ ticks = 0
  /\ pstate = [p \in Entries |-> IF p = 0 THEN "RUNNABLE" ELSE "UNUSED"]
  /\ key = [p \in Entries |-> IF p = 0 THEN NewKey ELSE 0]
  /\ cpu = [c \in Cpu |-> IdleCpu]
  /\ min_dp = [c \in Cpu |-> 101]
  /\ seen = [c \in Cpu |-> {}]

Scanning(c) == cpu[c].proc = None /\ cpu[c].p < NPROC
Chosen(c) == cpu[c].proc = None /\ cpu[c].p = NPROC

\* FCFS reads the ctime of the best so far again, PBS the number it kept.
BestKey(c) == IF policy = "FCFS" THEN key[cpu[c].best] ELSE min_dp[c]
Worse(c, p) == cpu[c].best = None \/ key[p] > BestKey(c)   \* mutant: the greatest key
Better(c, p) == cpu[c].best = None \/ key[p] < BestKey(c)

\* The scan looks at one entry under its lock.
Visit(c) ==
  /\ Scanning(c)
  /\ LET p == cpu[c].p
         take == pstate[p] = "RUNNABLE" /\ Better(c, p)
         now == IF pstate[p] = "RUNNABLE" THEN seen[c] \cup {p} ELSE seen[c]
     IN /\ cpu' = [cpu EXCEPT ![c].p = p + 1, ![c].best = IF take THEN p ELSE @]
        /\ min_dp' = [min_dp EXCEPT ![c] = IF take /\ policy = "PBS" THEN key[p] ELSE @]
        /\ seen' = [seen EXCEPT ![c] = IF cpu'[c].best \in now THEN now ELSE {}]
  /\ UNCHANGED <<policy, ticks, pstate, key>>

\* A process stops being RUNNABLE, or has its key changed.
Forget(p) == seen' = [c \in Cpu |-> IF cpu[c].best = p THEN {} ELSE seen[c] \ {p}]

\* Mutant: the state is not looked at again.
DispatchUnchecked(c) ==
  /\ Chosen(c) /\ cpu[c].best # None
  /\ pstate' = [pstate EXCEPT ![cpu[c].best] = "RUNNING"]
  /\ cpu' = [cpu EXCEPT ![c].proc = cpu[c].best]
  /\ Forget(cpu[c].best)
  /\ UNCHANGED <<policy, ticks, key, min_dp>>

\* Under the lock of the best entry, if it is RUNNABLE still.
Dispatch(c) ==
  /\ Chosen(c) /\ cpu[c].best # None
  /\ pstate[cpu[c].best] = "RUNNABLE"
  /\ pstate' = [pstate EXCEPT ![cpu[c].best] = "RUNNING"]
  /\ cpu' = [cpu EXCEPT ![c].proc = cpu[c].best]
  /\ Forget(cpu[c].best)
  /\ UNCHANGED <<policy, ticks, key, min_dp>>

\* No RUNNABLE process was seen, or another hart has taken the best one.
Rescan(c) ==
  /\ Chosen(c)
  /\ ~(cpu[c].best # None /\ pstate[cpu[c].best] = "RUNNABLE")
  /\ cpu' = [cpu EXCEPT ![c] = IdleCpu]
  /\ min_dp' = [min_dp EXCEPT ![c] = 101]
  /\ seen' = [seen EXCEPT ![c] = {}]
  /\ UNCHANGED <<policy, ticks, pstate, key>>

\* The process of hart c gives the hart up in state s, and the loop starts again.
GiveUp(c, s) ==
  /\ cpu[c].proc # None
  /\ pstate' = [pstate EXCEPT ![cpu[c].proc] = s]
  /\ cpu' = [cpu EXCEPT ![c] = IdleCpu]
  /\ min_dp' = [min_dp EXCEPT ![c] = 101]
  /\ seen' = [seen EXCEPT ![c] = {}]
  /\ UNCHANGED <<policy, ticks, key>>

\* A timer interrupt makes a process of XV6-2 yield; yield() is empty under FCFS.
Yield(c) == policy = "PBS" /\ GiveUp(c, "RUNNABLE")
Sleep(c) == GiveUp(c, "SLEEPING")
Exit(c) == GiveUp(c, "UNUSED")

Fork(c, p) ==
  /\ cpu[c].proc # None
  /\ pstate[p] = "UNUSED"
  /\ pstate' = [pstate EXCEPT ![p] = "RUNNABLE"]
  /\ key' = [key EXCEPT ![p] = NewKey]
  /\ UNCHANGED <<policy, ticks, cpu, min_dp, seen>>

\* A device interrupt, or another process, wakes p up.
Wakeup(p) ==
  /\ pstate[p] = "SLEEPING"
  /\ pstate' = [pstate EXCEPT ![p] = "RUNNABLE"]
  /\ UNCHANGED <<policy, ticks, key, cpu, min_dp, seen>>

\* sys_setpriority(), by whatever process runs, of whatever process.
Setpriority(c, p, n) ==
  /\ policy = "PBS" /\ cpu[c].proc # None /\ pstate[p] # "UNUSED"
  /\ key' = [key EXCEPT ![p] = n]
  /\ Forget(p)
  /\ UNCHANGED <<policy, ticks, pstate, cpu, min_dp>>

Tick ==
  /\ policy = "FCFS" /\ ticks < MaxTicks
  /\ ticks' = ticks + 1
  /\ UNCHANGED <<policy, pstate, key, cpu, min_dp, seen>>

ScanNext ==
  \/ \E c \in Cpu : \/ Visit(c) \/ Dispatch(c) \/ Rescan(c)
                    \/ Yield(c) \/ Sleep(c) \/ Exit(c)
                    \/ \E p \in Entries : Fork(c, p) \/ \E n \in Priority : Setpriority(c, p, n)
  \/ \E p \in Entries : Wakeup(p)
  \/ Tick

ScanSpec == ScanInit /\ [][ScanNext]_scanVars

-----------------------------------------------------------------------------

\* The running processes are those some hart runs, each on one hart: the scan
\* lets go of the lock of the process it likes best, so that two harts may
\* choose the same one and only the second look at its state tells.
OneHart ==
  /\ \A p \in Entries : pstate[p] = "RUNNING" <=> \E c \in Cpu : cpu[c].proc = p
  /\ \A c, d \in Cpu : cpu[c].proc = cpu[d].proc /\ c # d => cpu[c].proc = None

\* A scan does not pass over a better process: when a hart is about to run the
\* process it has chosen, and that process has been RUNNABLE with the same key
\* since the scan saw it, no other such process has a lesser key.  (The scan
\* forgets what it saw when its best entry is run by another hart meanwhile: the
\* entry may come back with another ctime, and FCFS compares with that one.)
LeastKey ==
  \A c \in Cpu : Chosen(c) /\ cpu[c].best \in seen[c] =>
    \A q \in seen[c] : key[cpu[c].best] <= key[q]

=============================================================================
