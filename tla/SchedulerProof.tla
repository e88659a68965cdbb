---------------------------- MODULE SchedulerProof ----------------------------
(***************************************************************************)
(* Proofs about ScanScheduler, for any number of processes and harts, any   *)
(* priorities and any number of ticks under either policy, and about Alarm, *)
(* for any contexts of the main program and of the handler and for any      *)
(* intervals.                                                               *)
(***************************************************************************)
EXTENDS ScanScheduler, Alarm, TLAPS

(* ScanScheduler                                                           *)

State == {"UNUSED", "SLEEPING", "RUNNABLE", "RUNNING"}
CpuOf == [p : 0 .. NPROC, best : Entries \cup {None}, proc : Entries \cup {None}]

ScanTypeOK ==
  /\ policy \in {"FCFS", "PBS"}
  /\ ticks \in Int
  /\ pstate \in [Entries -> State]
  /\ key \in [Entries -> Int]
  /\ cpu \in [Cpu -> CpuOf]
  /\ min_dp \in [Cpu -> Int]
  /\ seen \in [Cpu -> SUBSET Entries]

\* What a scan has seen is RUNNABLE still, the best entry is one it has passed, and
\* either it has to forget all or the best entry is among what it has seen, with the
\* least key, which is the key that PBS has kept.
ScanOK(c) ==
  /\ \A q \in seen[c] : pstate[q] = "RUNNABLE"
  /\ cpu[c].best # None => cpu[c].best < cpu[c].p
  /\ seen[c] # {} =>
       /\ cpu[c].best \in seen[c]
       /\ \A q \in seen[c] : key[cpu[c].best] <= key[q]
       /\ policy = "PBS" => min_dp[c] = key[cpu[c].best]

ScanInv == ScanTypeOK /\ OneHart /\ \A c \in Cpu : ScanOK(c)

-----------------------------------------------------------------------------

LEMMA Numbers ==
  ASSUME ScanAssumption
  PROVE  /\ NPROC \in Nat /\ NPROC > 0 /\ 0 \in Entries /\ None \notin Entries
         /\ \A p \in Entries : p \in Int /\ p < NPROC /\ p + 1 \in 0 .. NPROC
         /\ \A n \in 0 .. NPROC : n \in Int /\ (n < NPROC => n \in Entries)
         /\ IdleCpu \in CpuOf /\ IdleCpu.best = None /\ IdleCpu.proc = None
  BY DEF ScanAssumption, Entries, IdleCpu, CpuOf

LEMMA CpuFields ==
  ASSUME ScanTypeOK, NEW c \in Cpu
  PROVE  /\ cpu[c].p \in 0 .. NPROC /\ cpu[c].best \in Entries \cup {None}
         /\ cpu[c].proc \in Entries \cup {None}
  BY DEF ScanTypeOK, CpuOf

LEMMA NewKeyType ==
  ASSUME ScanTypeOK
  PROVE  NewKey \in Int
  BY DEF ScanTypeOK, NewKey

LEMMA ScanInitInv ==
  ASSUME ScanAssumption, ScanInit
  PROVE  ScanInv
<1>1. policy \in {"FCFS", "PBS"} /\ NewKey \in Int
  BY DEF ScanAssumption, ScanInit, NewKey
<1>2. ScanTypeOK
  BY <1>1, Numbers DEF ScanInit, ScanTypeOK, State
<1>3. OneHart
  BY Numbers DEF ScanInit, OneHart
<1>4. \A c \in Cpu : ScanOK(c)
  BY Numbers DEF ScanInit, ScanOK
<1> QED
  BY <1>2, <1>3, <1>4 DEF ScanInv

\* The scan of one hart goes on.
LEMMA VisitInv ==
  ASSUME ScanAssumption, ScanInv, NEW c \in Cpu, Visit(c)
  PROVE  ScanInv'
<1>0. PICK p \in Entries : p = cpu[c].p
  BY CpuFields, Numbers DEF Visit, Scanning, ScanInv
<1> DEFINE take == pstate[p] = "RUNNABLE" /\ Better(c, p)
           now == IF pstate[p] = "RUNNABLE" THEN seen[c] \cup {p} ELSE seen[c]
           best == IF take THEN p ELSE cpu[c].best
<1>1. /\ UNCHANGED <<policy, ticks, pstate, key>> /\ cpu[c].proc = None
      /\ cpu' = [cpu EXCEPT ![c].p = p + 1, ![c].best = best]
      /\ min_dp' = [min_dp EXCEPT ![c] = IF take /\ policy = "PBS" THEN key[p] ELSE @]
      /\ seen' = [seen EXCEPT ![c] = IF cpu'[c].best \in now THEN now ELSE {}]
  BY <1>0 DEF Visit, Scanning
<1>2. ScanTypeOK /\ OneHart /\ ScanOK(c) /\ cpu[c].best \in Entries \cup {None}
  BY CpuFields DEF ScanInv
<1>3. best \in Entries \cup {None} /\ p + 1 \in 0 .. NPROC
  BY <1>2, Numbers
<1>4. /\ cpu' \in [Cpu -> CpuOf] /\ \A d \in Cpu \ {c} : cpu'[d] = cpu[d]
      /\ cpu'[c].p = p + 1 /\ cpu'[c].best = best /\ cpu'[c].proc = cpu[c].proc
  <2>1. cpu \in [Cpu -> CpuOf]
    BY <1>2 DEF ScanTypeOK
  <2> HIDE DEF best
  <2> QED
    BY <1>1, <1>3, <2>1 DEF CpuOf
<1>5. /\ \A d \in Cpu \ {c} : seen'[d] = seen[d] /\ min_dp'[d] = min_dp[d]
      /\ seen'[c] = IF best \in now THEN now ELSE {}
      /\ min_dp'[c] = IF take /\ policy = "PBS" THEN key[p] ELSE min_dp[c]
  <2> HIDE DEF best, take, now
  <2> QED
    BY <1>1, <1>2, <1>4 DEF ScanTypeOK
<1>6. ScanTypeOK'
  <2>1. now \in SUBSET Entries /\ key[p] \in Int
    BY <1>2 DEF ScanTypeOK
  <2>2. seen' \in [Cpu -> SUBSET Entries] /\ min_dp' \in [Cpu -> Int]
    <3> HIDE DEF best, take, now
    <3> QED
      BY <1>1, <1>2, <2>1 DEF ScanTypeOK
  <2> QED
    BY <1>1, <1>2, <1>4, <2>2 DEF ScanTypeOK
<1>7. OneHart'
  BY <1>1, <1>2, <1>4 DEF OneHart
<1>8. ScanOK(c)'
  <2>1. \A q \in now : pstate[q] = "RUNNABLE"
    BY <1>2 DEF ScanOK
  <2>2. best # None => best < p + 1
    BY <1>0, <1>2, Numbers DEF ScanOK
  <2>3. ASSUME best \in now
        PROVE  /\ \A q \in now : key[best] <= key[q]
               /\ policy = "PBS" => min_dp'[c] = key[best]
    <3>0. /\ key[p] \in Int /\ \A q \in seen[c] : key[q] \in Int /\ q \in Entries
          /\ cpu[c].best # None => key[cpu[c].best] \in Int
      BY <1>2 DEF ScanTypeOK
    <3>1. CASE seen[c] = {}
      <4>1. now = {p} /\ best = p
        BY <2>3, <3>1
      <4>2. take
        BY <1>0, <1>2, <4>1, Numbers DEF ScanOK
      <4> QED
        BY <1>5, <3>0, <4>1, <4>2
    <3>2. CASE seen[c] # {}
      <4>1. /\ cpu[c].best \in seen[c] /\ cpu[c].best # None
            /\ \A q \in seen[c] : key[cpu[c].best] <= key[q]
            /\ BestKey(c) = key[cpu[c].best]
            /\ policy = "PBS" => min_dp[c] = key[cpu[c].best]
        BY <1>2, <3>2, Numbers DEF ScanOK, BestKey, ScanTypeOK
      <4>2. Better(c, p) <=> key[p] < key[cpu[c].best]
        BY <4>1 DEF Better
      <4>3. CASE take
        BY <1>5, <3>0, <4>1, <4>2, <4>3
      <4>4. CASE ~take
        BY <1>5, <3>0, <4>1, <4>2, <4>4
      <4> QED
        BY <4>3, <4>4
    <3> QED
      BY <3>1, <3>2
  <2> HIDE DEF best, take, now
  <2> QED
    BY <1>1, <1>4, <1>5, <2>1, <2>2, <2>3 DEF ScanOK
<1>9. \A d \in Cpu \ {c} : ScanOK(d)'
  BY <1>1, <1>4, <1>5 DEF ScanInv, ScanOK
<1> QED
  BY <1>6, <1>7, <1>8, <1>9 DEF ScanInv

\* What Forget(p) leaves is as good as it was, and p is not in it.
LEMMA ForgetEffect ==
  ASSUME ScanAssumption, ScanInv, NEW p \in Entries, Forget(p)
  PROVE  /\ seen' \in [Cpu -> SUBSET Entries]
         /\ \A c \in Cpu : seen'[c] \subseteq seen[c] /\ p \notin seen'[c]
         /\ \A c \in Cpu : seen'[c] # {} =>
              /\ cpu[c].best \in seen'[c] /\ cpu[c].best # p
              /\ \A q \in seen'[c] : key[cpu[c].best] <= key[q]
              /\ policy = "PBS" => min_dp[c] = key[cpu[c].best]
<1>1. /\ seen' = [c \in Cpu |-> IF cpu[c].best = p THEN {} ELSE seen[c] \ {p}]
      /\ seen \in [Cpu -> SUBSET Entries]
  BY DEF Forget, ScanInv, ScanTypeOK
<1>2. \A c \in Cpu : ScanOK(c)
  BY DEF ScanInv
<1> QED
  BY <1>1, <1>2 DEF ScanOK

LEMMA DispatchInv ==
  ASSUME ScanAssumption, ScanInv, NEW c \in Cpu, Dispatch(c)
  PROVE  ScanInv'
<1>0. PICK p \in Entries : p = cpu[c].best
  BY CpuFields DEF Dispatch, ScanInv
<1>1. /\ UNCHANGED <<policy, ticks, key, min_dp>>
      /\ cpu[c].proc = None /\ pstate[p] = "RUNNABLE" /\ Forget(p)
      /\ pstate' = [pstate EXCEPT ![p] = "RUNNING"]
      /\ cpu' = [cpu EXCEPT ![c].proc = p]
  BY <1>0 DEF Dispatch, Chosen
<1>2. ScanTypeOK /\ OneHart /\ \A d \in Cpu : ScanOK(d)
  BY DEF ScanInv
<1>3. /\ cpu' \in [Cpu -> CpuOf] /\ \A d \in Cpu \ {c} : cpu'[d] = cpu[d]
      /\ cpu'[c].p = cpu[c].p /\ cpu'[c].best = cpu[c].best /\ cpu'[c].proc = p
  BY <1>1, <1>2 DEF ScanTypeOK, CpuOf
<1>4. /\ pstate' \in [Entries -> State] /\ pstate'[p] = "RUNNING"
      /\ \A q \in Entries \ {p} : pstate'[q] = pstate[q]
  BY <1>1, <1>2 DEF ScanTypeOK, State
<1>5. ScanTypeOK'
  BY <1>1, <1>2, <1>3, <1>4, ForgetEffect DEF ScanTypeOK
<1>6. OneHart'
  <2>1. \A d \in Cpu : cpu[d].proc # p
    BY <1>1, <1>2 DEF OneHart
  <2>2. p # None
    BY Numbers
  <2>3. \A q \in Entries : pstate'[q] = "RUNNING" <=> \E d \in Cpu : cpu'[d].proc = q
    BY <1>1, <1>2, <1>3, <1>4, <2>1, Numbers DEF OneHart
  <2>4. \A d, e \in Cpu : cpu'[d].proc = cpu'[e].proc /\ d # e => cpu'[d].proc = None
    BY <1>2, <1>3, <2>1 DEF OneHart
  <2> QED
    BY <2>3, <2>4 DEF OneHart
<1>7. ASSUME NEW d \in Cpu
      PROVE  ScanOK(d)'
  <2>1. cpu'[d].best = cpu[d].best /\ cpu'[d].p = cpu[d].p
    BY <1>3
  <2> QED
    BY <1>1, <1>2, <1>4, <2>1, ForgetEffect DEF ScanOK, ScanTypeOK
<1> QED
  BY <1>5, <1>6, <1>7 DEF ScanInv

\* A hart starts its loop again.
LEMMA Restart ==
  ASSUME ScanAssumption, ScanInv, NEW c \in Cpu,
         cpu' = [cpu EXCEPT ![c] = IdleCpu],
         min_dp' = [min_dp EXCEPT ![c] = 101],
         seen' = [seen EXCEPT ![c] = {}],
         UNCHANGED <<policy, ticks, key>>,
         pstate' \in [Entries -> State],
         \A q \in Entries : q # cpu[c].proc => pstate'[q] = pstate[q],
         cpu[c].proc # None => pstate'[cpu[c].proc] # "RUNNING"
  PROVE  ScanInv'
<1>1. ScanTypeOK /\ OneHart /\ \A d \in Cpu : ScanOK(d)
  BY DEF ScanInv
<1>2. /\ cpu' \in [Cpu -> CpuOf] /\ \A d \in Cpu \ {c} : cpu'[d] = cpu[d]
      /\ cpu'[c].best = None /\ cpu'[c].proc = None
      /\ seen' \in [Cpu -> SUBSET Entries] /\ seen'[c] = {}
      /\ min_dp' \in [Cpu -> Int]
      /\ \A d \in Cpu \ {c} : seen'[d] = seen[d] /\ min_dp'[d] = min_dp[d]
  BY <1>1, Numbers DEF ScanTypeOK
<1>3. ScanTypeOK'
  BY <1>1, <1>2 DEF ScanTypeOK
<1>4. OneHart'
  <2>1. \A q \in Entries : pstate'[q] = "RUNNING" <=> \E d \in Cpu : cpu'[d].proc = q
    <3> TAKE q \in Entries
    <3>1. CASE q = cpu[c].proc
      BY <1>1, <1>2, <3>1, Numbers DEF OneHart
    <3>2. CASE q # cpu[c].proc
      BY <1>1, <1>2, <3>2, Numbers DEF OneHart
    <3> QED
      BY <3>1, <3>2
  <2>2. \A d, e \in Cpu : cpu'[d].proc = cpu'[e].proc /\ d # e => cpu'[d].proc = None
    BY <1>1, <1>2 DEF OneHart
  <2> QED
    BY <2>1, <2>2 DEF OneHart
<1>5. \A d \in Cpu \ {c} : \A q \in seen[d] : pstate'[q] = pstate[q]
  <2>1. \A q \in Entries : pstate[q] = "RUNNABLE" => q # cpu[c].proc
    BY <1>1 DEF OneHart
  <2> QED
    BY <1>1, <2>1 DEF ScanOK, ScanTypeOK
<1>6. \A d \in Cpu \ {c} : ScanOK(d)'
  BY <1>1, <1>2, <1>5 DEF ScanOK
<1>7. ScanOK(c)'
  BY <1>2 DEF ScanOK
<1> QED
  BY <1>3, <1>4, <1>6, <1>7 DEF ScanInv

LEMMA RescanInv ==
  ASSUME ScanAssumption, ScanInv, NEW c \in Cpu, Rescan(c)
  PROVE  ScanInv'
<1>1. pstate \in [Entries -> State] /\ cpu[c].proc = None
  BY DEF ScanInv, ScanTypeOK, Rescan, Chosen
<1> QED
  BY <1>1, Restart DEF Rescan

LEMMA GiveUpInv ==
  ASSUME ScanAssumption, ScanInv, NEW c \in Cpu, NEW s \in State \ {"RUNNING"}, GiveUp(c, s)
  PROVE  ScanInv'
<1>1. cpu[c].proc \in Entries /\ pstate \in [Entries -> State]
  BY CpuFields DEF GiveUp, ScanInv, ScanTypeOK
<1>2. /\ pstate' \in [Entries -> State] /\ pstate'[cpu[c].proc] = s
      /\ \A q \in Entries : q # cpu[c].proc => pstate'[q] = pstate[q]
  BY <1>1 DEF GiveUp
<1> QED
  BY <1>2, Restart DEF GiveUp

\* An entry that no scan has seen becomes RUNNABLE, perhaps with a new key.
LEMMA AwakeInv ==
  ASSUME ScanAssumption, ScanInv, NEW p \in Entries, pstate[p] \in {"UNUSED", "SLEEPING"},
         pstate' = [pstate EXCEPT ![p] = "RUNNABLE"], key' \in [Entries -> Int],
         \A q \in Entries \ {p} : key'[q] = key[q],
         UNCHANGED <<policy, ticks, cpu, min_dp, seen>>
  PROVE  ScanInv'
<1>1. ScanTypeOK /\ OneHart /\ \A d \in Cpu : ScanOK(d)
  BY DEF ScanInv
<1>2. /\ pstate' \in [Entries -> State] /\ pstate'[p] = "RUNNABLE"
      /\ \A q \in Entries \ {p} : pstate'[q] = pstate[q]
  BY <1>1 DEF ScanTypeOK, State
<1>3. ScanTypeOK'
  BY <1>1, <1>2 DEF ScanTypeOK
<1>4. OneHart'
  BY <1>1, <1>2 DEF OneHart
<1>5. ASSUME NEW d \in Cpu
      PROVE  ScanOK(d)'
  <2>1. seen[d] \subseteq Entries /\ p \notin seen[d]
    BY <1>1 DEF ScanTypeOK, ScanOK
  <2>2. \A q \in seen[d] : pstate'[q] = pstate[q] /\ key'[q] = key[q]
    BY <1>2, <2>1
  <2> QED
    BY <1>1, <2>2 DEF ScanOK
<1> QED
  BY <1>3, <1>4, <1>5 DEF ScanInv

LEMMA ForkInv ==
  ASSUME ScanAssumption, ScanInv, NEW c \in Cpu, NEW p \in Entries, Fork(c, p)
  PROVE  ScanInv'
<1>1. key' \in [Entries -> Int] /\ \A q \in Entries \ {p} : key'[q] = key[q]
  BY NewKeyType DEF Fork, ScanInv, ScanTypeOK
<1> QED
  BY <1>1, AwakeInv DEF Fork

LEMMA WakeupInv ==
  ASSUME ScanAssumption, ScanInv, NEW p \in Entries, Wakeup(p)
  PROVE  ScanInv'
<1>1. key' \in [Entries -> Int] /\ key' = key
  BY DEF Wakeup, ScanInv, ScanTypeOK
<1> QED
  BY <1>1, AwakeInv DEF Wakeup

LEMMA SetpriorityInv ==
  ASSUME ScanAssumption, ScanInv, NEW c \in Cpu, NEW p \in Entries, NEW n \in Priority,
         Setpriority(c, p, n)
  PROVE  ScanInv'
<1>1. UNCHANGED <<policy, ticks, pstate, cpu, min_dp>> /\ Forget(p)
      /\ key' = [key EXCEPT ![p] = n]
  BY DEF Setpriority
<1>2. ScanTypeOK /\ OneHart /\ \A d \in Cpu : ScanOK(d)
  BY DEF ScanInv
<1>3. key' \in [Entries -> Int] /\ \A q \in Entries \ {p} : key'[q] = key[q]
  BY <1>1, <1>2 DEF ScanTypeOK, ScanAssumption
<1>4. ScanTypeOK' /\ OneHart'
  BY <1>1, <1>2, <1>3, ForgetEffect DEF ScanTypeOK, OneHart
<1>5. ASSUME NEW d \in Cpu
      PROVE  ScanOK(d)'
  <2>1. /\ seen'[d] \subseteq seen[d] /\ seen[d] \subseteq Entries /\ p \notin seen'[d]
        /\ seen'[d] # {} =>
             /\ cpu[d].best \in seen'[d] /\ cpu[d].best # p
             /\ \A q \in seen'[d] : key[cpu[d].best] <= key[q]
             /\ policy = "PBS" => min_dp[d] = key[cpu[d].best]
    BY <1>1, <1>2, ForgetEffect DEF ScanTypeOK
  <2>2. \A q \in seen'[d] : key'[q] = key[q]
    BY <1>3, <2>1
  <2> QED
    BY <1>1, <1>2, <2>1, <2>2 DEF ScanOK
<1> QED
  BY <1>4, <1>5 DEF ScanInv

LEMMA ScanNextInv ==
  ASSUME ScanAssumption, ScanInv, [ScanNext]_scanVars
  PROVE  ScanInv'
<1>1. ASSUME NEW c \in Cpu, Visit(c) PROVE ScanInv'
  BY <1>1, VisitInv
<1>2. ASSUME NEW c \in Cpu, Dispatch(c) PROVE ScanInv'
  BY <1>2, DispatchInv
<1>3. ASSUME NEW c \in Cpu, Rescan(c) PROVE ScanInv'
  BY <1>3, RescanInv
<1>4. ASSUME NEW c \in Cpu, Yield(c) \/ Sleep(c) \/ Exit(c) PROVE ScanInv'
  BY <1>4, GiveUpInv DEF Yield, Sleep, Exit, State
<1>5. ASSUME NEW c \in Cpu, NEW p \in Entries, Fork(c, p) PROVE ScanInv'
  BY <1>5, ForkInv
<1>6. ASSUME NEW c \in Cpu, NEW p \in Entries, NEW n \in Priority, Setpriority(c, p, n)
      PROVE  ScanInv'
  BY <1>6, SetpriorityInv
<1>7. ASSUME NEW p \in Entries, Wakeup(p) PROVE ScanInv'
  BY <1>7, WakeupInv
<1>8. CASE Tick
  BY <1>8 DEF Tick, ScanInv, ScanTypeOK, OneHart, ScanOK
<1>9. CASE UNCHANGED scanVars
  BY <1>9 DEF scanVars, ScanInv, ScanTypeOK, OneHart, ScanOK
<1> QED
  BY <1>1, <1>2, <1>3, <1>4, <1>5, <1>6, <1>7, <1>8, <1>9 DEF ScanNext

LEMMA Invariance ==
  ASSUME ScanAssumption
  PROVE  ScanSpec => []ScanInv
<1>1. ScanInit => ScanInv
  BY ScanInitInv
<1>2. ScanInv /\ [ScanNext]_scanVars => ScanInv'
  BY ScanNextInv
<1> QED
  BY <1>1, <1>2, PTL DEF ScanSpec

\* FCFS (XV6-1) and PBS (XV6-2): each RUNNING process is run by one hart, although the
\* scan lets go of the lock of its best entry before it locks it again.
THEOREM OneHartEach == ScanSpec => []OneHart
<1>0. ScanAssumption
  BY ScanConstants
<1>1. ScanInv => OneHart
  BY DEF ScanInv
<1> QED
  BY <1>0, <1>1, Invariance, PTL

\* A scan never passes over a better process: what it is about to run has the least
\* ctime (FCFS) or the least dynamic priority (PBS) of all that it has found RUNNABLE.
THEOREM BestIsLeast == ScanSpec => []LeastKey
<1>0. ScanAssumption
  BY ScanConstants
<1>1. ScanInv => LeastKey
  BY DEF ScanInv, ScanOK, LeastKey
<1> QED
  BY <1>0, <1>1, Invariance, PTL

-----------------------------------------------------------------------------
(* Alarm                                                                   *)

AlarmTypeOK ==
  /\ tf \in Main \cup Handler
  /\ alarm_tf \in Main \cup Handler \cup {NoContext}
  /\ alarm_on \in BOOLEAN /\ kept \in BOOLEAN
  /\ nticks \in 0 .. MaxInterval /\ cur_ticks \in Nat
  /\ scause \in {"timer", "other"}
  /\ at \in {"user", "kernel", "tail", "nopage", "noframe"}
  /\ held \in Nat

\* While the handler of a program that has kept the rules runs no tick fires: alarm_on says
\* so, or the handler has turned the alarm off and nticks is 0.  AlarmRestores alone does
\* not know of either.
HandlerOnce == kept /\ tf \in Handler => alarm_on \/ nticks = 0

AlarmInv == AlarmTypeOK /\ HandlerOnce /\ AlarmRestores

LEMMA AlarmInitInv ==
  ASSUME AlarmAssumption, AlarmInit
  PROVE  AlarmInv
<1>1. tf \in Main /\ tf \notin Handler /\ MaxInterval \in Nat
  BY DEF AlarmAssumption, AlarmInit
<1>2. AlarmTypeOK
  <2>1. alarm_on \in BOOLEAN /\ kept \in BOOLEAN
    BY Zenon DEF AlarmInit
  <2> QED
    BY <1>1, <2>1 DEF AlarmInit, AlarmTypeOK
<1>3. HandlerOnce /\ AlarmRestores
  BY <1>1 DEF AlarmInit, HandlerOnce, AlarmRestores
<1> QED
  BY <1>2, <1>3 DEF AlarmInv

\* A tick that fires finds the main program running, and saves what it was doing: or the
\* program has not kept the rules, and only the count of pages matters.
LEMMA FireInv ==
  ASSUME AlarmAssumption, AlarmInv, Fire
  PROVE  AlarmInv'
<1>1. nticks > 0 /\ ~alarm_on
  BY DEF Fire, Counts, Fires
<1>2. /\ alarm_on' = TRUE /\ cur_ticks' = 0 /\ alarm_tf' = tf /\ held' = held + 1
      /\ tf' \in Handler /\ at' = "user"
      /\ nticks' = nticks /\ scause' = scause /\ kept' = kept
  BY DEF Fire
<1>3. AlarmTypeOK'
  <2>1. alarm_on' \in BOOLEAN /\ kept' \in BOOLEAN
    BY <1>2, Zenon DEF AlarmInv, AlarmTypeOK
  <2> QED
    BY <1>2, <2>1 DEF AlarmInv, AlarmTypeOK
<1>4. HandlerOnce'
  BY <1>2 DEF HandlerOnce
<1>5. held' > 0
  BY <1>2 DEF AlarmInv, AlarmTypeOK
<1>6. AlarmRestores'
  <2>1. CASE kept
    <3>1. tf \in Main /\ tf \notin Handler /\ alarm_tf = NoContext /\ held = 0
      BY <1>1, <2>1 DEF AlarmInv, AlarmTypeOK, HandlerOnce, AlarmRestores, AlarmAssumption
    <3>2. interrupted' = tf
      BY <3>1 DEF Fire
    <3> QED
      BY <1>2, <1>5, <3>1, <3>2 DEF AlarmRestores, AlarmAssumption
  <2>2. CASE ~kept
    BY <1>2, <1>5, <2>2 DEF AlarmRestores
  <2> QED
    BY <2>1, <2>2
<1> QED
  BY <1>3, <1>4, <1>6 DEF AlarmInv

LEMMA SysSigreturnInv ==
  ASSUME AlarmAssumption, AlarmInv, SysSigreturn
  PROVE  AlarmInv'
<1>1. /\ alarm_tf # NoContext /\ tf' = alarm_tf /\ alarm_tf' = NoContext /\ held' = held - 1
      /\ alarm_on' = FALSE /\ cur_ticks' = 0 /\ at' = "tail"
      /\ nticks' = nticks /\ scause' = scause /\ interrupted' = interrupted
      /\ (kept' => kept /\ tf \in Handler)
  BY DEF SysSigreturn
<1>2. held > 0
  BY <1>1 DEF AlarmInv, AlarmRestores
<1>3. kept' => alarm_tf \in Main /\ alarm_tf \notin Handler /\ held = 1
  BY <1>1 DEF AlarmInv, AlarmRestores, AlarmAssumption
<1>4. AlarmTypeOK'
  <2>1. alarm_on' \in BOOLEAN /\ kept' \in BOOLEAN
    BY Zenon DEF SysSigreturn
  <2> QED
    BY <1>1, <1>2, <2>1 DEF AlarmInv, AlarmTypeOK
<1>5. HandlerOnce' /\ AlarmRestores'
  BY <1>1, <1>3 DEF HandlerOnce, AlarmRestores, AlarmAssumption
<1> QED
  BY <1>4, <1>5 DEF AlarmInv

\* The entry of a process that exits has no saved trapframe, whoever gets it.
LEMMA AllocprocInv ==
  ASSUME AlarmAssumption, AlarmInv, Allocproc
  PROVE  AlarmInv'
<1>1. /\ tf' \in Main \cup Handler /\ alarm_tf' = NoContext /\ nticks' = 0 /\ cur_ticks' = 0
      /\ at' = "user" /\ scause' = scause /\ held' = held
      /\ (kept' => kept /\ tf \in Main /\ tf' \in Main)
  BY DEF Allocproc
<1>2. AlarmTypeOK'
  <2>1. alarm_on' \in BOOLEAN /\ kept' \in BOOLEAN
    BY Zenon DEF Allocproc
  <2> QED
    BY <1>1, <2>1 DEF AlarmInv, AlarmTypeOK, AlarmAssumption
<1>3. kept' => held = 0
  BY <1>1 DEF AlarmInv, AlarmRestores
<1>4. HandlerOnce' /\ AlarmRestores'
  BY <1>1, <1>3 DEF HandlerOnce, AlarmRestores, AlarmAssumption
<1> QED
  BY <1>2, <1>4 DEF AlarmInv

\* The steps that leave the saved trapframe and its page alone, and neither begin a handler
\* nor let a tick fire in one.
LEMMA FrameStays ==
  ASSUME AlarmAssumption, AlarmInv,
         tf' \in Main \cup Handler, alarm_tf' = alarm_tf, held' = held, interrupted' = interrupted,
         alarm_on' \in BOOLEAN, kept' \in BOOLEAN, cur_ticks' \in Nat, nticks' \in 0 .. MaxInterval,
         scause' \in {"timer", "other"}, at' \in {"user", "kernel", "tail", "nopage", "noframe"},
         kept' => kept /\ at' # "noframe" /\ (tf' \in Main <=> tf \in Main),
         kept' /\ tf \in Handler => alarm_on' \/ nticks' = 0
  PROVE  AlarmInv'
<1>1. AlarmTypeOK'
  BY DEF AlarmInv, AlarmTypeOK
<1>2. kept' => (tf' \in Handler <=> tf \in Handler)
  BY DEF AlarmInv, AlarmTypeOK, AlarmAssumption
<1>3. HandlerOnce'
  BY <1>2 DEF HandlerOnce
<1>4. AlarmRestores'
  BY <1>2 DEF AlarmInv, AlarmRestores
<1> QED
  BY <1>1, <1>3, <1>4 DEF AlarmInv

LEMMA AlarmNextInv ==
  ASSUME AlarmAssumption, AlarmInv, [AlarmNext]_alarmVars
  PROVE  AlarmInv'
<1> USE DEF AlarmInv, AlarmTypeOK
<1>0. kept /\ tf \in Handler => alarm_on \/ nticks = 0
  BY DEF HandlerOnce
<1>1. CASE Compute
  <2>1. kept' \in BOOLEAN /\ (kept' => kept /\ (tf' \in Main <=> tf \in Main))
    BY <1>1, Zenon DEF Compute
  <2> QED
    BY <1>0, <1>1, <2>1, FrameStays DEF Compute, InUser
<1>2. CASE Ecall \/ OtherSyscall \/ Return
  BY <1>0, <1>2, FrameStays DEF Ecall, OtherSyscall, Return, AlarmRestores
<1>3. CASE SysSigreturn
  BY <1>3, SysSigreturnInv
<1>4. CASE SigreturnNoFrame
  <2>1. kept' \in BOOLEAN /\ (kept' => kept /\ tf \in Handler)
    BY <1>4, Zenon DEF SigreturnNoFrame
  <2>2. kept => ~(tf \in Handler)
    BY <1>4 DEF SigreturnNoFrame, AlarmRestores, AlarmAssumption
  <2> QED
    BY <1>4, <2>1, <2>2, FrameStays DEF SigreturnNoFrame
<1>5. ASSUME NEW cause \in {"timer", "other"}, Trap(cause) \/ KernelTrap(cause)
      PROVE  AlarmInv'
  BY <1>0, <1>5, FrameStays DEF Trap, KernelTrap, InUser
<1>6. ASSUME NEW n \in 0 .. MaxInterval, SysSigalarm(n)
      PROVE  AlarmInv'
  <2>1. /\ kept' \in BOOLEAN /\ alarm_on' \in BOOLEAN
        /\ kept' => kept /\ (tf \in Handler => n = 0)
    BY <1>6, Zenon DEF SysSigalarm
  <2> QED
    BY <1>6, <2>1, FrameStays DEF SysSigalarm
<1>7. CASE CountTick
  BY <1>0, <1>7, FrameStays DEF CountTick
<1>8. CASE Fire
  BY <1>8, FireInv
<1>9. CASE FireNoPage
  BY <1>9, FrameStays DEF FireNoPage
<1>10. CASE Exec
  <2>1. kept' \in BOOLEAN /\ (kept' => kept /\ tf \in Main)
    BY <1>10, Zenon DEF Exec
  <2> QED
    BY <1>0, <1>10, <2>1, FrameStays DEF Exec
<1>11. CASE Allocproc
  BY <1>11, AllocprocInv
<1>12. CASE UNCHANGED alarmVars
  BY <1>0, <1>12 DEF alarmVars, HandlerOnce, AlarmRestores
<1> QED
  BY <1>1, <1>2, <1>3, <1>4, <1>5, <1>6, <1>7, <1>8, <1>9, <1>10, <1>11, <1>12 DEF AlarmNext

\* A program that calls sigreturn() in its handler and nowhere else, leaves it in no other
\* way and does not ask for the next alarm there, gets back what the alarm interrupted, and
\* the page is taken and given back once, whatever ticks come in the handler, in its system
\* calls and at the end of sigreturn() (kernel/trap.c, kernel/sysproc.c of XV6-1).  The
\* kernel makes no program do so, and to others this promises only that no page is given
\* back twice.
THEOREM AlarmRestored == AlarmSpec => []AlarmRestores
<1>0. AlarmAssumption
  BY AlarmConstants
<1>1. AlarmInit => AlarmInv
  BY <1>0, AlarmInitInv
<1>2. AlarmInv /\ [AlarmNext]_alarmVars => AlarmInv'
  BY <1>0, AlarmNextInv
<1>3. AlarmInv => AlarmRestores
  BY DEF AlarmInv
<1> QED
  BY <1>1, <1>2, <1>3, PTL DEF AlarmSpec

=============================================================================
