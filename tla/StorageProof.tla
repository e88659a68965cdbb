----------------------------- MODULE StorageProof -----------------------------
(***************************************************************************)
(* The log and exec(): proofs about Log and Exec.                           *)
(*                                                                         *)
(* Log, for any number of processes, blocks and values, and any sizes that  *)
(* LogAssumption allows: the log never overflows, nobody sleeps for ever in *)
(* begin_op(), and the log implements atomic Transactions.                  *)
(*                                                                         *)
(* Exec, for any number of processes that exec() at once, any programs, any *)
(* sizes and any number of free pages: exec() loses no page, wherever it    *)
(* fails.                                                                  *)
(***************************************************************************)
EXTENDS Log, Exec, FiniteSetTheorems, WellFoundedInduction, TLAPS

-----------------------------------------------------------------------------
(* The log                                                                 *)

\* The blocks of a transaction.
Blocks(s) == {s[i] : i \in DOMAIN s}

\* The calls under way, and what they have written.
Calls == {p \in Proc : pc[p] = "in"}
Touched == UNION {wrote[p] : p \in Calls}

\* Where commit() and recovery are, and who is in the way.
PhaseInv ==
  /\ \A p, q \in Proc : pc[p] = "commit" /\ pc[q] = "commit" => p = q
  /\ committing <=> \E p \in Proc : pc[p] = "commit"
  /\ committing <=> phase \in {"write_log", "install", "committed"}
  /\ ~Up => \A p \in Proc : pc[p] = "out"
  /\ Calls # {} => phase = "run"
  /\ phase \in {"run", "write_log", "committed"} => hdr = <<>>
  /\ phase \in {"install", "recover"} => hdr = lh
  /\ phase \in {"read_head", "committed"} => lh = <<>>
  /\ phase = "run" /\ Calls = {} => lh = <<>>
  /\ \A p \in Proc : pc[p] \in {"begin_op", "asleep"} => wrote[p] = {}

\* The disk, the cache and the pins, as far as commit() and recovery have come.
DataInv ==
  /\ phase \in {"run", "write_log"} => pinned = Blocks(lh)
  /\ phase = "install" => pinned = {lh[i] : i \in tail .. Len(lh)}
  /\ phase \notin {"run", "write_log", "install"} => pinned = {}
  /\ phase = "write_log" => \A i \in DOMAIN lh : i < tail => dlog[i] = buf[lh[i]]
  /\ phase = "install" => \A i \in DOMAIN lh : i >= tail => dlog[i] = buf[lh[i]]
  /\ phase \in {"install", "recover"} => \A i \in DOMAIN lh : i < tail => home[lh[i]] = dlog[i]

\* The log holds what the calls have written, and room for what they may write yet.
CountInv ==
  /\ outstanding = Cardinality(Calls)
  /\ \A p \in Proc : IsFiniteSet(wrote[p]) /\ Cardinality(wrote[p]) <= OpBlocks
  /\ Touched \subseteq Blocks(lh)
  /\ Len(lh) + outstanding * MAXOPBLOCKS <= LOGSIZE + Cardinality(Touched)
  /\ Len(hdr) <= LOGSIZE

IInv == TypeOK /\ PhaseInv /\ DataInv /\ CountInv /\ SleepersWoken

-----------------------------------------------------------------------------
(* Types                                                                   *)

LEMMA Logs ==
  ASSUME TypeOK
  PROVE  /\ lh \in Seq(Block) /\ Len(lh) \in Nat /\ Len(lh) < NLOG
         /\ DOMAIN lh = 1 .. Len(lh) /\ \A i \in DOMAIN lh : lh[i] \in Block
         /\ \A i, j \in DOMAIN lh : lh[i] = lh[j] => i = j
         /\ hdr \in Seq(Block) /\ Len(hdr) \in Nat /\ Len(hdr) < NLOG
         /\ DOMAIN hdr = 1 .. Len(hdr) /\ \A i \in DOMAIN hdr : hdr[i] \in Block
         /\ \A i, j \in DOMAIN hdr : hdr[i] = hdr[j] => i = j
  BY DEF TypeOK

LEMMA CallsFinite == IsFiniteSet(Calls) /\ Calls \subseteq Proc
  BY LogAssumption, FS_Subset DEF Calls

\* A call makes the log longer by a block at most.
LEMMA LogWriteLog ==
  ASSUME TypeOK, NEW p \in Proc, NEW b \in Block, NEW v \in Value, LogWrite(p, b, v)
  PROVE  /\ Blocks(lh') = Blocks(lh) \cup {b}
         /\ lh' \in Seq(Block)
         /\ \A i, j \in DOMAIN lh' : lh'[i] = lh'[j] => i = j
         /\ Len(lh') = IF b \in Blocks(lh) THEN Len(lh) ELSE Len(lh) + 1
<1>1. CASE InLog(b)
  BY <1>1, Logs DEF LogWrite, InLog, Blocks
<1>2. CASE ~InLog(b)
  <2>1. lh' = Append(lh, b)
    BY <1>2 DEF LogWrite
  <2>2. /\ Len(lh') = Len(lh) + 1 /\ DOMAIN lh' = 1 .. Len(lh) + 1 /\ lh' \in Seq(Block)
        /\ \A i \in 1 .. Len(lh) : lh'[i] = lh[i]
        /\ lh'[Len(lh) + 1] = b
    BY <2>1, Logs
  <2>3. b \notin Blocks(lh)
    BY <1>2 DEF InLog, Blocks
  <2>4. \A i, j \in DOMAIN lh' : lh'[i] = lh'[j] => i = j
    BY <2>2, <2>3, Logs DEF Blocks
  <2>5. \A i \in DOMAIN lh' : i \in 1 .. Len(lh) \/ i = Len(lh) + 1
    BY <2>2, Logs
  <2>6. Blocks(lh') = Blocks(lh) \cup {b}
    BY <2>2, <2>5, Logs DEF Blocks
  <2> QED
    BY <2>2, <2>3, <2>4, <2>6
<1> QED
  BY <1>1, <1>2

LEMMA EmptyLog ==
  /\ <<>> \in Seq(Block) /\ Len(<<>>) = 0 /\ Len(<<>>) < NLOG
  /\ \A i, j \in DOMAIN <<>> : <<>>[i] = <<>>[j] => i = j
  BY LogAssumption

-----------------------------------------------------------------------------
(* The phases                                                              *)

\* The call that ends is the last one if and only if outstanding is 1.
LEMMA OneCall ==
  ASSUME CountInv, NEW p \in Proc, pc[p] = "in"
  PROVE  outstanding = 1 <=> Calls = {p}
<1>1. p \in Calls
  BY DEF Calls
<1>2. Calls = {p} => Cardinality(Calls) = 1
  BY FS_Singleton
<1>3. Cardinality(Calls) = 1 => \E x : Calls = {x}
  BY CallsFinite, FS_Singleton
<1> QED
  BY <1>1, <1>2, <1>3 DEF CountInv

LEMMA PhaseStep == ASSUME TypeOK, PhaseInv, CountInv, [Next]_vars PROVE PhaseInv'
<1>1. ASSUME NEW p \in Proc, Call(p) PROVE PhaseInv'
  BY <1>1 DEF PhaseInv, Call, Calls, Up, TypeOK, disk, log
<1>2. ASSUME NEW p \in Proc, BeginOp(p) PROVE PhaseInv'
  <2>1. phase \notin {"write_log", "install", "committed"} /\ UNCHANGED phase
    BY <1>2 DEF PhaseInv, BeginOp
  <2>2. Up /\ phase \in Phase
    BY <1>2 DEF BeginOp, TypeOK
  <2>3. phase = "run" /\ phase' = "run"
    BY <2>1, <2>2 DEF Up, Phase
  <2>4. pc' = [pc EXCEPT ![p] = "in"] /\ p \in Calls' /\ pc[p] = "begin_op"
    BY <1>2 DEF BeginOp, Calls, TypeOK
  <2>5. \A q \in Proc : pc'[q] = "commit" <=> pc[q] = "commit"
    BY <2>4 DEF TypeOK
  <2> QED
    BY <1>2, <2>3, <2>4, <2>5 DEF PhaseInv, BeginOp, Up, disk
<1>3. ASSUME NEW p \in Proc, BeginOpSleep(p) PROVE PhaseInv'
  BY <1>3 DEF PhaseInv, BeginOpSleep, Calls, Up, TypeOK, disk, log
<1>4. ASSUME NEW p \in Proc, NEW b \in Block, NEW v \in Value, LogWrite(p, b, v)
      PROVE  PhaseInv'
  BY <1>4 DEF PhaseInv, LogWrite, Calls, Up, disk
<1>5. ASSUME NEW p \in Proc, EndOp(p) PROVE PhaseInv'
  <2>1. p \in Calls /\ Calls # {p}
    BY <1>5, OneCall DEF EndOp, Calls
  <2> PICK q \in Calls : q # p
    BY <2>1
  <2>2. q \in Calls' /\ phase = "run"
    BY <1>5 DEF EndOp, Wakeup, Calls, PhaseInv
  <2>3. \A r \in Proc : /\ pc'[r] = "commit" <=> pc[r] = "commit"
                        /\ pc'[r] \in {"begin_op", "asleep"} => pc[r] \in {"begin_op", "asleep"}
    BY <1>5 DEF EndOp, Wakeup
  <2>4. UNCHANGED <<committing, phase, hdr, lh, wrote>> /\ Calls' # {}
    BY <1>5, <2>2 DEF EndOp, disk
  <2> QED
    BY <2>2, <2>3, <2>4 DEF PhaseInv, Up
<1>6. ASSUME NEW p \in Proc, EndOpLast(p) PROVE PhaseInv'
  <2>1. Calls = {p} /\ phase = "run"
    BY <1>6, OneCall DEF EndOpLast, Calls, PhaseInv
  <2>2. pc' = [pc EXCEPT ![p] = "commit"] /\ Calls' = {}
    BY <1>6, <2>1 DEF EndOpLast, Calls, TypeOK
  <2> QED
    BY <1>6, <2>1, <2>2 DEF PhaseInv, EndOpLast, Up, TypeOK, disk
<1>7. ASSUME NEW p \in Proc, Committed(p) PROVE PhaseInv'
  BY <1>7 DEF PhaseInv, Committed, Wakeup, Calls, Up, TypeOK, disk
<1>8. CASE WriteLog
  BY <1>8 DEF PhaseInv, WriteLog, Calls, Up, log
<1>9. CASE WriteHead
  BY <1>9 DEF PhaseInv, WriteHead, Calls, Up, log
<1>10. CASE Install
  BY <1>10 DEF PhaseInv, Install, Calls, Up, log
<1>11. CASE Clear
  BY <1>11 DEF PhaseInv, Clear, Calls, Up
<1>12. CASE ReadHead
  BY <1>12 DEF PhaseInv, ReadHead, Calls, Up, disk
<1>13. CASE Crash
  BY <1>13 DEF PhaseInv, Crash, Calls, Up
<1>14. CASE UNCHANGED vars
  BY <1>14 DEF PhaseInv, Calls, Up, vars, disk, log
<1> QED
  BY <1>1, <1>2, <1>3, <1>4, <1>5, <1>6, <1>7, <1>8, <1>9, <1>10, <1>11, <1>12, <1>13,
     <1>14 DEF Next

-----------------------------------------------------------------------------
(* The disk and the cache                                                  *)

LEMMA DataStep == ASSUME TypeOK, PhaseInv, DataInv, CountInv, [Next]_vars PROVE DataInv'
<1>1. ASSUME NEW p \in Proc, Call(p) PROVE DataInv'
  BY <1>1 DEF DataInv, Call, disk, log
<1>2. ASSUME NEW p \in Proc, BeginOp(p) PROVE DataInv'
  BY <1>2 DEF DataInv, BeginOp, disk
<1>3. ASSUME NEW p \in Proc, BeginOpSleep(p) PROVE DataInv'
  BY <1>3 DEF DataInv, BeginOpSleep, disk, log
<1>4. ASSUME NEW p \in Proc, NEW b \in Block, NEW v \in Value, LogWrite(p, b, v)
      PROVE  DataInv'
  <2>1. phase = "run" /\ phase' = "run" /\ pinned' = pinned \cup {b}
    BY <1>4 DEF LogWrite, PhaseInv, Calls
  <2> QED
    BY <1>4, <2>1, LogWriteLog DEF DataInv
<1>5. ASSUME NEW p \in Proc, EndOp(p) PROVE DataInv'
  BY <1>5 DEF DataInv, EndOp, disk
<1>6. ASSUME NEW p \in Proc, EndOpLast(p) PROVE DataInv'
  BY <1>6, Logs DEF DataInv, EndOpLast, PhaseInv, Calls, Blocks, disk
<1>7. ASSUME NEW p \in Proc, Committed(p) PROVE DataInv'
  BY <1>7 DEF DataInv, Committed, PhaseInv, Blocks, disk
<1>8. CASE WriteLog
  <2>1. /\ phase = "write_log" /\ phase' = "write_log" /\ tail \in DOMAIN lh
        /\ lh[tail] \in pinned /\ UNCHANGED <<pinned, lh, home>> /\ tail' = tail + 1
    BY <1>8, Logs DEF WriteLog, DataInv, Blocks, TypeOK, log
  <2>2. dlog' = [dlog EXCEPT ![tail] = buf[lh[tail]]] /\ buf' = buf
    BY <1>8, <2>1, Logs DEF WriteLog, Bread, TypeOK
  <2>3. \A i \in DOMAIN lh : i < tail + 1 <=> i < tail \/ i = tail
    BY <2>1, Logs
  <2>4. DOMAIN lh \subseteq 1 .. NLOG - 1 /\ dlog \in [1 .. NLOG - 1 -> Content]
    BY Logs, LogAssumption DEF TypeOK
  <2>5. \A i \in DOMAIN lh : i < tail + 1 => dlog'[i] = buf[lh[i]]
    BY <2>1, <2>2, <2>3, <2>4 DEF DataInv
  <2> QED
    BY <2>1, <2>2, <2>5 DEF DataInv
<1>9. CASE WriteHead
  <2>1. /\ phase = "write_log" /\ phase' = "install" /\ tail > Len(lh) /\ tail' = 1
        /\ UNCHANGED <<lh, pinned, buf, dlog, home>>
    BY <1>9 DEF WriteHead, log
  <2>2. \A i \in DOMAIN lh : i < tail /\ i >= 1
    BY <2>1, Logs DEF TypeOK
  <2> QED
    BY <2>1, <2>2, Logs DEF DataInv, Blocks, TypeOK
<1>10. CASE Install
  <2>1. /\ phase \in {"install", "recover"} /\ phase' = phase /\ tail \in DOMAIN lh
        /\ tail' = tail + 1 /\ UNCHANGED <<lh, dlog>>
        /\ home' = [home EXCEPT ![lh[tail]] = dlog[tail]]
        /\ buf' = [buf EXCEPT ![lh[tail]] = dlog[tail]]
        /\ pinned' = IF phase = "install" THEN pinned \ {lh[tail]} ELSE pinned
    BY <1>10, Logs DEF Install, TypeOK, log
  <2>2. \A i \in DOMAIN lh : /\ i < tail + 1 <=> i < tail \/ i = tail
                             /\ i >= tail + 1 <=> i >= tail /\ i # tail
    BY <2>1, Logs
  <2>3. \A i \in DOMAIN lh : i < tail + 1 => home'[lh[i]] = dlog[i]
    BY <2>1, <2>2, Logs DEF DataInv, TypeOK
  <2>4. phase = "install" => \A i \in DOMAIN lh : i >= tail + 1 => dlog[i] = buf'[lh[i]]
    BY <2>1, <2>2, Logs DEF DataInv, TypeOK
  <2>5. phase = "install" => pinned' = {lh[i] : i \in tail + 1 .. Len(lh)}
    <3>1. tail + 1 .. Len(lh) = (tail .. Len(lh)) \ {tail} /\ tail .. Len(lh) \subseteq DOMAIN lh
      BY <2>1, Logs
    <3>2. \A i \in tail .. Len(lh) : lh[i] = lh[tail] <=> i = tail
      BY <2>1, <3>1, Logs
    <3> QED
      BY <2>1, <3>1, <3>2 DEF DataInv
  <2> QED
    BY <2>1, <2>3, <2>4, <2>5 DEF DataInv
<1>11. CASE Clear
  <2>1. tail .. Len(lh) = {}
    BY <1>11, Logs DEF Clear, TypeOK
  <2> QED
    BY <1>11, <2>1 DEF DataInv, Clear, Blocks
<1>12. CASE ReadHead
  BY <1>12, Logs DEF DataInv, ReadHead, disk, PhaseInv
<1>13. CASE Crash
  BY <1>13 DEF DataInv, Crash
<1>14. CASE UNCHANGED vars
  BY <1>14 DEF DataInv, vars, disk, log
<1> QED
  BY <1>1, <1>2, <1>3, <1>4, <1>5, <1>6, <1>7, <1>8, <1>9, <1>10, <1>11, <1>12, <1>13,
     <1>14 DEF Next

-----------------------------------------------------------------------------
(* The reservation of begin_op()                                           *)

\* A set of callers that have written at most K blocks each, and what it has written.
Written(T, W) == UNION {W[p] : p \in T}
Bounded(T, W, K) ==
  IsFiniteSet(Written(T, W)) /\ Cardinality(Written(T, W)) <= Cardinality(T) * K

LEMMA Times == \A n, k \in Nat : n * k \in Nat /\ (n + 1) * k = n * k + k
  OBVIOUS

\* Together they have written at most K times their number: a smallest set of
\* callers for which that is not so leads to a smaller one.
LEMMA WrittenBound ==
  ASSUME NEW S, IsFiniteSet(S), NEW W, NEW K \in Nat,
         \A p \in S : IsFiniteSet(W[p]) /\ Cardinality(W[p]) <= K
  PROVE  Bounded(S, W, K)
<1> DEFINE Wrong == {T \in SUBSET S : ~Bounded(T, W, K)}
           R == StrictSubsetOrdering(S)
<1>1. SUFFICES ASSUME Wrong # {} PROVE FALSE
  OBVIOUS
<1>2. IsWellFoundedOn(R, SUBSET S)
  BY FS_StrictSubsetOrderingWellFounded, FS_FiniteSubsetsOfFinite
<1>3. PICK T \in Wrong : \A V \in Wrong : ~(<<V, T>> \in R)
  <2> HIDE DEF R
  <2>1. Wrong \subseteq SUBSET S
    OBVIOUS
  <2> QED
    BY <1>1, <1>2, <2>1, WFMin
<1>4. T \in SUBSET S /\ ~Bounded(T, W, K) /\ IsFiniteSet(T)
  BY FS_Subset
<1>5. CASE T = {}
  <2>1. Written({}, W) = {}
    BY DEF Written
  <2> QED
    BY <1>4, <1>5, <2>1, FS_EmptySet DEF Bounded
<1>6. CASE T # {}
  <2> PICK p \in T : TRUE
    BY <1>6
  <2> DEFINE V == T \ {p}
  <2>1. <<V, T>> \in R
    BY <1>4 DEF StrictSubsetOrdering
  <2>2. Bounded(V, W, K)
    BY <1>3, <1>4, <2>1
  <2>3. Written(T, W) = Written(V, W) \cup W[p]
    BY DEF Written
  <2>4. IsFiniteSet(V) /\ Cardinality(T) = Cardinality(V) + 1 /\ Cardinality(V) \in Nat
    <3>1. IsFiniteSet(V) /\ Cardinality(V) = Cardinality(T) - 1
      BY <1>4, FS_RemoveElement
    <3> QED
      BY <1>4, <3>1, FS_CardinalityType
  <2>5. /\ IsFiniteSet(Written(V, W)) /\ Cardinality(Written(V, W)) \in Nat
        /\ Cardinality(Written(V, W)) <= Cardinality(V) * K
    BY <2>2, FS_CardinalityType DEF Bounded
  <2>6. IsFiniteSet(W[p]) /\ Cardinality(W[p]) \in Nat /\ Cardinality(W[p]) <= K
    BY <1>4, FS_CardinalityType
  <2>7. /\ IsFiniteSet(Written(T, W)) /\ Cardinality(Written(T, W)) \in Nat
        /\ Cardinality(Written(T, W)) <= Cardinality(Written(V, W)) + Cardinality(W[p])
    <3>1. Cardinality(Written(V, W) \cap W[p]) \in Nat
      BY <2>6, FS_Intersection, FS_CardinalityType
    <3>2. /\ IsFiniteSet(Written(T, W))
          /\ Cardinality(Written(T, W))
               = Cardinality(Written(V, W)) + Cardinality(W[p])
                 - Cardinality(Written(V, W) \cap W[p])
      BY <2>3, <2>5, <2>6, FS_Union
    <3>3. Cardinality(Written(T, W)) \in Nat
      BY <3>2, FS_CardinalityType
    <3> QED
      BY <2>5, <2>6, <3>1, <3>2, <3>3
  <2>8. Cardinality(T) * K = Cardinality(V) * K + K /\ Cardinality(V) * K \in Nat
    BY <2>4, Times
  <2>9. Cardinality(Written(T, W)) <= Cardinality(T) * K
    BY <2>5, <2>6, <2>7, <2>8
  <2> QED
    BY <1>4, <2>7, <2>9 DEF Bounded
<1> QED
  BY <1>5, <1>6

LEMMA Sizes ==
  /\ MAXOPBLOCKS \in Nat /\ LOGSIZE \in Nat /\ NLOG \in Nat /\ OpBlocks \in Nat
  /\ OpBlocks < MAXOPBLOCKS /\ MAXOPBLOCKS <= LOGSIZE
  /\ LOGSIZE - (MAXOPBLOCKS - OpBlocks) < NLOG - 1
  BY LogAssumption

LEMMA TouchedFinite ==
  ASSUME CountInv
  PROVE  /\ IsFiniteSet(Touched) /\ Cardinality(Touched) \in Nat
         /\ Cardinality(Touched) <= outstanding * OpBlocks
         /\ outstanding \in Nat
<1>1. Bounded(Calls, wrote, OpBlocks)
  BY CallsFinite, WrittenBound, Sizes DEF CountInv, Calls
<1>2. Touched = Written(Calls, wrote)
  BY DEF Touched, Written
<1> QED
  BY <1>1, <1>2, CallsFinite, FS_CardinalityType DEF Bounded, CountInv

\* While a call is under way the log has room for a block.
LEMMA Room ==
  ASSUME TypeOK, CountInv
  PROVE  /\ Len(lh) <= LOGSIZE
         /\ Calls # {} => Len(lh) < LOGSIZE /\ Len(lh) < NLOG - 1
<1>1. outstanding \in Nat /\ outstanding * OpBlocks \in Nat /\ outstanding * MAXOPBLOCKS \in Nat
  BY TouchedFinite, Sizes, Times
<1>2. Len(lh) + outstanding * MAXOPBLOCKS <= LOGSIZE + outstanding * OpBlocks
  <2>1. Len(lh) + outstanding * MAXOPBLOCKS <= LOGSIZE + Cardinality(Touched)
    BY DEF CountInv
  <2> QED
    BY <1>1, <2>1, TouchedFinite, Logs, Sizes
<1>3. outstanding * MAXOPBLOCKS = outstanding * OpBlocks + outstanding * (MAXOPBLOCKS - OpBlocks)
  BY <1>1, Sizes
<1>4. Calls # {} => outstanding >= 1
  BY <1>1, CallsFinite, FS_EmptySet DEF CountInv
<1>5. MAXOPBLOCKS - OpBlocks \in Nat /\ MAXOPBLOCKS - OpBlocks >= 1
  BY Sizes
<1>6. /\ outstanding * (MAXOPBLOCKS - OpBlocks) \in Nat
      /\ outstanding >= 1 => outstanding * (MAXOPBLOCKS - OpBlocks) >= MAXOPBLOCKS - OpBlocks
  BY <1>1, <1>5
<1> QED
  BY <1>1, <1>2, <1>3, <1>4, <1>5, <1>6, Sizes, Logs

\* A call begins where there is room for all that it may write; ...
LEMMA CountBegin ==
  ASSUME TypeOK, PhaseInv, CountInv, NEW p \in Proc, BeginOp(p)
  PROVE  CountInv'
<1>1. /\ Calls' = Calls \cup {p} /\ p \notin Calls /\ UNCHANGED <<wrote, lh, hdr>>
      /\ outstanding' = outstanding + 1 /\ wrote[p] = {}
      /\ Len(lh) + (outstanding + 1) * MAXOPBLOCKS <= LOGSIZE
  BY DEF BeginOp, Calls, TypeOK, disk, Space, PhaseInv
<1>2. outstanding' = Cardinality(Calls')
  BY <1>1, CallsFinite, FS_AddElement DEF CountInv
<1>3. Touched' = Touched
  BY <1>1 DEF Touched
<1>4. Len(lh') + outstanding' * MAXOPBLOCKS <= LOGSIZE + Cardinality(Touched')
  BY <1>1, <1>3, TouchedFinite, Logs, Sizes, Times
<1> QED
  BY <1>1, <1>2, <1>3, <1>4 DEF CountInv

\* ... it takes one block at a time, unless the log has it already; ...
LEMMA CountWrite ==
  ASSUME TypeOK, PhaseInv, CountInv,
         NEW p \in Proc, NEW b \in Block, NEW v \in Value, LogWrite(p, b, v)
  PROVE  CountInv'
<1>1. /\ p \in Calls /\ Calls' = Calls /\ UNCHANGED <<outstanding, hdr>>
      /\ wrote' = [wrote EXCEPT ![p] = wrote[p] \cup {b}]
      /\ Cardinality(wrote[p] \cup {b}) <= OpBlocks
  BY DEF LogWrite, Calls, disk
<1>2. Touched' = Touched \cup {b}
  BY <1>1 DEF Touched, Calls, TypeOK
<1>3. \A q \in Proc : IsFiniteSet(wrote'[q]) /\ Cardinality(wrote'[q]) <= OpBlocks
  BY <1>1, FS_AddElement DEF CountInv, TypeOK
<1>4. /\ Touched' \subseteq Blocks(lh')
      /\ Len(lh') = IF b \in Blocks(lh) THEN Len(lh) ELSE Len(lh) + 1
  BY <1>2, LogWriteLog DEF CountInv
<1>5. Cardinality(Touched') = IF b \in Touched THEN Cardinality(Touched) ELSE Cardinality(Touched) + 1
  BY <1>2, TouchedFinite, FS_AddElement
<1>6. b \in Touched => b \in Blocks(lh)
  BY DEF CountInv
<1>7. Len(lh) + outstanding * MAXOPBLOCKS <= LOGSIZE + Cardinality(Touched)
  BY DEF CountInv
<1>8. outstanding * MAXOPBLOCKS \in Nat
  BY TouchedFinite, Sizes, Times
<1>9. Len(lh') + outstanding' * MAXOPBLOCKS <= LOGSIZE + Cardinality(Touched')
  BY <1>1, <1>4, <1>5, <1>6, <1>7, <1>8, TouchedFinite, Logs, Sizes, SMTT(30)
<1> QED
  BY <1>1, <1>3, <1>4, <1>9 DEF CountInv

\* ... and when it ends it gives back at least what it has taken.
LEMMA CountEnd ==
  ASSUME TypeOK, CountInv, NEW p \in Calls,
         Calls' = Calls \ {p}, outstanding' = outstanding - 1, UNCHANGED <<wrote, lh, hdr>>
  PROVE  CountInv'
<1>1. outstanding' = Cardinality(Calls') /\ outstanding' \in Nat
  <2>1. Cardinality(Calls') = Cardinality(Calls) - 1 /\ IsFiniteSet(Calls')
    BY CallsFinite, FS_RemoveElement
  <2> QED
    BY <2>1, FS_CardinalityType DEF CountInv
<1>2. Touched = Touched' \cup wrote[p] /\ Touched' \subseteq Touched
  BY DEF Touched
<1>3. /\ IsFiniteSet(Touched') /\ Cardinality(Touched') \in Nat
      /\ IsFiniteSet(wrote[p]) /\ Cardinality(wrote[p]) \in Nat
      /\ Cardinality(wrote[p]) <= OpBlocks
  BY <1>2, TouchedFinite, FS_Subset, FS_CardinalityType DEF CountInv, Calls
<1>4. Cardinality(Touched) <= Cardinality(Touched') + Cardinality(wrote[p])
  <2>1. Cardinality(Touched' \cap wrote[p]) \in Nat
    BY <1>3, FS_Intersection, FS_CardinalityType
  <2>2. Cardinality(Touched)
          = Cardinality(Touched') + Cardinality(wrote[p]) - Cardinality(Touched' \cap wrote[p])
    BY <1>2, <1>3, FS_Union
  <2> QED
    BY <1>3, <2>1, <2>2
<1>5. outstanding * MAXOPBLOCKS = outstanding' * MAXOPBLOCKS + MAXOPBLOCKS
      /\ outstanding' * MAXOPBLOCKS \in Nat
  <2>1. outstanding = outstanding' + 1
    BY TouchedFinite
  <2> QED
    BY <1>1, <2>1, Sizes, Times
<1>6. Len(lh) + outstanding * MAXOPBLOCKS <= LOGSIZE + Cardinality(Touched)
  BY DEF CountInv
<1>7. Len(lh') + outstanding' * MAXOPBLOCKS <= LOGSIZE + Cardinality(Touched')
  <2>1. Len(lh') = Len(lh) /\ Len(lh) \in Nat /\ Cardinality(Touched) \in Nat
    BY Logs, TouchedFinite
  <2>2. Cardinality(Touched) <= Cardinality(Touched') + MAXOPBLOCKS
    BY <1>3, <1>4, <2>1, Sizes
  <2> QED
    BY <1>3, <1>5, <1>6, <2>1, <2>2, Sizes, SMTT(30)
<1>8. Touched' \subseteq Blocks(lh')
  BY <1>2 DEF CountInv
<1> QED
  BY <1>1, <1>7, <1>8 DEF CountInv

\* Without a call, a log of any length up to LOGSIZE will do.
LEMMA CountIdle ==
  ASSUME TypeOK, CountInv, Calls = {}, Calls' = {}, outstanding' = 0,
         Len(lh') \in Nat, Len(lh') <= LOGSIZE, Len(hdr') <= LOGSIZE,
         \A q \in Proc : wrote'[q] \in {wrote[q], {}}
  PROVE  CountInv'
<1>1. Touched' = {} /\ Cardinality(Touched') = 0 /\ Cardinality(Calls') = 0
  BY FS_EmptySet DEF Touched
<1>2. ASSUME NEW q \in Proc
      PROVE  IsFiniteSet(wrote'[q]) /\ Cardinality(wrote'[q]) <= OpBlocks
  <2>1. CASE wrote'[q] = {}
    BY <2>1, FS_EmptySet, Sizes
  <2>2. CASE wrote'[q] = wrote[q]
    BY <2>2 DEF CountInv
  <2> QED
    BY <2>1, <2>2
<1>3. Len(lh') + outstanding' * MAXOPBLOCKS <= LOGSIZE + Cardinality(Touched')
  BY <1>1, Sizes
<1> QED
  BY <1>1, <1>2, <1>3 DEF CountInv

LEMMA CountStep == ASSUME TypeOK, PhaseInv, CountInv, [Next]_vars PROVE CountInv'
<1>1. ASSUME NEW p \in Proc, Call(p) PROVE CountInv'
  <2>1. /\ Calls' = Calls /\ UNCHANGED <<lh, hdr, outstanding>>
        /\ \A q \in Proc : wrote'[q] = IF q = p THEN {} ELSE wrote[q]
        /\ p \notin Calls
    BY <1>1 DEF Call, Calls, TypeOK, disk, log
  <2>2. Touched' = Touched
    BY <2>1 DEF Touched, Calls
  <2>3. ASSUME NEW q \in Proc
        PROVE  IsFiniteSet(wrote'[q]) /\ Cardinality(wrote'[q]) <= OpBlocks
    BY <2>1, FS_EmptySet, Sizes DEF CountInv
  <2> QED
    BY <2>1, <2>2, <2>3 DEF CountInv
<1>2. ASSUME NEW p \in Proc, BeginOp(p) PROVE CountInv'
  BY <1>2, CountBegin
<1>3. ASSUME NEW p \in Proc, BeginOpSleep(p) PROVE CountInv'
  <2>1. Calls' = Calls /\ UNCHANGED <<lh, hdr, outstanding, wrote>>
    BY <1>3 DEF BeginOpSleep, Calls, TypeOK, disk, log
  <2> QED
    BY <2>1 DEF CountInv, Touched
<1>4. ASSUME NEW p \in Proc, NEW b \in Block, NEW v \in Value, LogWrite(p, b, v)
      PROVE  CountInv'
  BY <1>4, CountWrite
<1>5. ASSUME NEW p \in Proc, EndOp(p) PROVE CountInv'
  <2>1. p \in Calls /\ Calls' = Calls \ {p}
    BY <1>5 DEF EndOp, Wakeup, Calls
  <2> QED
    BY <1>5, <2>1, CountEnd DEF EndOp, disk
<1>6. ASSUME NEW p \in Proc, EndOpLast(p) PROVE CountInv'
  <2>1. p \in Calls /\ Calls' = Calls \ {p}
    BY <1>6 DEF EndOpLast, Calls, TypeOK
  <2> QED
    BY <1>6, <2>1, CountEnd DEF EndOpLast, disk
<1>7. ASSUME NEW p \in Proc, Committed(p) PROVE CountInv'
  <2>1. Calls' = Calls /\ UNCHANGED <<lh, hdr, outstanding, wrote>>
    BY <1>7 DEF Committed, Wakeup, Calls, disk
  <2> QED
    BY <2>1 DEF CountInv, Touched
<1>8. CASE WriteLog \/ Install
  <2>1. Calls' = Calls /\ UNCHANGED <<lh, hdr, outstanding, wrote>>
    BY <1>8 DEF WriteLog, Install, Calls, log
  <2> QED
    BY <2>1 DEF CountInv, Touched
<1>9. CASE WriteHead \/ Clear \/ ReadHead
  <2>1. /\ Calls = {} /\ Calls' = {} /\ UNCHANGED <<outstanding, wrote>>
        /\ lh' \in {lh, hdr, <<>>} /\ hdr' \in {lh, hdr, <<>>}
    BY <1>9 DEF WriteHead, Clear, ReadHead, PhaseInv, Calls, log, disk
  <2>2. outstanding = 0
    BY <2>1, FS_EmptySet DEF CountInv
  <2>3. Len(lh') \in Nat /\ Len(lh') <= LOGSIZE /\ Len(hdr') <= LOGSIZE
    BY <2>1, Room, Logs, Sizes DEF CountInv
  <2> QED
    BY <2>1, <2>2, <2>3, CountIdle
<1>10. CASE Crash
  <2>1. /\ Calls' = {} /\ outstanding' = 0 /\ lh' = <<>> /\ hdr' = hdr
        /\ wrote' = [q \in Proc |-> {}]
    BY <1>10 DEF Crash, Calls
  <2>2. Touched' = {} /\ Cardinality(Touched') = 0 /\ Cardinality(Calls') = 0
    BY <2>1, FS_EmptySet DEF Touched
  <2>3. \A q \in Proc : IsFiniteSet(wrote'[q]) /\ Cardinality(wrote'[q]) <= OpBlocks
    BY <2>1, FS_EmptySet, Sizes
  <2>4. Len(lh') + outstanding' * MAXOPBLOCKS <= LOGSIZE + Cardinality(Touched')
    BY <2>1, <2>2, Sizes
  <2> QED
    BY <2>1, <2>2, <2>3, <2>4 DEF CountInv
<1>11. CASE UNCHANGED vars
  BY <1>11 DEF CountInv, Touched, Calls, vars, disk, log
<1> QED
  BY <1>1, <1>2, <1>3, <1>4, <1>5, <1>6, <1>7, <1>8, <1>9, <1>10, <1>11 DEF Next

-----------------------------------------------------------------------------
LEMMA TypeStep == ASSUME TypeOK, PhaseInv, DataInv, CountInv, CountInv', [Next]_vars PROVE TypeOK'
<1>1. outstanding' \in 0 .. Cardinality(Proc)
  <2>1. Calls' \subseteq Proc
    BY DEF Calls
  <2> QED
    BY <2>1, LogAssumption, FS_Subset, FS_CardinalityType DEF CountInv
<1>2. ASSUME NEW p \in Proc, Call(p) PROVE TypeOK'
  BY <1>2 DEF TypeOK, Call, disk, log, PcLabel
<1>3. ASSUME NEW p \in Proc, BeginOp(p) PROVE TypeOK'
  BY <1>1, <1>3 DEF TypeOK, BeginOp, disk, PcLabel
<1>4. ASSUME NEW p \in Proc, BeginOpSleep(p) PROVE TypeOK'
  BY <1>4 DEF TypeOK, BeginOpSleep, disk, log, PcLabel
<1>5. ASSUME NEW p \in Proc, NEW b \in Block, NEW v \in Value, LogWrite(p, b, v)
      PROVE  TypeOK'
  <2>1. p \in Calls
    BY <1>5 DEF LogWrite, Calls
  <2>2. Len(lh') < NLOG
    BY <1>5, <2>1, LogWriteLog, Room, Logs, Sizes
  <2>3. buf' \in [Block -> Content] /\ pinned' \in SUBSET Block /\ wrote' \in [Proc -> SUBSET Block]
    BY <1>5 DEF TypeOK, LogWrite, Content
  <2>4. \A s \in {hdr', lh'} : /\ s \in Seq(Block) /\ Len(s) < NLOG
                               /\ \A i, j \in DOMAIN s : s[i] = s[j] => i = j
    BY <1>5, <2>2, LogWriteLog, Logs DEF LogWrite, disk
  <2> QED
    BY <1>5, <2>3, <2>4 DEF TypeOK, LogWrite, disk
<1>6. ASSUME NEW p \in Proc, EndOp(p) PROVE TypeOK'
  BY <1>1, <1>6 DEF TypeOK, EndOp, Wakeup, disk, PcLabel
<1>7. ASSUME NEW p \in Proc, EndOpLast(p) PROVE TypeOK'
  <2>1. 1 \in 1 .. NLOG
    BY Sizes
  <2> QED
    BY <1>1, <1>7, <2>1 DEF TypeOK, EndOpLast, disk, PcLabel, Phase
<1>8. ASSUME NEW p \in Proc, Committed(p) PROVE TypeOK'
  BY <1>8 DEF TypeOK, Committed, Wakeup, disk, PcLabel, Phase
<1>9. CASE WriteLog
  <2>1. tail \in DOMAIN lh /\ tail' \in 1 .. NLOG /\ lh[tail] \in Block
    BY <1>9, Logs, Sizes DEF TypeOK, WriteLog
  <2>2. \A v \in Bread(lh[tail]) : v \in Content
    BY <2>1 DEF Bread, TypeOK
  <2>3. PICK v \in Bread(lh[tail]) : /\ dlog' = [dlog EXCEPT ![tail] = v]
                                    /\ buf' = [buf EXCEPT ![lh[tail]] = v]
    BY <1>9 DEF WriteLog
  <2>4. dlog' \in [1 .. NLOG - 1 -> Content] /\ buf' \in [Block -> Content]
    BY <2>1, <2>2, <2>3 DEF TypeOK
  <2> QED
    BY <1>9, <2>1, <2>4 DEF TypeOK, WriteLog, log
<1>10. CASE WriteHead
  <2>1. 1 \in 1 .. NLOG
    BY Sizes
  <2> QED
    BY <1>10, <2>1 DEF TypeOK, WriteHead, log, Phase
<1>11. CASE Install
  <2>1. /\ tail \in DOMAIN lh /\ tail' \in 1 .. NLOG /\ lh[tail] \in Block
        /\ tail \in 1 .. NLOG - 1
    BY <1>11, Logs, Sizes DEF TypeOK, Install
  <2>2. dlog[tail] \in Content
    BY <2>1 DEF TypeOK
  <2>3. home' \in [Block -> Content] /\ buf' \in [Block -> Content] /\ pinned' \in SUBSET Block
    BY <1>11, <2>2 DEF Install, TypeOK
  <2> QED
    BY <1>11, <2>1, <2>3 DEF TypeOK, Install, log
<1>12. CASE Clear
  <2>1. \A s \in {hdr', lh'} : /\ s \in Seq(Block) /\ Len(s) < NLOG
                               /\ \A i, j \in DOMAIN s : s[i] = s[j] => i = j
    BY <1>12, EmptyLog DEF Clear
  <2> QED
    BY <1>12, <2>1 DEF TypeOK, Clear, Phase
<1>13. CASE ReadHead
  <2>1. 1 \in 1 .. NLOG
    BY Sizes
  <2> QED
    BY <1>13, <2>1 DEF TypeOK, ReadHead, disk, Phase
<1>14. CASE Crash
  <2>1. home' \in [Block -> Content] /\ dlog' \in [1 .. NLOG - 1 -> Content]
    BY <1>14 DEF Crash, TypeOK, Content
  <2>2. \A s \in {hdr', lh'} : /\ s \in Seq(Block) /\ Len(s) < NLOG
                               /\ \A i, j \in DOMAIN s : s[i] = s[j] => i = j
    BY <1>14, EmptyLog, Logs DEF Crash
  <2>3. 1 \in 1 .. NLOG
    BY Sizes
  <2> QED
    BY <1>1, <1>14, <2>1, <2>2, <2>3 DEF TypeOK, Crash, Phase, PcLabel
<1>15. CASE UNCHANGED vars
  BY <1>15 DEF TypeOK, vars, disk, log
<1> QED
  BY <1>2, <1>3, <1>4, <1>5, <1>6, <1>7, <1>8, <1>9, <1>10, <1>11, <1>12, <1>13, <1>14,
     <1>15 DEF Next

-----------------------------------------------------------------------------
(* Nobody sleeps for ever                                                  *)

LEMMA AsleepStep ==
  ASSUME TypeOK, PhaseInv, CountInv, CountInv', SleepersWoken, [Next]_vars PROVE SleepersWoken'
<1>1. ASSUME NEW p \in Proc, Call(p) PROVE SleepersWoken'
  BY <1>1 DEF SleepersWoken, Call, TypeOK, log
<1>2. ASSUME NEW p \in Proc, BeginOp(p) PROVE SleepersWoken'
  BY <1>2, TouchedFinite DEF SleepersWoken, BeginOp
<1>3. ASSUME NEW p \in Proc, BeginOpSleep(p) PROVE SleepersWoken'
  <2>1. CASE committing
    BY <1>3, <2>1 DEF SleepersWoken, BeginOpSleep, log
  <2>2. CASE ~committing
    <3>1. phase = "run"
      <4>1. phase \notin {"write_log", "install", "committed"}
        BY <2>2 DEF PhaseInv
      <4>2. Up /\ phase \in Phase
        BY <1>3 DEF BeginOpSleep, TypeOK
      <4> QED
        BY <4>1, <4>2 DEF Up, Phase
    <3>2. Calls # {}
      <4>1. SUFFICES ASSUME Calls = {} PROVE FALSE
        OBVIOUS
      <4>2. lh = <<>> /\ outstanding = 0
        BY <3>1, <4>1, FS_EmptySet DEF PhaseInv, CountInv
      <4>3. Space
        BY <4>2, Sizes DEF Space
      <4> QED
        BY <1>3, <2>2, <4>3 DEF BeginOpSleep
    <3>3. outstanding > 0
      BY <3>2, TouchedFinite, CallsFinite, FS_EmptySet DEF CountInv
    <3> QED
      BY <1>3, <3>3 DEF SleepersWoken, BeginOpSleep, log
  <2> QED
    BY <2>1, <2>2
<1>4. ASSUME NEW p \in Proc, NEW b \in Block, NEW v \in Value, LogWrite(p, b, v)
      PROVE  SleepersWoken'
  BY <1>4 DEF SleepersWoken, LogWrite
<1>5. ASSUME NEW p \in Proc, EndOp(p) PROVE SleepersWoken'
  BY <1>5 DEF SleepersWoken, EndOp, Wakeup
<1>6. ASSUME NEW p \in Proc, EndOpLast(p) PROVE SleepersWoken'
  BY <1>6 DEF SleepersWoken, EndOpLast
<1>7. ASSUME NEW p \in Proc, Committed(p) PROVE SleepersWoken'
  BY <1>7 DEF SleepersWoken, Committed, Wakeup
<1>8. CASE WriteLog \/ WriteHead \/ Install \/ Clear \/ ReadHead
  BY <1>8 DEF SleepersWoken, WriteLog, WriteHead, Install, Clear, ReadHead, log
<1>9. CASE Crash
  BY <1>9 DEF SleepersWoken, Crash
<1>10. CASE UNCHANGED vars
  BY <1>10 DEF SleepersWoken, vars, log
<1> QED
  BY <1>1, <1>2, <1>3, <1>4, <1>5, <1>6, <1>7, <1>8, <1>9, <1>10 DEF Next

-----------------------------------------------------------------------------
(* The invariant                                                           *)

LEMMA InitInv == Init => IInv
<1> SUFFICES ASSUME Init PROVE IInv
  OBVIOUS
<1>1. Calls = {} /\ Touched = {} /\ Cardinality(Calls) = 0 /\ Cardinality(Touched) = 0
  BY FS_EmptySet DEF Init, Calls, Touched
<1>2. TypeOK
  <2>1. \A s \in {hdr, lh} : /\ s \in Seq(Block) /\ Len(s) < NLOG
                             /\ \A i, j \in DOMAIN s : s[i] = s[j] => i = j
    BY EmptyLog DEF Init
  <2>2. home \in [Block -> Content] /\ buf \in [Block -> Content]
        /\ dlog \in [1 .. NLOG - 1 -> Content]
    BY DEF Init, Content
  <2>3. 1 \in 1 .. NLOG /\ outstanding \in 0 .. Cardinality(Proc)
    BY LogAssumption, FS_CardinalityType DEF Init
  <2> QED
    BY <2>1, <2>2, <2>3 DEF Init, TypeOK, Phase, PcLabel
<1>3. PhaseInv
  BY <1>1 DEF Init, PhaseInv, Up
<1>4. DataInv
  BY DEF Init, DataInv
<1>5. CountInv
  BY <1>1, FS_EmptySet, Sizes DEF Init, CountInv
<1>6. SleepersWoken
  BY DEF Init, SleepersWoken
<1> QED
  BY <1>2, <1>3, <1>4, <1>5, <1>6 DEF IInv

LEMMA NextInv == IInv /\ [Next]_vars => IInv'
<1> SUFFICES ASSUME IInv, [Next]_vars PROVE IInv'
  OBVIOUS
<1>1. CountInv'
  BY CountStep DEF IInv
<1> QED
  BY <1>1, TypeStep, PhaseStep, DataStep, AsleepStep DEF IInv

LEMMA Invariance == Spec => []IInv
  BY InitInv, NextInv, PTL DEF Spec

\* The types, and the absorption of log_write(): no block is in the log twice.
THEOREM TypeCorrect == Spec => []TypeOK
<1>1. IInv => TypeOK
  BY DEF IInv
<1> QED
  BY <1>1, Invariance, PTL

\* The reservation of begin_op() is enough: log_write() never finds the log full,
\* whatever the calls write and in whatever order they end.
THEOREM LogNeverFull == Spec => []Reserved
<1>1. ASSUME IInv PROVE Reserved
  <2>1. Calls # {} => Len(lh) < LOGSIZE /\ Len(lh) < NLOG - 1
    BY <1>1, Room DEF IInv
  <2> QED
    BY <1>1, <2>1 DEF IInv, CountInv, Reserved, Calls, Touched
<1> QED
  BY <1>1, Invariance, PTL

\* end_op() wakes up whoever begin_op() has put to sleep, and nobody goes to sleep
\* when nothing is left to wake it up.
THEOREM NobodyForgotten == Spec => []SleepersWoken
<1>1. IInv => SleepersWoken
  BY DEF IInv
<1> QED
  BY <1>1, Invariance, PTL

-----------------------------------------------------------------------------
(* Atomic transactions                                                     *)

\* What a crash leaves of a block.
Recovers(b) ==
  /\ \A i \in DOMAIN hdr : hdr[i] = b => Recovered[b] = dlog[i]
  /\ b \notin Blocks(hdr) => Recovered[b] = home[b]

LEMMA RecoveredBlock == TypeOK => \A b \in Block : Recovers(b)
<1> SUFFICES ASSUME TypeOK, NEW b \in Block PROVE Recovers(b)
  OBVIOUS
<1>1. ASSUME NEW i \in DOMAIN hdr, hdr[i] = b PROVE Recovered[b] = dlog[i]
  <2> DEFINE j == CHOOSE k \in DOMAIN hdr : hdr[k] = b
  <2>1. j \in DOMAIN hdr /\ hdr[j] = b
    BY <1>1
  <2>2. j = i
    BY <1>1, <2>1, Logs
  <2> QED
    BY <1>1, <2>2 DEF Recovered
<1>2. b \notin Blocks(hdr) => Recovered[b] = home[b]
  BY DEF Blocks, Recovered
<1> QED
  BY <1>1, <1>2 DEF Recovers

\* What is read of a block.
Reads(b) ==
  Current[b] = IF ~Up THEN Recovered[b] ELSE IF b \in pinned THEN buf[b] ELSE home[b]

\* The two views of the disk, block by block.
View ==
  /\ Recovered = [b \in Block |-> Recovered[b]] /\ Current = [b \in Block |-> Current[b]]
  /\ \A b \in Block : Recovers(b) /\ Reads(b)

LEMMA ViewHolds == TypeOK => View
<1> SUFFICES ASSUME TypeOK PROVE View
  OBVIOUS
<1>1. Recovered = [b \in Block |-> Recovered[b]] /\ Current = [b \in Block |-> Current[b]]
  BY DEF Recovered, Current
<1>2. \A b \in Block : Reads(b)
  BY DEF Reads, Current
<1> QED
  BY <1>1, <1>2, RecoveredBlock DEF View

\* A write to the log on disk that the header does not name, or to a block that it
\* does name, is lost in a crash or made up for by recovery.
LEMMA DurableStays ==
  ASSUME View, View', hdr' = hdr,
         \A i \in DOMAIN hdr : dlog'[i] = dlog[i],
         \A b \in Block \ Blocks(hdr) : home'[b] = home[b]
  PROVE  Recovered' = Recovered
<1>1. ASSUME NEW b \in Block PROVE Recovered'[b] = Recovered[b]
  <2>1. CASE b \in Blocks(hdr)
    BY <2>1 DEF View, Recovers, Blocks
  <2>2. CASE b \notin Blocks(hdr)
    BY <2>2 DEF View, Recovers, Blocks
  <2> QED
    BY <2>1, <2>2
<1> QED
  BY <1>1 DEF View

LEMMA CurrentStays ==
  ASSUME View, View', \A b \in Block : Current'[b] = Current[b]
  PROVE  Current' = Current
  BY DEF View

LEMMA Refines ==
  ASSUME IInv, IInv', View, View', [Next]_vars
  PROVE  [Atomic!Next]_(Atomic!vars)
<1>1. ASSUME NEW p \in Proc, Call(p) \/ BeginOpSleep(p) \/ Committed(p)
      PROVE  UNCHANGED Atomic!vars
  <2>1. Up /\ Up' /\ UNCHANGED <<disk, buf, pinned>> /\ Calls' = Calls
    BY <1>1 DEF Call, BeginOpSleep, Committed, Wakeup, Up, Calls, IInv, TypeOK
  <2>2. Recovered' = Recovered
    BY <2>1, DurableStays DEF disk
  <2>3. Current' = Current
    BY <2>1, CurrentStays DEF View, Reads, disk
  <2> QED
    BY <2>1, <2>2, <2>3 DEF Atomic!vars, Calls
<1>2. ASSUME NEW p \in Proc, BeginOp(p) PROVE Atomic!Begin(p)
  <2>1. Up /\ Up' /\ UNCHANGED <<disk, buf, pinned>> /\ Calls' = Calls \cup {p} /\ p \notin Calls
    BY <1>2 DEF BeginOp, Up, Calls, IInv, TypeOK
  <2>2. Recovered' = Recovered
    BY <2>1, DurableStays DEF disk
  <2>3. Current' = Current
    BY <2>1, CurrentStays DEF View, Reads, disk
  <2> QED
    BY <2>1, <2>2, <2>3 DEF Atomic!Begin, Calls
<1>3. ASSUME NEW p \in Proc, NEW b \in Block, NEW v \in Value, LogWrite(p, b, v)
      PROVE  Atomic!Write(p, b, v)
  <2>1. /\ Up /\ Up' /\ UNCHANGED disk /\ Calls' = Calls /\ p \in Calls
        /\ buf' = [buf EXCEPT ![b] = v] /\ pinned' = pinned \cup {b}
    BY <1>3 DEF LogWrite, Up, Calls
  <2>2. Recovered' = Recovered
    BY <2>1, DurableStays DEF disk
  <2>3. ASSUME NEW c \in Block PROVE Current'[c] = IF c = b THEN v ELSE Current[c]
    BY <2>1 DEF View, Reads, disk, IInv, TypeOK
  <2>4. Current' = [Current EXCEPT ![b] = v]
    BY <2>3 DEF View
  <2> QED
    BY <2>1, <2>2, <2>4 DEF Atomic!Write, Calls
<1>4. ASSUME NEW p \in Proc, EndOp(p) \/ EndOpLast(p) PROVE Atomic!End(p)
  <2>1. Up /\ Up' /\ UNCHANGED <<disk, buf, pinned>> /\ Calls' = Calls \ {p} /\ p \in Calls
    BY <1>4 DEF EndOp, EndOpLast, Wakeup, Up, Calls, IInv, TypeOK
  <2>2. Recovered' = Recovered
    BY <2>1, DurableStays DEF disk
  <2>3. Current' = Current
    BY <2>1, CurrentStays DEF View, Reads, disk
  <2> QED
    BY <2>1, <2>2, <2>3 DEF Atomic!End, Calls
<1>5. CASE WriteLog
  <2>1. /\ Up /\ Up' /\ UNCHANGED <<home, hdr, pinned, pc>> /\ hdr = <<>>
        /\ tail \in DOMAIN lh /\ lh[tail] \in pinned
    BY <1>5, Logs DEF WriteLog, Up, IInv, PhaseInv, DataInv, Blocks, TypeOK
  <2>2. buf' = buf
    BY <1>5, <2>1, Logs DEF WriteLog, Bread, IInv, TypeOK
  <2>3. Recovered' = Recovered
    BY <2>1, DurableStays
  <2>4. Current' = Current
    BY <2>1, <2>2, CurrentStays DEF View, Reads
  <2> QED
    BY <2>1, <2>3, <2>4 DEF Atomic!vars
<1>6. CASE WriteHead
  <2>1. /\ Up /\ Up' /\ UNCHANGED <<home, dlog, buf, pinned, pc>> /\ hdr' = lh /\ hdr = <<>>
        /\ pinned = Blocks(lh) /\ Calls = {}
        /\ \A i \in DOMAIN lh : i < tail /\ dlog[i] = buf[lh[i]]
    <3>1. \A i \in DOMAIN lh : i < tail
      BY <1>6, Logs DEF WriteHead, IInv, TypeOK
    <3>2. phase = "write_log" /\ phase' = "install" /\ hdr' = lh
      BY <1>6 DEF WriteHead
    <3>3. UNCHANGED <<home, dlog, buf, pinned, pc>>
      BY <1>6 DEF WriteHead, log
    <3>4. hdr = <<>> /\ Calls = {} /\ pinned = Blocks(lh)
      BY <3>2 DEF IInv, PhaseInv, DataInv
    <3>5. \A i \in DOMAIN lh : i < tail => dlog[i] = buf[lh[i]]
      BY <3>2 DEF IInv, DataInv
    <3> QED
      BY <3>1, <3>2, <3>3, <3>4, <3>5 DEF Up
  <2>2. Current' = Current
    BY <2>1, CurrentStays DEF View, Reads
  <2>3. ASSUME NEW b \in Block PROVE Recovered'[b] = Current[b]
    <3>1. CASE b \in Blocks(lh)
      BY <2>1, <3>1 DEF View, Recovers, Reads, Blocks
    <3>2. CASE b \notin Blocks(lh)
      BY <2>1, <3>2 DEF View, Recovers, Reads, Blocks
    <3> QED
      BY <3>1, <3>2
  <2>4. Recovered' = Current
    BY <2>3 DEF View
  <2> QED
    <3>1. {p \in Proc : pc[p] = "in"} = {} /\ pc' = pc
      BY <2>1 DEF Calls
    <3> QED
      BY <2>2, <2>4, <3>1 DEF Atomic!Commit, Atomic!Next
<1>7. CASE Install
  <2>1. /\ tail \in DOMAIN lh /\ hdr = lh /\ UNCHANGED <<dlog, hdr, pc, phase>> /\ lh[tail] \in Block
        /\ home' = [home EXCEPT ![lh[tail]] = dlog[tail]]
        /\ buf' = [buf EXCEPT ![lh[tail]] = dlog[tail]]
        /\ phase \in {"install", "recover"}
        /\ phase = "install" => pinned' = pinned \ {lh[tail]}
    BY <1>7, Logs DEF Install, IInv, PhaseInv, TypeOK
  <2>2. Recovered' = Recovered
    BY <2>1, DurableStays DEF Blocks, IInv, TypeOK
  <2>3. phase = "install" => lh[tail] \in pinned /\ dlog[tail] = buf[lh[tail]]
    BY <2>1, Logs DEF IInv, DataInv
  <2>4. ASSUME NEW b \in Block PROVE Current'[b] = Current[b]
    <3>1. CASE phase = "recover"
      BY <2>1, <2>2, <3>1 DEF View, Reads, Up
    <3>2. CASE phase = "install" /\ b = lh[tail]
      BY <2>1, <2>3, <3>2 DEF View, Reads, Up, IInv, TypeOK
    <3>3. CASE phase = "install" /\ b # lh[tail]
      BY <2>1, <3>3 DEF View, Reads, Up, IInv, TypeOK
    <3> QED
      BY <2>1, <3>1, <3>2, <3>3
  <2> QED
    BY <2>1, <2>2, <2>4, CurrentStays DEF Atomic!vars
<1>8. CASE Clear
  <2>1. /\ UNCHANGED <<home, dlog, buf, pinned, pc>> /\ hdr' = <<>> /\ hdr = lh
        /\ phase \in {"install", "recover"} /\ Up' /\ pinned = {}
        /\ \A i \in DOMAIN hdr : home[hdr[i]] = dlog[i]
    <3>1. \A i \in DOMAIN lh : i < tail
      BY <1>8, Logs DEF Clear, IInv, TypeOK
    <3>2. tail .. Len(lh) = {}
      BY <1>8, Logs DEF Clear, IInv, TypeOK
    <3> QED
      BY <1>8, <3>1, <3>2 DEF Clear, Up, IInv, PhaseInv, DataInv
  <2>2. ASSUME NEW b \in Block PROVE Recovered'[b] = home[b] /\ Recovered[b] = home[b]
    <3>1. CASE b \in Blocks(hdr)
      BY <2>1, <3>1 DEF View, Recovers, Blocks
    <3>2. CASE b \notin Blocks(hdr)
      BY <2>1, <3>2 DEF View, Recovers, Blocks
    <3> QED
      BY <3>1, <3>2
  <2>3. Recovered' = Recovered
    BY <2>2 DEF View
  <2>4. Current' = Current
    BY <2>1, <2>2, CurrentStays DEF View, Reads
  <2> QED
    BY <2>1, <2>3, <2>4 DEF Atomic!vars
<1>9. CASE ReadHead
  <2>1. ~Up /\ ~Up' /\ UNCHANGED <<home, dlog, hdr, pc>>
    BY <1>9 DEF ReadHead, Up, disk
  <2>2. Recovered' = Recovered
    BY <2>1, DurableStays
  <2>3. Current' = Current
    BY <2>1, <2>2, CurrentStays DEF View, Reads
  <2> QED
    BY <2>1, <2>2, <2>3 DEF Atomic!vars
<1>10. CASE Crash
  <2>1. ~Up' /\ hdr' = hdr /\ Calls' = {}
    BY <1>10 DEF Crash, Up, Calls
  <2>2. PICK S \in SUBSET TornHome, T \in SUBSET TornLog :
          /\ home' = [b \in Block |-> IF b \in S THEN Torn ELSE home[b]]
          /\ dlog' = [i \in DOMAIN dlog |-> IF i \in T THEN Torn ELSE dlog[i]]
    BY <1>10 DEF Crash
  <2>3. \A b \in Block \ Blocks(hdr) : home'[b] = home[b]
    BY <2>2, Logs DEF TornHome, Blocks, IInv, PhaseInv, TypeOK
  <2>4. \A i \in DOMAIN hdr : dlog'[i] = dlog[i]
    <3>1. DOMAIN hdr \subseteq DOMAIN dlog
      BY Logs, Sizes DEF IInv, TypeOK
    <3>2. T # {} => hdr = <<>>
      BY <2>2 DEF TornLog, IInv, PhaseInv
    <3> QED
      BY <2>2, <3>1, <3>2
  <2>5. Recovered' = Recovered
    BY <2>1, <2>3, <2>4, DurableStays
  <2>6. \A b \in Block : Current'[b] = Recovered[b]
    BY <2>1, <2>5 DEF View, Reads
  <2>7. Current' = Recovered
    BY <2>6 DEF View
  <2> QED
    <3>1. {p \in Proc : pc'[p] = "in"} = {}
      BY <2>1 DEF Calls
    <3> QED
      BY <2>5, <2>7, <3>1 DEF Atomic!Crash, Atomic!Next
<1>11. CASE UNCHANGED vars
  <2>1. UNCHANGED <<hdr, home, dlog, buf, pinned, pc, phase>>
    BY <1>11 DEF vars, disk
  <2> QED
    BY <2>1 DEF Atomic!vars, Current, Recovered, Up
<1> QED
  BY <1>1, <1>2, <1>3, <1>4, <1>5, <1>6, <1>7, <1>8, <1>9, <1>10, <1>11 DEF Next, Atomic!Next

LEMMA InitRefines == Init /\ View => Atomic!Init
<1> SUFFICES ASSUME Init, View PROVE Atomic!Init
  OBVIOUS
<1>1. \A b \in Block : Recovered[b] = home[b] /\ Current[b] = Recovered[b]
  BY DEF View, Recovers, Reads, Blocks, Init, Up
<1>2. Recovered = home /\ Current = Recovered
  BY <1>1 DEF View, Init
<1> QED
  BY <1>2 DEF Init, Atomic!Init

\* The log implements atomic transactions: a crash at any moment, in the middle of
\* commit() or of recovery too, keeps what every call has written or none of it.
THEOREM LogIsAtomic == Spec => AtomicSpec
<1>1. Init => Atomic!Init
  BY InitInv, ViewHolds, InitRefines DEF IInv
<1>2. IInv /\ IInv' /\ View /\ View' /\ [Next]_vars => [Atomic!Next]_(Atomic!vars)
  BY Refines
<1>3. IInv => View
  BY ViewHolds DEF IInv
<1> QED
  BY <1>1, <1>2, <1>3, Invariance, PTL DEF Spec, AtomicSpec, Atomic!Spec

-----------------------------------------------------------------------------
(* exec()                                                                  *)

Label == {"idle", "args", "free args", "open", "header", "segment", "uvmalloc", "stack",
          "push", "commit", "bad"}
\* No page table yet, or no longer; one that uvmalloc() fills; the inode is locked.
Outside == {"idle", "args", "free args", "open", "header"}
Growing == {"uvmalloc", "stack"}
Locking == {"header", "segment", "uvmalloc", "bad"}

Tables == [mapped : SUBSET Int, guard : SUBSET Int, tables : SUBSET Int]
CallType == [pc : Label, file : Program \cup {Nobody}, sizes : Seq(Nat), table : Tables,
          has : BOOLEAN, sz : Nat, top : Nat, seg : Nat, sp : Int, argc : Nat]
Images == [table : Tables, sz : Nat]

\* The page that uvmalloc() maps next is n: it has got from sz to somewhere below top.
GrownTo(c, n) ==
  c.table.mapped = 0 .. n - 1 /\ Roundup(c.sz) <= n /\ n <= Roundup(c.top)

\* loadseg() finds the part ph of a program within memory that ends at top.
Fits(ph, top) == ph.filesz <= ph.memsz /\ ph.vaddr % PGSIZE = 0 /\ ph.vaddr + ph.memsz <= top

\* What a call has, at every label: the pages below sz are mapped, no more and no less,
\* except while uvmalloc() is on its way to top.
CallOK(c) ==
  /\ IsFiniteSet(c.table.tables) /\ c.seg > 0 /\ c.argc <= Len(c.sizes)
  /\ c.pc \in Outside => c.has = FALSE /\ c.table = Table /\ c.sz = 0
  /\ c.pc \notin Outside \cup {"bad"} => c.has = TRUE
  /\ c.pc \notin Outside => c.file \in Program
  /\ c.pc = "header" => c.file \in Program
  /\ c.pc \in Growing => c.sz <= c.top /\ \E n \in Nat : GrownTo(c, n)
  /\ c.pc \notin Growing => FreesExactly(c.table, c.sz)
  /\ c.pc = "uvmalloc" => c.seg <= Len(c.file.segs) /\ Fits(c.file.segs[c.seg], c.top)
  /\ c.pc = "stack" => \E k \in Nat : c.sz = k * PGSIZE /\ c.top = (k + 2) * PGSIZE
  /\ c.pc \in {"push", "commit"} => c.table.guard = {Roundup(c.sz) - 2}
  /\ c.pc = "commit" => c.sp >= c.sz - PGSIZE

ImageOK(im) ==
  /\ IsFiniteSet(im.table.tables)
  /\ FreesExactly(im.table, im.sz) /\ im.table.guard = {Roundup(im.sz) - 2}

\* A process has at most the inode of its file locked, and not outside exec().
LockOK(p, c, locks) == \A f \in Program : locks[f] = p => c.file = f /\ c.pc \in Locking

ExecTypeOK ==
  /\ free \in Int /\ panicked = FALSE
  /\ call \in [Caller -> CallType] /\ image \in [Caller -> Images]
  /\ ilocked \in [Program -> Caller \cup {Nobody}]

ExecInv ==
  /\ ExecTypeOK
  /\ \A p \in Caller : CallOK(call[p]) /\ ImageOK(image[p]) /\ LockOK(p, call[p], ilocked)
  /\ free + Cardinality(InUse) = Total

-----------------------------------------------------------------------------
(* Numbers                                                                 *)

LEMMA Numbers ==
  /\ NPAGES \in Nat /\ PGSIZE \in Nat \ {0} /\ LEAF \in Nat \ {0}
  /\ IsFiniteSet(Caller) /\ Nobody \notin Caller
  /\ Program \subseteq [elf : BOOLEAN, segs : Seq(Header)] /\ ArgSizes \subseteq Nat
  BY ExecConstants DEF ExecAssumption

\* Roundup(x) pages are the least number of pages that have room for x.
LEMMA Rounds ==
  ASSUME NEW x \in Nat
  PROVE  /\ Roundup(x) \in Nat
         /\ \A k \in Nat : Roundup(x) <= k <=> x <= k * PGSIZE
<1> DEFINE y == x + PGSIZE - 1
           r == y \div PGSIZE
<1>1. PGSIZE \in Nat \ {0} /\ y \in Nat
  BY Numbers
<1>2. r \in Nat /\ r * PGSIZE <= y /\ y < r * PGSIZE + PGSIZE
  BY <1>1
<1>3. ASSUME NEW k \in Nat PROVE r <= k <=> x <= k * PGSIZE
  <2>1. ASSUME r <= k PROVE x <= k * PGSIZE
    <3>1. r * PGSIZE <= k * PGSIZE
      BY <1>1, <1>2, <2>1
    <3> QED BY <1>1, <1>2, <3>1
  <2>2. ASSUME k < r PROVE x > k * PGSIZE
    <3>1. k * PGSIZE + PGSIZE <= r * PGSIZE
      BY <1>1, <1>2, <2>2
    <3> QED BY <1>1, <1>2, <3>1
  <2> QED BY <1>1, <1>2, <2>1, <2>2
<1> QED BY <1>2, <1>3 DEF Roundup

LEMMA RoundsMonotone ==
  ASSUME NEW x \in Nat, NEW y \in Nat, x <= y
  PROVE  Roundup(x) <= Roundup(y)
<1>1. Roundup(y) \in Nat /\ y <= Roundup(y) * PGSIZE
  BY Rounds
<1>2. Roundup(y) * PGSIZE \in Nat
  BY <1>1, Numbers
<1> QED BY <1>1, <1>2, Rounds

\* A whole number of pages.
LEMMA RoundsExact ==
  ASSUME NEW k \in Nat
  PROVE  k * PGSIZE \in Nat /\ Roundup(k * PGSIZE) = k /\ (k * PGSIZE) \div PGSIZE = k
<1>1. k * PGSIZE \in Nat /\ (k * PGSIZE) \div PGSIZE = k
  BY Numbers
<1>2. Roundup(k * PGSIZE) \in Nat /\ Roundup(k * PGSIZE) <= k
  BY <1>1, Rounds
<1>3. ASSUME Roundup(k * PGSIZE) < k PROVE FALSE
  <2> DEFINE r == Roundup(k * PGSIZE)
  <2>1. k * PGSIZE <= r * PGSIZE
    BY <1>1, <1>2, Rounds
  <2>2. r * PGSIZE + PGSIZE <= k * PGSIZE
    BY <1>2, <1>3, Numbers
  <2>3. r * PGSIZE \in Nat
    BY <1>2, Numbers
  <2> QED BY <1>1, <2>1, <2>2, <2>3, Numbers
<1> QED BY <1>1, <1>2, <1>3

\* loadseg() finds every page that it writes.
LEMMA SegmentMapped ==
  ASSUME NEW ph \in Header, NEW top \in Nat, Fits(ph, top)
  PROVE  {ph.vaddr \div PGSIZE + k : k \in Pages(ph.filesz)} \subseteq Pages(top)
<1> DEFINE v == ph.vaddr
           d == v \div PGSIZE
<1>1. v \in Nat /\ ph.filesz \in Nat /\ ph.memsz \in Nat /\ ph.filesz <= ph.memsz /\ v + ph.memsz <= top
  BY DEF Header, Fits
<1>2. d \in Nat /\ d * PGSIZE = v
  <2>1. v % PGSIZE = 0
    BY DEF Fits
  <2> QED BY <1>1, <2>1, Numbers
<1>3. ASSUME NEW k \in Pages(ph.filesz) PROVE d + k \in Pages(top)
  <2>1. k \in Nat /\ k < Roundup(ph.filesz) /\ Roundup(ph.filesz) \in Nat
    BY <1>1, Rounds DEF Pages
  <2>2. k * PGSIZE < ph.filesz
    <3>1. k * PGSIZE \in Nat
      BY <2>1, Numbers
    <3> QED BY <1>1, <2>1, <3>1, Rounds
  <2>3. d + k \in Nat /\ (d + k) * PGSIZE = v + k * PGSIZE
    BY <1>2, <2>1, Numbers
  <2>4. (d + k) * PGSIZE < top
    BY <1>1, <2>1, <2>2, <2>3, Numbers
  <2>5. d + k < Roundup(top) /\ Roundup(top) \in Nat
    <3>1. (d + k) * PGSIZE \in Nat
      BY <2>3, Numbers
    <3> QED BY <2>3, <2>4, <3>1, Rounds
  <2> QED BY <2>3, <2>5 DEF Pages
<1> QED BY <1>3

-----------------------------------------------------------------------------
(* The pages in use                                                        *)

Held(h) == UNION {{p} \X (1 .. h[p]) : p \in Caller}

LEMMA HeldOfOne ==
  ASSUME NEW p, NEW n \in Nat
  PROVE  IsFiniteSet({p} \X (1 .. n)) /\ Cardinality({p} \X (1 .. n)) = n
<1>1. IsFiniteSet({p}) /\ Cardinality({p}) = 1
  BY FS_Singleton
<1>2. IsFiniteSet(1 .. n) /\ Cardinality(1 .. n) = n
  BY FS_Interval
<1>3. /\ IsFiniteSet({p} \X (1 .. n))
      /\ Cardinality({p} \X (1 .. n)) = Cardinality({p}) * Cardinality(1 .. n)
  BY <1>1, <1>2, FS_Product
<1> QED BY <1>1, <1>2, <1>3

LEMMA HeldFinite ==
  ASSUME NEW h \in [Caller -> Nat]
  PROVE  IsFiniteSet(Held(h))
<1> DEFINE F == [p \in Caller |-> {p} \X (1 .. h[p])]
           T == {{p} \X (1 .. h[p]) : p \in Caller}
<1>1. F \in Surjection(Caller, T)
  BY DEF Surjection
<1>2. IsFiniteSet(T)
  BY <1>1, Numbers, FS_Surjection
<1>3. ASSUME NEW S \in T PROVE IsFiniteSet(S)
  <2>1. PICK p \in Caller : S = {p} \X (1 .. h[p])
    OBVIOUS
  <2>2. h[p] \in Nat
    OBVIOUS
  <2> QED BY <2>1, <2>2, HeldOfOne
<1> QED BY <1>2, <1>3, FS_UNION DEF Held

\* One process gets or gives back some.
LEMMA HeldStep ==
  ASSUME NEW h \in [Caller -> Nat], NEW p \in Caller, NEW n \in Nat
  PROVE  /\ Cardinality(Held(h)) \in Nat
         /\ Cardinality(Held([h EXCEPT ![p] = n])) = Cardinality(Held(h)) - h[p] + n
<1> DEFINE R == {x \in Held(h) : x[1] # p}
           g == [h EXCEPT ![p] = n]
           A == {p} \X (1 .. h[p])
           B == {p} \X (1 .. n)
<1>1. Held(h) = R \cup A /\ R \cap A = {}
  BY DEF Held
<1>2. Held(g) = R \cup B /\ R \cap B = {}
  BY DEF Held
<1>3. IsFiniteSet(Held(h)) /\ IsFiniteSet(R)
  BY HeldFinite, FS_Subset
<1>4. IsFiniteSet(A) /\ Cardinality(A) = h[p] /\ IsFiniteSet(B) /\ Cardinality(B) = n
  BY HeldOfOne
<1> HIDE DEF R, A, B, g
<1>5. Cardinality(Held(h)) = Cardinality(R) + h[p] /\ Cardinality(Held(g)) = Cardinality(R) + n
  <2>1. Cardinality(Held(h)) = Cardinality(R) + Cardinality(A) - Cardinality(R \cap A)
    BY <1>1, <1>3, <1>4, FS_Union
  <2>2. Cardinality(Held(g)) = Cardinality(R) + Cardinality(B) - Cardinality(R \cap B)
    BY <1>2, <1>3, <1>4, FS_Union
  <2>3. Cardinality(R \cap A) = 0 /\ Cardinality(R \cap B) = 0 /\ Cardinality(R) \in Nat
    BY <1>1, <1>2, <1>3, FS_EmptySet, FS_CardinalityType
  <2> QED BY <2>1, <2>2, <2>3, <1>4
<1>6. Cardinality(R) \in Nat /\ h[p] \in Nat
  BY <1>3, FS_CardinalityType
<1> QED BY <1>5, <1>6 DEF g

\* What a process holds that is at c in sys_exec() and has the image im.
Counted(c, im) == Len(c.sizes) + (IF c.has THEN Size(c.table) ELSE 0) + Size(im.table)

LEMMA SizeNat ==
  ASSUME NEW t, IsFiniteSet(t.mapped), IsFiniteSet(t.tables)
  PROVE  Size(t) \in Nat
  BY FS_CardinalityType DEF Size, RootPages

LEMMA PagesOf ==
  ASSUME NEW x \in Nat
  PROVE  /\ Roundup(x) \in Nat /\ Pages(x) = 0 .. Roundup(x) - 1
         /\ IsFiniteSet(Pages(x)) /\ Cardinality(Pages(x)) = Roundup(x)
<1>1. Roundup(x) \in Nat
  BY Rounds
<1>2. IsFiniteSet(0 .. Roundup(x) - 1) /\ Cardinality(0 .. Roundup(x) - 1) = Roundup(x)
  <2>1. 0 \in Int /\ Roundup(x) - 1 \in Int
    BY <1>1
  <2>2. /\ IsFiniteSet(0 .. Roundup(x) - 1)
        /\ Cardinality(0 .. Roundup(x) - 1)
             = IF 0 > Roundup(x) - 1 THEN 0 ELSE (Roundup(x) - 1) - 0 + 1
    BY <2>1, FS_Interval
  <2> QED BY <1>1, <2>2
<1> QED BY <1>1, <1>2 DEF Pages

LEMMA CountedNat ==
  ASSUME NEW c \in CallType, NEW im \in Images, CallOK(c), ImageOK(im)
  PROVE  /\ Counted(c, im) \in Nat /\ Len(c.sizes) \in Nat
         /\ Size(c.table) \in Nat /\ Size(im.table) \in Nat
<1>1. IsFiniteSet(c.table.mapped)
  <2>1. CASE c.pc \in Growing
    <3>1. PICK n \in Nat : c.table.mapped = 0 .. n - 1
      BY <2>1 DEF CallOK, GrownTo
    <3> QED BY <3>1, FS_Interval
  <2>2. CASE c.pc \notin Growing
    BY <2>2, PagesOf DEF CallOK, FreesExactly, CallType
  <2> QED BY <2>1, <2>2
<1>2. IsFiniteSet(im.table.mapped)
  BY PagesOf DEF ImageOK, FreesExactly, Images
<1>3. Size(c.table) \in Nat /\ Size(im.table) \in Nat
  BY <1>1, <1>2, SizeNat DEF CallOK, ImageOK
<1>4. Len(c.sizes) \in Nat /\ c.has \in BOOLEAN
  BY DEF CallType
<1> QED BY <1>3, <1>4 DEF Counted

-----------------------------------------------------------------------------
(* One process                                                             *)

\* Process p goes on to c with the image im, and touches nobody's lock but its own.
Moves(p, c, im) ==
  /\ call' = [call EXCEPT ![p] = c] /\ c \in CallType /\ CallOK(c)
  /\ image' = [image EXCEPT ![p] = im] /\ im \in Images /\ ImageOK(im)
  /\ free' \in Int /\ free' + Counted(c, im) = free + Counted(call[p], image[p])
  /\ panicked' = FALSE
  /\ ilocked' \in [Program -> Caller \cup {Nobody}]
  /\ \A q \in Caller \ {p}, f \in Program : ilocked'[f] = q => ilocked[f] = q
  /\ LockOK(p, c, ilocked')

LEMMA MovesInv ==
  ASSUME ExecInv, NEW p \in Caller, NEW c, NEW im, Moves(p, c, im)
  PROVE  ExecInv'
<1>1. ExecTypeOK'
  BY DEF Moves, ExecTypeOK, ExecInv
<1>2. ASSUME NEW q \in Caller
      PROVE  CallOK(call'[q]) /\ ImageOK(image'[q]) /\ LockOK(q, call'[q], ilocked')
  <2>1. CASE q = p
    <3>1. call'[q] = c /\ image'[q] = im
      BY <2>1 DEF Moves, ExecInv, ExecTypeOK
    <3> QED BY <2>1, <3>1 DEF Moves
  <2>2. CASE q # p
    <3>1. call'[q] = call[q] /\ image'[q] = image[q]
      BY <2>2 DEF Moves, ExecInv, ExecTypeOK
    <3>2. LockOK(q, call[q], ilocked')
      BY <2>2 DEF Moves, ExecInv, LockOK
    <3> QED BY <3>1, <3>2 DEF ExecInv
  <2> QED BY <2>1, <2>2
<1>3. free' + Cardinality(InUse') = Total
  <2> DEFINE h == [q \in Caller |-> Counted(call[q], image[q])]
             n == Counted(c, im)
  <2>1. h \in [Caller -> Nat] /\ n \in Nat
    BY CountedNat DEF ExecInv, ExecTypeOK, Moves
  <2>2. InUse = Held(h)
    BY DEF InUse, Held, Holds, Counted
  <2>3. InUse' = Held([h EXCEPT ![p] = n])
    <3>1. \A q \in Caller : Holds(q)' = [h EXCEPT ![p] = n][q]
      BY DEF Holds, Counted, Moves, ExecInv, ExecTypeOK
    <3> HIDE DEF h, n
    <3> QED BY <3>1 DEF InUse, Held
  <2>4. h[p] = Counted(call[p], image[p])
    OBVIOUS
  <2>5. /\ Cardinality(Held(h)) \in Nat /\ h[p] \in Nat
        /\ Cardinality(Held([h EXCEPT ![p] = n])) = Cardinality(Held(h)) - h[p] + n
    BY <2>1, HeldStep
  <2>6. free' + n = free + h[p] /\ free \in Int /\ free' \in Int /\ free + Cardinality(Held(h)) = Total
    BY <2>2, <2>4 DEF Moves, ExecInv, ExecTypeOK
  <2> HIDE DEF h, n
  <2> QED BY <2>1, <2>3, <2>5, <2>6
<1> QED BY <1>1, <1>2, <1>3 DEF ExecInv

\* Nothing is mapped, and nothing needs to be.
LEMMA Blank ==
  /\ Idle \in CallType /\ CallOK(Idle)
  /\ Idle.pc = "idle" /\ Idle.has = FALSE /\ Idle.sizes = <<>> /\ Idle.table = Table
  /\ Pages(0) = {}
<1>1. Roundup(0) = 0
  <2>1. Roundup(0) \in Nat /\ 0 * PGSIZE = 0
    BY Rounds, Numbers
  <2> QED BY <2>1, Rounds
<1>2. Pages(0) = {}
  BY <1>1 DEF Pages
<1>3. Idle \in CallType
  BY DEF Idle, CallType, Tables, Table, Label
<1>4. CallOK(Idle)
  BY <1>2, FS_EmptySet DEF CallOK, Idle, Table, FreesExactly, Outside, Growing
<1> QED BY <1>2, <1>3, <1>4 DEF Idle

\* What the invariant says of process p.
LEMMA Here ==
  ASSUME ExecInv, NEW p \in Caller
  PROVE  /\ call[p] \in CallType /\ CallOK(call[p]) /\ LockOK(p, call[p], ilocked)
         /\ image[p] \in Images /\ ImageOK(image[p])
         /\ image = [image EXCEPT ![p] = image[p]]
         /\ call \in [Caller -> CallType] /\ image \in [Caller -> Images]
         /\ free \in Int /\ panicked = FALSE
         /\ ilocked \in [Program -> Caller \cup {Nobody}]
         /\ Counted(call[p], image[p]) \in Nat
         /\ call[p].sizes \in Seq(Nat) /\ Len(call[p].sizes) \in Nat
<1>1. /\ call[p] \in CallType /\ CallOK(call[p]) /\ image[p] \in Images /\ ImageOK(image[p])
  BY DEF ExecInv, ExecTypeOK
<1>2. Counted(call[p], image[p]) \in Nat
  BY <1>1, CountedNat
<1>3. call[p].sizes \in Seq(Nat)
  BY <1>1 DEF CallType
<1>4. Len(call[p].sizes) \in Nat
  BY <1>3
<1> QED BY <1>1, <1>2, <1>3, <1>4 DEF ExecInv, ExecTypeOK

LEMMA AppendOne ==
  ASSUME NEW z \in Seq(Nat), NEW x \in Nat
  PROVE  Append(z, x) \in Seq(Nat) /\ Len(Append(z, x)) = Len(z) + 1 /\ Len(z) \in Nat
  OBVIOUS

\* A step of p that leaves the image and the locks alone.
LEMMA MovesCall ==
  ASSUME ExecInv, NEW p \in Caller, NEW c,
         call' = [call EXCEPT ![p] = c], c \in CallType, CallOK(c),
         c.pc \notin Locking => call[p].pc \notin Locking,
         call[p].pc \in Locking => c.file = call[p].file,
         free' \in Int, free' + Counted(c, image[p]) = free + Counted(call[p], image[p]),
         panicked' = FALSE, UNCHANGED <<image, ilocked>>
  PROVE  ExecInv'
<1>1. LockOK(p, c, ilocked')
  BY Here DEF LockOK
<1>2. Moves(p, c, image[p])
  BY <1>1, Here DEF Moves
<1> QED BY <1>2, MovesInv

\* ... and the free pages, too.
LEMMA MovesOn ==
  ASSUME ExecInv, NEW p \in Caller, NEW c,
         call' = [call EXCEPT ![p] = c], c \in CallType, CallOK(c),
         c.pc \notin Locking => call[p].pc \notin Locking,
         call[p].pc \in Locking => c.file = call[p].file,
         c.sizes = call[p].sizes, c.has = call[p].has, c.table.mapped = call[p].table.mapped,
         c.table.tables = call[p].table.tables,
         panicked' = FALSE, UNCHANGED <<free, image, ilocked>>
  PROVE  ExecInv'
<1>1. Counted(c, image[p]) = Counted(call[p], image[p])
  BY DEF Counted, Size
<1> QED BY <1>1, MovesCall, Here

LEMMA StepSysExec ==
  ASSUME ExecInv, NEW p \in Caller, SysExec(p)
  PROVE  ExecInv'
<1> DEFINE c == [call[p] EXCEPT !.pc = "args"]
<1>1. call[p].pc = "idle" /\ call' = [call EXCEPT ![p] = c] /\ UNCHANGED <<free, image, ilocked, panicked>>
  BY DEF SysExec, IsAt, Goto
<1>2. c \in CallType /\ CallOK(c)
  BY <1>1, Here DEF CallType, CallOK, Label, Outside, Growing
<1> QED BY <1>1, <1>2, Here, MovesOn DEF CallType, Locking

LEMMA StepFetched ==
  ASSUME ExecInv, NEW p \in Caller, Fetched(p)
  PROVE  ExecInv'
<1> DEFINE c == [call[p] EXCEPT !.pc = "open"]
<1>1. call[p].pc = "args" /\ call' = [call EXCEPT ![p] = c] /\ UNCHANGED <<free, image, ilocked, panicked>>
  BY DEF Fetched, IsAt, Goto
<1>2. c \in CallType /\ CallOK(c)
  BY <1>1, Here DEF CallType, CallOK, Label, Outside, Growing
<1> QED BY <1>1, <1>2, Here, MovesOn DEF CallType, Locking

LEMMA StepToFree ==
  ASSUME ExecInv, NEW p \in Caller, FetchFails(p) \/ NoFile(p)
  PROVE  ExecInv'
<1> DEFINE c == [call[p] EXCEPT !.pc = "free args"]
<1>1. call[p].pc \in {"args", "open"} /\ call' = [call EXCEPT ![p] = c]
      /\ UNCHANGED <<free, image, ilocked, panicked>>
  BY DEF FetchFails, NoFile, IsAt, Goto
<1>2. c \in CallType /\ CallOK(c)
  BY <1>1, Here DEF CallType, CallOK, Label, Outside, Growing
<1> QED BY <1>1, <1>2, Here, MovesOn DEF CallType, Locking

LEMMA StepFetch ==
  ASSUME ExecInv, NEW p \in Caller, NEW size \in ArgSizes, Fetch(p, size)
  PROVE  ExecInv'
<1> DEFINE l == IF size >= PGSIZE THEN "free args" ELSE "args"
           c == [call[p] EXCEPT !.sizes = Append(@, size), !.pc = l]
<1>1. /\ call[p].pc = "args" /\ call' = [call EXCEPT ![p] = c]
      /\ free' = free - 1 /\ UNCHANGED <<image, ilocked, panicked>>
  BY DEF Fetch, IsAt
<1>2. c \in CallType /\ CallOK(c) /\ c.pc \in {"free args", "args"}
  <2>1. l \in {"free args", "args"} /\ size \in Nat
    BY Numbers
  <2> HIDE DEF l
  <2>2. /\ Append(call[p].sizes, size) \in Seq(Nat)
        /\ Len(Append(call[p].sizes, size)) = Len(call[p].sizes) + 1
    BY <2>1, Here, AppendOne
  <2>3. c \in CallType /\ c.pc = l /\ c.sizes = Append(call[p].sizes, size) /\ c.file = call[p].file
        /\ c.table = call[p].table /\ c.has = call[p].has /\ c.sz = call[p].sz
        /\ c.seg = call[p].seg /\ c.argc = call[p].argc
    BY <2>1, <2>2, Here DEF CallType, Label
  <2>4. call[p].argc \in Nat
    BY Here DEF CallType
  <2>5. call[p].argc <= Len(call[p].sizes) /\ Len(call[p].sizes) \in Nat /\ CallOK(call[p])
    BY Here DEF CallOK
  <2>6. c.argc <= Len(c.sizes)
    BY <2>2, <2>3, <2>4, <2>5
  <2> HIDE DEF c
  <2> QED BY <1>1, <2>1, <2>3, <2>5, <2>6 DEF CallOK, Outside, Growing
<1>3. Counted(c, image[p]) = Counted(call[p], image[p]) + 1
  <2>1. Len(c.sizes) = Len(call[p].sizes) + 1 /\ c.has = FALSE /\ call[p].has = FALSE
    <3>1. call[p].has = FALSE
      BY <1>1, Here DEF CallOK, Outside
    <3>2. c.sizes = Append(call[p].sizes, size) /\ c.has = call[p].has
      BY Here DEF CallType
    <3> QED BY <3>1, <3>2, Here, Numbers, AppendOne
  <2>2. Len(call[p].sizes) \in Nat /\ Size(image[p].table) \in Nat
    BY Here, CountedNat
  <2> HIDE DEF c
  <2> QED BY <2>1, <2>2 DEF Counted
<1> HIDE DEF c
<1>4. free' + Counted(c, image[p]) = free + Counted(call[p], image[p]) /\ free' \in Int
  <2>1. free \in Int /\ Counted(call[p], image[p]) \in Nat
    BY Here
  <2> QED BY <1>1, <1>3, <2>1
<1> QED BY <1>1, <1>2, <1>4, Here, MovesCall DEF Locking

LEMMA StepFreeArgs ==
  ASSUME ExecInv, NEW p \in Caller, FreeArgs(p)
  PROVE  ExecInv'
<1>1. /\ call[p].pc = "free args" /\ call' = [call EXCEPT ![p] = Idle]
      /\ free' = free + Len(call[p].sizes) /\ UNCHANGED <<image, ilocked, panicked>>
  BY DEF FreeArgs, IsAt
<1>2. Idle \in CallType /\ CallOK(Idle) /\ Idle.pc = "idle" /\ Idle.has = FALSE /\ Idle.sizes = <<>>
  BY Blank
<1>3. Counted(Idle, image[p]) + Len(call[p].sizes) = Counted(call[p], image[p])
  <2>1. call[p].has = FALSE
    BY <1>1, Here DEF CallOK, Outside
  <2>2. Len(Idle.sizes) = 0
    BY <1>2
  <2>3. Len(call[p].sizes) \in Nat /\ Size(image[p].table) \in Nat
    BY Here, CountedNat
  <2> HIDE DEF Idle
  <2> QED BY <1>2, <2>1, <2>2, <2>3 DEF Counted
<1>4. free' + Counted(Idle, image[p]) = free + Counted(call[p], image[p]) /\ free' \in Int
  <2>1. Counted(Idle, image[p]) \in Nat
    BY <1>2, Here, CountedNat
  <2>2. free \in Int /\ Counted(call[p], image[p]) \in Nat /\ Len(call[p].sizes) \in Nat
    BY Here
  <2>3. free' = free + Len(call[p].sizes)
    BY <1>1
  <2> QED BY <1>3, <2>1, <2>2, <2>3
<1> HIDE DEF Idle
<1> QED BY <1>1, <1>2, <1>4, Here, MovesCall DEF Locking

LEMMA StepOpenFile ==
  ASSUME ExecInv, NEW p \in Caller, NEW f \in Program, OpenFile(p, f)
  PROVE  ExecInv'
<1> DEFINE c == [call[p] EXCEPT !.pc = "header", !.file = f]
<1>1. /\ call[p].pc = "open" /\ call' = [call EXCEPT ![p] = c] /\ ilocked[f] = Nobody
      /\ ilocked' = [ilocked EXCEPT ![f] = p] /\ UNCHANGED <<free, image, panicked>>
  BY DEF OpenFile, IsAt
<1>2. /\ c \in CallType /\ CallOK(c) /\ c.pc = "header" /\ c.file = f
      /\ Counted(c, image[p]) = Counted(call[p], image[p])
  BY <1>1, Here DEF CallType, CallOK, Label, Outside, Growing, Counted
<1> HIDE DEF c
<1>3. ilocked' \in [Program -> Caller \cup {Nobody}]
  BY <1>1, Here
<1>4. LockOK(p, c, ilocked')
  <2> SUFFICES ASSUME NEW g \in Program, ilocked'[g] = p PROVE c.file = g /\ c.pc \in Locking
    BY DEF LockOK
  <2>1. g = f
    BY <1>1, Here DEF LockOK, Locking
  <2> QED BY <2>1, <1>2 DEF Locking
<1>5. \A q \in Caller \ {p}, g \in Program : ilocked'[g] = q => ilocked[g] = q
  BY <1>1, Here
<1>6. Moves(p, c, image[p])
  BY <1>1, <1>2, <1>3, <1>4, <1>5, Here DEF Moves
<1> QED BY <1>6, MovesInv

LEMMA StepReadHeader ==
  ASSUME ExecInv, NEW p \in Caller, ReadHeader(p)
  PROVE  ExecInv'
<1>1. call[p].pc = "header" /\ UNCHANGED <<image, ilocked, panicked>>
  BY DEF ReadHeader, IsAt
<1>2. CASE call[p].file.elf /\ free >= RootPages
  <2> DEFINE c == [call[p] EXCEPT !.pc = "segment", !.has = TRUE]
  <2>1. call' = [call EXCEPT ![p] = c] /\ free' = free - RootPages
    BY <1>2 DEF ReadHeader
  <2>2. c \in CallType /\ c.pc = "segment" /\ CallOK(c) /\ c.file = call[p].file
    BY <1>1, Here DEF CallType, CallOK, Label, Outside, Growing
  <2>3. Counted(c, image[p]) = Counted(call[p], image[p]) + RootPages
    <3>1. c.sizes = call[p].sizes /\ c.has = TRUE /\ call[p].has = FALSE /\ c.table = Table
      BY <1>1, Here DEF CallType, CallOK, Outside
    <3>2. Size(Table) = RootPages
      BY FS_EmptySet DEF Size, Table, RootPages
    <3>3. Len(call[p].sizes) \in Nat /\ Size(image[p].table) \in Nat
      BY Here, CountedNat
    <3> HIDE DEF c
    <3>4. /\ Counted(c, image[p]) = Len(c.sizes) + Size(c.table) + Size(image[p].table)
          /\ Counted(call[p], image[p]) = Len(call[p].sizes) + 0 + Size(image[p].table)
      BY <3>1 DEF Counted
    <3> QED BY <3>1, <3>2, <3>3, <3>4 DEF RootPages
  <2> HIDE DEF c
  <2>4. free' + Counted(c, image[p]) = free + Counted(call[p], image[p]) /\ free' \in Int
    <3>1. free \in Int /\ Counted(call[p], image[p]) \in Nat
      BY Here
    <3> QED BY <2>1, <2>3, <3>1 DEF RootPages
  <2> QED BY <1>1, <2>1, <2>2, <2>4, Here, MovesCall DEF Locking
<1>3. CASE ~(call[p].file.elf /\ free >= RootPages)
  <2> DEFINE c == [call[p] EXCEPT !.pc = "bad"]
  <2>1. call' = [call EXCEPT ![p] = c] /\ free' = free
    BY <1>3 DEF ReadHeader, Goto
  <2>2. c \in CallType /\ CallOK(c)
    BY <1>1, Here DEF CallType, CallOK, Label, Outside, Growing
  <2> QED BY <1>1, <2>1, <2>2, Here, MovesOn DEF CallType, Locking
<1> QED BY <1>2, <1>3

\* The parts of a program are as exec() expects them.
LEMMA PartOf ==
  ASSUME NEW c \in CallType, c.file \in Program, c.seg > 0, c.seg <= Len(c.file.segs)
  PROVE  c.file.segs[c.seg] \in Header
<1>1. c.file.segs \in Seq(Header) /\ c.seg \in Nat
  BY Numbers DEF CallType
<1> QED BY <1>1

LEMMA StepSegment ==
  ASSUME ExecInv, NEW p \in Caller, Segment(p)
  PROVE  ExecInv'
<1> DEFINE o == call[p]
           ph == o.file.segs[o.seg]
           top == IF o.sz < ph.vaddr + ph.memsz THEN ph.vaddr + ph.memsz ELSE o.sz
           next == [o EXCEPT !.seg = @ + 1]
           bad == [o EXCEPT !.pc = "bad"]
           grow == [o EXCEPT !.pc = "uvmalloc", !.top = top]
<1>1. o.pc = "segment" /\ o.seg <= Len(o.file.segs) /\ UNCHANGED <<free, image, ilocked, panicked>>
  BY DEF Segment, IsAt
<1>2. o \in CallType /\ CallOK(o) /\ o.file \in Program /\ o.seg > 0 /\ o.seg \in Nat
  BY <1>1, Here DEF CallOK, Outside, CallType
<1>3. ph \in Header
  BY <1>1, <1>2, PartOf
<1>4. \/ call' = [call EXCEPT ![p] = next]
      \/ call' = [call EXCEPT ![p] = bad]
      \/ /\ call' = [call EXCEPT ![p] = grow]
         /\ ~(ph.memsz < ph.filesz) /\ ph.vaddr % PGSIZE = 0
  BY DEF Segment
<1>5. CASE call' = [call EXCEPT ![p] = next]
  <2>1. next \in CallType /\ next.seg > 0
    <3>1. o.seg + 1 \in Nat /\ o.seg + 1 > 0
      BY <1>2
    <3>2. next = [o EXCEPT !.seg = o.seg + 1]
      OBVIOUS
    <3> HIDE DEF o
    <3> QED BY <1>2, <3>1, <3>2 DEF CallType
  <2>2. CallOK(next)
    <3>1. /\ next.pc = o.pc /\ next.file = o.file /\ next.sizes = o.sizes /\ next.has = o.has
          /\ next.table = o.table /\ next.sz = o.sz /\ next.argc = o.argc
      BY <1>2 DEF CallType
    <3> HIDE DEF next, o
    <3> QED BY <1>1, <1>2, <2>1, <3>1 DEF CallOK, Outside, Growing
  <2> QED BY <1>1, <1>2, <1>5, <2>1, <2>2, Here, MovesOn DEF CallType, Locking
<1>6. CASE call' = [call EXCEPT ![p] = bad]
  <2>1. bad \in CallType /\ CallOK(bad)
    BY <1>1, <1>2 DEF CallType, CallOK, Label, Outside, Growing
  <2> QED BY <1>1, <1>2, <1>6, <2>1, Here, MovesOn DEF CallType, Locking
<1>7. CASE /\ call' = [call EXCEPT ![p] = grow]
           /\ ~(ph.memsz < ph.filesz) /\ ph.vaddr % PGSIZE = 0
  <2>1. ph.vaddr \in Nat /\ ph.memsz \in Nat /\ ph.filesz \in Nat /\ o.sz \in Nat
    BY <1>2, <1>3 DEF Header, CallType
  <2>2. top \in Nat /\ o.sz <= top /\ Fits(ph, top)
    BY <2>1, <1>7 DEF Fits
  <2> HIDE DEF top
  <2>3. GrownTo(grow, Roundup(o.sz)) /\ Roundup(o.sz) \in Nat
    <3>1. Roundup(o.sz) \in Nat /\ Roundup(top) \in Nat /\ Roundup(o.sz) <= Roundup(top)
      BY <2>1, <2>2, Rounds, RoundsMonotone
    <3>2. o.table.mapped = 0 .. Roundup(o.sz) - 1
      BY <1>1, <1>2 DEF CallOK, Growing, FreesExactly, Pages
    <3>3. grow.table = o.table /\ grow.sz = o.sz /\ grow.top = top
      BY <1>2 DEF CallType
    <3> HIDE DEF grow, o
    <3> QED BY <3>1, <3>2, <3>3 DEF GrownTo
  <2>4. /\ grow \in CallType /\ grow.pc = "uvmalloc" /\ grow.file = o.file /\ grow.sizes = o.sizes
        /\ grow.has = o.has /\ grow.table = o.table /\ grow.top = top /\ grow.sz = o.sz
        /\ grow.seg = o.seg /\ grow.argc = o.argc
    BY <1>2, <2>2 DEF CallType, Label
  <2> HIDE DEF grow, o, ph
  <2>5. CallOK(grow)
    BY <1>1, <1>2, <2>2, <2>3, <2>4 DEF CallOK, Outside, Growing, ph
  <2> QED BY <1>1, <1>2, <1>7, <2>4, <2>5, Here, MovesOn DEF Locking, o
<1> QED BY <1>4, <1>5, <1>6, <1>7

\* The page that uvmalloc() maps next, and the pages of the page table that it needs.
LEMMA NextIs ==
  ASSUME NEW c \in CallType, NEW n \in Nat, GrownTo(c, n)
  PROVE  /\ NextPage(c) = n
         /\ c.table.mapped \cap Pages(c.sz) = Pages(c.sz)
         /\ IsFiniteSet(c.table.mapped) /\ Cardinality(c.table.mapped) = n
         /\ Cardinality(c.table.mapped \ Pages(c.sz)) = n - Roundup(c.sz)
         /\ Cardinality(Pages(c.sz)) = Roundup(c.sz) /\ Roundup(c.sz) \in Nat
<1> DEFINE r == Roundup(c.sz)
<1>1. r \in Nat /\ c.sz \in Nat /\ r <= n
  BY Rounds DEF CallType, GrownTo
<1>2. c.table.mapped = 0 .. n - 1 /\ Pages(c.sz) = 0 .. r - 1 /\ Cardinality(Pages(c.sz)) = r
  BY <1>1, PagesOf DEF GrownTo
<1> HIDE DEF r
<1>3. IsFiniteSet(0 .. n - 1) /\ Cardinality(0 .. n - 1) = n
  <2>1. /\ IsFiniteSet(0 .. n - 1)
        /\ Cardinality(0 .. n - 1) = IF 0 > n - 1 THEN 0 ELSE (n - 1) - 0 + 1
    BY FS_Interval
  <2> QED BY <2>1
<1>4. (0 .. n - 1) \ (0 .. r - 1) = r .. n - 1 /\ (0 .. n - 1) \cap (0 .. r - 1) = 0 .. r - 1
  BY <1>1
<1>5. Cardinality(r .. n - 1) = n - r
  <2>1. Cardinality(r .. n - 1) = IF r > n - 1 THEN 0 ELSE (n - 1) - r + 1
    BY <1>1, FS_Interval
  <2> QED BY <1>1, <2>1
<1>6. NextPage(c) = n
  <2>1. NextPage(c) = r + Cardinality(c.table.mapped \ Pages(c.sz))
    BY DEF NextPage, r
  <2>2. Cardinality(c.table.mapped \ Pages(c.sz)) = n - r
    BY <1>2, <1>4, <1>5
  <2> QED BY <1>1, <2>1, <2>2
<1> QED BY <1>1, <1>2, <1>3, <1>4, <1>5, <1>6 DEF r

LEMMA MissingFacts ==
  ASSUME NEW c, IsFiniteSet(c.table.tables), NextPage(c) \in Nat
  PROVE  /\ IsFiniteSet(Missing(c)) /\ Cardinality(Missing(c)) \in Nat
         /\ Missing(c) \cap c.table.tables = {} /\ Missing(c) \subseteq Int
         /\ Cardinality(Missing(c)) = 2 => -1 \in Missing(c)
<1> DEFINE x == NextPage(c) \div LEAF
<1>1. x \in Int
  BY Numbers
<1> HIDE DEF x
<1>2. Missing(c) = {-1, x} \ c.table.tables
  BY DEF Missing, x
<1>3. IsFiniteSet({-1, x})
  <2>1. IsFiniteSet({-1}) /\ {-1} \cup {x} = {-1, x}
    BY FS_Singleton
  <2>2. IsFiniteSet({-1} \cup {x})
    BY <2>1, FS_AddElement
  <2> QED BY <2>1, <2>2
<1>4. IsFiniteSet(Missing(c)) /\ Cardinality(Missing(c)) \in Nat
  BY <1>2, <1>3, FS_Subset, FS_CardinalityType
<1>5. ASSUME Cardinality(Missing(c)) = 2, -1 \notin Missing(c) PROVE FALSE
  <2>1. Missing(c) \in SUBSET {x} /\ IsFiniteSet({x}) /\ Cardinality({x}) = 1
    BY <1>2, <1>5, FS_Singleton
  <2>2. Cardinality(Missing(c)) <= 1
    BY <2>1, FS_Subset
  <2> QED BY <1>5, <2>2
<1> QED BY <1>1, <1>2, <1>4, <1>5

\* Disjoint sets of pages add up.
LEMMA AddUp ==
  ASSUME NEW S, NEW T, IsFiniteSet(S), IsFiniteSet(T), S \cap T = {}
  PROVE  /\ IsFiniteSet(S \cup T) /\ Cardinality(S \cup T) = Cardinality(S) + Cardinality(T)
         /\ Cardinality(S) \in Nat /\ Cardinality(T) \in Nat
<1>1. Cardinality(S \cup T) = Cardinality(S) + Cardinality(T) - Cardinality(S \cap T)
      /\ IsFiniteSet(S \cup T)
  BY FS_Union
<1>2. Cardinality(S \cap T) = 0
  BY FS_EmptySet
<1>3. Cardinality(S) \in Nat /\ Cardinality(T) \in Nat
  BY FS_CardinalityType
<1> QED BY <1>1, <1>2, <1>3

\* While uvmalloc() is at work.
LEMMA AtGrowing ==
  ASSUME ExecInv, NEW p \in Caller, call[p].pc \in Growing
  PROVE  /\ call[p].has = TRUE /\ call[p].file \in Program /\ IsFiniteSet(call[p].table.tables)
         /\ call[p].sz \in Nat /\ call[p].top \in Nat /\ call[p].sz <= call[p].top
         /\ call[p].table \in Tables
         /\ \E n \in Nat : GrownTo(call[p], n)
  BY Here DEF CallOK, Growing, Outside, CallType

\* What is counted, with a page table and without.
LEMMA CountedHas ==
  ASSUME NEW c, NEW im, c.has = TRUE
  PROVE  Counted(c, im) = Len(c.sizes) + Size(c.table) + Size(im.table)
  BY DEF Counted

LEMMA CountedHasNot ==
  ASSUME NEW c, NEW im, c.has = FALSE
  PROVE  Counted(c, im) = Len(c.sizes) + 0 + Size(im.table)
  BY DEF Counted

LEMMA TableFields ==
  ASSUME NEW t \in Tables
  PROVE  t.mapped \in SUBSET Int /\ t.tables \in SUBSET Int /\ t.guard \in SUBSET Int
  BY DEF Tables

LEMMA StepUvmalloc ==
  ASSUME ExecInv, NEW p \in Caller, Uvmalloc(p)
  PROVE  ExecInv'
<1> DEFINE o == call[p]
           m == Missing(o)
<1>1. /\ o.pc \in Growing /\ NextPage(o) * PGSIZE < o.top /\ UNCHANGED <<image, ilocked, panicked>>
      /\ free' = free - (1 + Cardinality(m))
      /\ call' = [call EXCEPT ![p].table.mapped = @ \cup {NextPage(o)},
                              ![p].table.tables = @ \cup m]
  BY DEF Uvmalloc, IsAt, Growing
<1>2. /\ o \in CallType /\ o.has = TRUE /\ IsFiniteSet(o.table.tables) /\ o.top \in Nat
      /\ o.table \in Tables
  BY <1>1, Here, AtGrowing
<1>3. PICK n \in Nat : GrownTo(o, n)
  BY <1>1, AtGrowing
<1>4. NextPage(o) = n /\ IsFiniteSet(o.table.mapped) /\ Cardinality(o.table.mapped) = n
  BY <1>2, <1>3, NextIs
<1>5. IsFiniteSet(m) /\ Cardinality(m) \in Nat /\ o.table.tables \cap m = {} /\ m \subseteq Int
  BY <1>2, <1>4, MissingFacts
<1> HIDE DEF m
<1> DEFINE t == [o.table EXCEPT !.mapped = @ \cup {n}, !.tables = @ \cup m]
           c == [o EXCEPT !.table = t]
<1>6. call' = [call EXCEPT ![p] = c]
  BY <1>1, <1>2, <1>4, Here DEF CallType, Tables
<1>7. /\ t \in Tables /\ t.mapped = o.table.mapped \cup {n} /\ t.tables = o.table.tables \cup m
      /\ t.guard = o.table.guard
  <2>1. o.table.mapped \cup {n} \in SUBSET Int /\ o.table.tables \cup m \in SUBSET Int
    <3>1. o.table.mapped \in SUBSET Int /\ o.table.tables \in SUBSET Int
      BY <1>2, TableFields
    <3>2. {n} \subseteq Int /\ m \subseteq Int
      BY <1>3, <1>5
    <3> HIDE DEF o
    <3> QED BY <3>1, <3>2
  <2>2. t = [o.table EXCEPT !.mapped = o.table.mapped \cup {n}, !.tables = o.table.tables \cup m]
    OBVIOUS
  <2> HIDE DEF o, t
  <2> QED BY <1>2, <2>1, <2>2 DEF Tables
<1> HIDE DEF t
<1>8. IsFiniteSet(t.tables) /\ Size(t) = Size(o.table) + (1 + Cardinality(m)) /\ Size(o.table) \in Nat
  <2> DEFINE s == o.table.tables
  <2>0. /\ IsFiniteSet(s \cup m) /\ Cardinality(s) \in Nat
        /\ Cardinality(s \cup m) = Cardinality(s) + Cardinality(m)
    <3>1. IsFiniteSet(s) /\ IsFiniteSet(m) /\ s \cap m = {}
      BY <1>2, <1>5
    <3> HIDE DEF s
    <3> QED BY <3>1, AddUp
  <2>1. /\ IsFiniteSet(t.tables) /\ Cardinality(o.table.tables) \in Nat
        /\ Cardinality(t.tables) = Cardinality(o.table.tables) + Cardinality(m)
    BY <1>7, <2>0
  <2>2. n \notin o.table.mapped
    BY <1>3 DEF GrownTo
  <2>3. Cardinality(t.mapped) = n + 1
    BY <1>4, <1>7, <2>2, FS_AddElement
  <2> QED BY <1>4, <1>5, <2>1, <2>3 DEF Size, RootPages
<1>9. /\ c \in CallType /\ c.pc = o.pc /\ c.file = o.file /\ c.sizes = o.sizes /\ c.has = o.has
      /\ c.table = t /\ c.top = o.top /\ c.sz = o.sz /\ c.seg = o.seg /\ c.argc = o.argc
  BY <1>2, <1>7 DEF CallType
<1> HIDE DEF c
<1>10. GrownTo(c, n + 1) /\ n + 1 \in Nat
  <2>1. o.table.mapped = 0 .. n - 1 /\ Roundup(o.sz) <= n /\ Roundup(o.top) \in Nat /\ Roundup(o.sz) \in Nat
    BY <1>2, <1>3, Rounds DEF GrownTo, CallType
  <2>2. n < Roundup(o.top)
    <3>1. n * PGSIZE \in Nat /\ n * PGSIZE < o.top
      BY <1>1, <1>4, Numbers
    <3> QED BY <1>2, <2>1, <3>1, Rounds
  <2>3. (0 .. n - 1) \cup {n} = 0 .. (n + 1) - 1
    OBVIOUS
  <2>4. c.table.mapped = 0 .. (n + 1) - 1
    BY <1>7, <1>9, <2>1, <2>3
  <2>5. Roundup(c.sz) <= n + 1 /\ n + 1 <= Roundup(c.top) /\ n + 1 \in Nat
    BY <1>9, <2>1, <2>2
  <2> QED BY <2>4, <2>5 DEF GrownTo
<1>11. CallOK(c)
  <2>1. CallOK(o)
    BY Here
  <2> HIDE DEF o
  <2> QED BY <1>1, <1>8, <1>9, <1>10, <2>1 DEF CallOK, Growing, Outside
<1>12. free' + Counted(c, image[p]) = free + Counted(call[p], image[p]) /\ free' \in Int
  <2>1. Size(image[p].table) \in Nat /\ Len(o.sizes) \in Nat
    BY Here, CountedNat
  <2>2. Counted(c, image[p]) = Counted(o, image[p]) + (1 + Cardinality(m))
    <3>1. /\ c.sizes = o.sizes /\ c.has = TRUE /\ o.has = TRUE /\ 1 + Cardinality(m) \in Int
          /\ Size(c.table) = Size(o.table) + (1 + Cardinality(m))
      BY <1>2, <1>5, <1>8, <1>9
    <3>2. /\ Counted(c, image[p]) = Len(c.sizes) + Size(c.table) + Size(image[p].table)
          /\ Counted(o, image[p]) = Len(o.sizes) + Size(o.table) + Size(image[p].table)
      BY <3>1, CountedHas
    <3> HIDE DEF o
    <3> QED BY <1>8, <2>1, <3>1, <3>2
  <2>3. free \in Int /\ Counted(o, image[p]) \in Nat
    BY Here
  <2> QED BY <1>1, <1>5, <2>2, <2>3
<1> QED BY <1>1, <1>6, <1>9, <1>11, <1>12, Here, MovesCall

LEMMA StepUvmallocFails ==
  ASSUME ExecInv, NEW p \in Caller, UvmallocFails(p)
  PROVE  ExecInv'
<1> DEFINE o == call[p]
           m == Missing(o)
           got == IF free = 2 /\ Cardinality(m) = 2 THEN {-1} ELSE {}
           lost == o.table.mapped \ Pages(o.sz)
<1>1. /\ o.pc \in Growing /\ UNCHANGED <<image, ilocked, panicked>>
      /\ free' = free + Cardinality(lost) - Cardinality(got)
      /\ call' = [call EXCEPT ![p] = [o EXCEPT !.pc = "bad", !.table.mapped = @ \cap Pages(o.sz),
                                              !.table.tables = @ \cup got]]
  BY DEF UvmallocFails, IsAt, Growing
<1>2. /\ o \in CallType /\ o.has = TRUE /\ IsFiniteSet(o.table.tables) /\ o.top \in Nat
      /\ o.table \in Tables /\ o.file \in Program
  BY <1>1, Here, AtGrowing
<1>3. PICK n \in Nat : GrownTo(o, n)
  BY <1>1, AtGrowing
<1>4. /\ NextPage(o) = n /\ IsFiniteSet(o.table.mapped) /\ Cardinality(o.table.mapped) = n
      /\ o.table.mapped \cap Pages(o.sz) = Pages(o.sz) /\ Cardinality(lost) = n - Roundup(o.sz)
      /\ Cardinality(Pages(o.sz)) = Roundup(o.sz) /\ Roundup(o.sz) \in Nat
  BY <1>2, <1>3, NextIs
<1>5. IsFiniteSet(got) /\ Cardinality(got) \in Nat /\ o.table.tables \cap got = {} /\ got \subseteq Int
  <2>1. (Cardinality(m) = 2 => -1 \in m) /\ m \cap o.table.tables = {}
    BY <1>2, <1>4, MissingFacts
  <2>2. IsFiniteSet({}) /\ IsFiniteSet({-1}) /\ Cardinality({}) = 0 /\ Cardinality({-1}) = 1
    BY FS_EmptySet, FS_Singleton
  <2> HIDE DEF m
  <2> QED BY <2>1, <2>2
<1> HIDE DEF got, lost
<1> DEFINE t == [o.table EXCEPT !.mapped = @ \cap Pages(o.sz), !.tables = @ \cup got]
           c == [o EXCEPT !.pc = "bad", !.table = t]
<1>6. call' = [call EXCEPT ![p] = c]
  <2>1. [o EXCEPT !.pc = "bad", !.table.mapped = @ \cap Pages(o.sz), !.table.tables = @ \cup got] = c
    BY <1>2 DEF CallType, Tables
  <2>2. call' = [call EXCEPT ![p] = [o EXCEPT !.pc = "bad", !.table.mapped = @ \cap Pages(o.sz),
                                              !.table.tables = @ \cup got]]
    BY <1>1
  <2> QED BY <2>1, <2>2
<1>7. t \in Tables /\ t.mapped = Pages(o.sz) /\ t.tables = o.table.tables \cup got
  <2>1. o.table.mapped \cap Pages(o.sz) \in SUBSET Int /\ o.table.tables \cup got \in SUBSET Int
    <3>1. o.table.mapped \in SUBSET Int /\ o.table.tables \in SUBSET Int
      BY <1>2, TableFields
    <3> HIDE DEF o
    <3> QED BY <1>5, <3>1
  <2>2. t = [o.table EXCEPT !.mapped = o.table.mapped \cap Pages(o.sz), !.tables = o.table.tables \cup got]
    OBVIOUS
  <2> HIDE DEF o, t
  <2> QED BY <1>2, <1>4, <2>1, <2>2 DEF Tables
<1> HIDE DEF t
<1>8. /\ IsFiniteSet(t.tables) /\ Size(o.table) \in Nat
      /\ Size(t) = Size(o.table) + (Cardinality(got) - Cardinality(lost))
  <2>1. /\ IsFiniteSet(t.tables) /\ Cardinality(o.table.tables) \in Nat
        /\ Cardinality(t.tables) = Cardinality(o.table.tables) + Cardinality(got)
    BY <1>2, <1>5, <1>7, AddUp
  <2>2. Cardinality(t.mapped) = Roundup(o.sz)
    BY <1>4, <1>7
  <2> HIDE DEF o
  <2> QED BY <1>4, <1>5, <2>1, <2>2 DEF Size, RootPages
<1>9. /\ c \in CallType /\ c.pc = "bad" /\ c.file = o.file /\ c.sizes = o.sizes /\ c.has = o.has
      /\ c.table = t /\ c.top = o.top /\ c.sz = o.sz /\ c.seg = o.seg /\ c.argc = o.argc
  BY <1>2, <1>7 DEF CallType, Label
<1> HIDE DEF c
<1>10. CallOK(c)
  <2>1. CallOK(o)
    BY Here
  <2> HIDE DEF o
  <2> QED BY <1>1, <1>2, <1>7, <1>8, <1>9, <2>1 DEF CallOK, Growing, Outside, FreesExactly
<1>11. free' + Counted(c, image[p]) = free + Counted(call[p], image[p]) /\ free' \in Int
  <2>0. Cardinality(lost) \in Int
    BY <1>4
  <2>1. Size(image[p].table) \in Nat /\ Len(o.sizes) \in Nat /\ Cardinality(lost) \in Int
    BY <2>0, Here, CountedNat
  <2>2. Counted(c, image[p]) = Counted(o, image[p]) + (Cardinality(got) - Cardinality(lost))
    <3>1. /\ c.sizes = o.sizes /\ c.has = TRUE /\ o.has = TRUE
          /\ Cardinality(got) - Cardinality(lost) \in Int
          /\ Size(c.table) = Size(o.table) + (Cardinality(got) - Cardinality(lost))
      BY <1>2, <1>5, <1>8, <1>9, <2>1
    <3>2. /\ Counted(c, image[p]) = Len(c.sizes) + Size(c.table) + Size(image[p].table)
          /\ Counted(o, image[p]) = Len(o.sizes) + Size(o.table) + Size(image[p].table)
      BY <3>1, CountedHas
    <3> HIDE DEF o
    <3> QED BY <1>8, <2>1, <3>1, <3>2
  <2>3. free \in Int /\ Counted(o, image[p]) \in Nat
    BY Here
  <2> QED BY <1>1, <1>5, <2>1, <2>2, <2>3
<1> QED BY <1>1, <1>6, <1>9, <1>10, <1>11, Here, MovesCall DEF Growing, Locking

\* uvmalloc() is done: the pages below top are mapped.
LEMMA Grown ==
  ASSUME ExecInv, NEW p \in Caller, call[p].pc \in Growing, NextPage(call[p]) * PGSIZE >= call[p].top
  PROVE  call[p].table.mapped = Pages(call[p].top)
<1> DEFINE o == call[p]
<1>1. PICK n \in Nat : GrownTo(o, n)
  BY AtGrowing
<1>2. o \in CallType /\ o.top \in Nat /\ NextPage(o) = n
  BY <1>1, Here, AtGrowing, NextIs
<1>3. Roundup(o.top) \in Nat /\ n * PGSIZE \in Nat /\ n * PGSIZE >= o.top
  <2>1. Roundup(o.top) \in Nat
    BY <1>2, Rounds
  <2>2. n * PGSIZE \in Nat
    BY <1>1, Numbers
  <2>3. n * PGSIZE >= o.top
    BY <1>2
  <2> QED BY <2>1, <2>2, <2>3
<1>4. Roundup(o.top) <= n
  BY <1>1, <1>2, <1>3, Rounds
<1>5. n = Roundup(o.top)
  BY <1>1, <1>3, <1>4 DEF GrownTo
<1> QED BY <1>1, <1>5 DEF GrownTo, Pages

LEMMA StepLoadseg ==
  ASSUME ExecInv, NEW p \in Caller, Loadseg(p)
  PROVE  ExecInv'
<1> DEFINE o == call[p]
           ph == o.file.segs[o.seg]
           bad == [o EXCEPT !.sz = o.top, !.pc = "bad"]
           next == [o EXCEPT !.sz = o.top, !.pc = "segment", !.seg = @ + 1]
<1>1. /\ o.pc = "uvmalloc" /\ NextPage(o) * PGSIZE >= o.top /\ UNCHANGED <<free, image, ilocked>>
      /\ panicked' = ~({ph.vaddr \div PGSIZE + k : k \in Pages(ph.filesz)} \subseteq o.table.mapped)
      /\ call' = [call EXCEPT ![p] = bad] \/ call' = [call EXCEPT ![p] = next]
  BY DEF Loadseg, IsAt
<1>2. /\ o \in CallType /\ CallOK(o) /\ o.file \in Program /\ o.has = TRUE /\ o.top \in Nat
      /\ o.seg \in Nat /\ o.seg > 0 /\ o.seg <= Len(o.file.segs) /\ Fits(ph, o.top)
      /\ o.table.mapped = Pages(o.top)
  BY <1>1, Here, AtGrowing, Grown DEF CallOK, Growing, CallType
<1>3. panicked' = FALSE
  <2>1. ph \in Header
    BY <1>2, PartOf
  <2>2. {ph.vaddr \div PGSIZE + k : k \in Pages(ph.filesz)} \subseteq Pages(o.top)
    BY <1>2, <2>1, SegmentMapped
  <2> QED BY <1>1, <1>2, <2>2
<1>4. ASSUME NEW c \in {bad, next} PROVE c \in CallType /\ CallOK(c)
  <2>1. o.seg + 1 \in Nat /\ o.seg + 1 > 0
    BY <1>2
  <2>2. /\ c \in CallType /\ c.pc \in {"bad", "segment"} /\ c.file = o.file /\ c.sizes = o.sizes
        /\ c.has = o.has /\ c.table = o.table /\ c.sz = o.top /\ c.seg > 0 /\ c.argc = o.argc
    BY <1>2, <2>1 DEF CallType, Label
  <2> HIDE DEF o, bad, next
  <2> QED BY <1>2, <2>2 DEF CallOK, Growing, Outside, FreesExactly
<1>5. ASSUME NEW c \in {bad, next}
      PROVE  /\ c.pc \in {"bad", "segment"} /\ c.file = o.file /\ c.sizes = o.sizes
             /\ c.has = o.has /\ c.table = o.table
  BY <1>2 DEF CallType
<1>6. bad.pc = "bad" /\ (call' = [call EXCEPT ![p] = next] => next.pc = "segment")
  BY <1>2 DEF CallType
<1>7. CASE call' = [call EXCEPT ![p] = bad]
  BY <1>1, <1>3, <1>4, <1>5, <1>6, <1>7, MovesOn DEF Locking
<1>8. CASE call' = [call EXCEPT ![p] = next]
  BY <1>1, <1>3, <1>4, <1>5, <1>6, <1>8, MovesOn DEF Locking
<1> QED BY <1>1, <1>7, <1>8

LEMMA StepLoaded ==
  ASSUME ExecInv, NEW p \in Caller, Loaded(p)
  PROVE  ExecInv'
<1> DEFINE o == call[p]
           k == Roundup(o.sz)
           sz == k * PGSIZE
           c == [o EXCEPT !.pc = "stack", !.sz = sz, !.top = sz + 2 * PGSIZE]
<1>1. /\ o.pc = "segment" /\ ilocked' = [ilocked EXCEPT ![o.file] = Nobody]
      /\ call' = [call EXCEPT ![p] = c] /\ UNCHANGED <<free, image, panicked>>
  BY DEF Loaded, IsAt
<1>2. o \in CallType /\ CallOK(o) /\ o.file \in Program /\ o.has = TRUE /\ o.sz \in Nat
  BY <1>1, Here DEF CallOK, Outside, CallType
<1>3. k \in Nat
  BY <1>2, Rounds
<1> HIDE DEF k
<1>4. sz \in Nat /\ Roundup(sz) = k /\ (k + 2) * PGSIZE = sz + 2 * PGSIZE /\ k + 2 \in Nat
  BY <1>3, RoundsExact, Numbers
<1>5. sz + 2 * PGSIZE \in Nat /\ sz <= sz + 2 * PGSIZE /\ Roundup(sz + 2 * PGSIZE) = k + 2
  <2>1. Roundup((k + 2) * PGSIZE) = k + 2 /\ (k + 2) * PGSIZE \in Nat
    BY <1>4, RoundsExact
  <2>2. sz <= sz + 2 * PGSIZE
    BY <1>4, Numbers
  <2> QED BY <1>4, <2>1, <2>2
<1> HIDE DEF sz
<1>6. /\ c \in CallType /\ c.pc = "stack" /\ c.file = o.file /\ c.sizes = o.sizes /\ c.has = o.has
      /\ c.table = o.table /\ c.sz = sz /\ c.top = sz + 2 * PGSIZE /\ c.seg = o.seg /\ c.argc = o.argc
  BY <1>2, <1>4, <1>5 DEF CallType, Label
<1> HIDE DEF c
<1>7. GrownTo(c, k)
  <2>1. o.table.mapped = 0 .. k - 1
    BY <1>1, <1>2 DEF CallOK, Growing, FreesExactly, Pages, k
  <2> HIDE DEF o
  <2> QED BY <1>3, <1>4, <1>5, <1>6, <2>1 DEF GrownTo
<1>8. \E j \in Nat : c.sz = j * PGSIZE /\ c.top = (j + 2) * PGSIZE
  BY <1>3, <1>4, <1>6 DEF sz
<1>9. CallOK(c)
  <2> HIDE DEF o
  <2> QED BY <1>2, <1>3, <1>5, <1>6, <1>7, <1>8 DEF CallOK, Growing, Outside
<1>10. LockOK(p, c, ilocked') /\ ilocked' \in [Program -> Caller \cup {Nobody}]
  <2>1. ilocked' \in [Program -> Caller \cup {Nobody}]
    BY <1>1, Here
  <2>2. ASSUME NEW f \in Program PROVE ilocked'[f] # p
    BY <1>1, <1>2, Here, Numbers DEF LockOK
  <2> QED BY <2>1, <2>2 DEF LockOK
<1>11. \A q \in Caller \ {p}, f \in Program : ilocked'[f] = q => ilocked[f] = q
  BY <1>1, <1>2, Here, Numbers
<1>12. Counted(c, image[p]) = Counted(o, image[p])
  BY <1>6 DEF Counted
<1>13. Moves(p, c, image[p])
  BY <1>1, <1>6, <1>9, <1>10, <1>11, <1>12, Here DEF Moves
<1> QED BY <1>13, MovesInv

\* uvmclear() leaves the guard below the page of the stack.
LEMMA StepStack ==
  ASSUME ExecInv, NEW p \in Caller, Stack(p)
  PROVE  ExecInv'
<1> DEFINE o == call[p]
           g == {o.top \div PGSIZE - 2}
           t == [o.table EXCEPT !.guard = g]
           c == [o EXCEPT !.pc = "push", !.sz = o.top, !.sp = o.top, !.table = t]
<1>1. /\ o.pc = "stack" /\ NextPage(o) * PGSIZE >= o.top /\ UNCHANGED <<free, image, ilocked, panicked>>
      /\ call' = [call EXCEPT ![p].pc = "push", ![p].sz = o.top, ![p].sp = o.top,
                              ![p].table.guard = g]
  BY DEF Stack, IsAt
<1>2. /\ o \in CallType /\ CallOK(o) /\ o.file \in Program /\ o.has = TRUE /\ o.top \in Nat
      /\ o.table \in Tables /\ o.table.mapped = Pages(o.top)
  BY <1>1, Here, AtGrowing, Grown DEF CallOK, Growing, CallType
<1>3. PICK k \in Nat : o.sz = k * PGSIZE /\ o.top = (k + 2) * PGSIZE
  BY <1>1, <1>2 DEF CallOK
<1>4. g = {Roundup(o.top) - 2} /\ g \subseteq Int
  <2>1. k + 2 \in Nat
    BY <1>3
  <2>2. Roundup((k + 2) * PGSIZE) = k + 2 /\ ((k + 2) * PGSIZE) \div PGSIZE = k + 2
    BY <2>1, RoundsExact
  <2> QED BY <1>3, <2>1, <2>2
<1> HIDE DEF g
<1>5. call' = [call EXCEPT ![p] = c]
  BY <1>1, <1>2, Here DEF CallType, Tables
<1>6. t \in Tables /\ t.mapped = o.table.mapped /\ t.tables = o.table.tables /\ t.guard = g
  BY <1>2, <1>4 DEF Tables
<1> HIDE DEF t
<1>7. /\ c \in CallType /\ c.pc = "push" /\ c.file = o.file /\ c.sizes = o.sizes /\ c.has = o.has
      /\ c.table = t /\ c.sz = o.top /\ c.seg = o.seg /\ c.argc = o.argc
  <2>1. o.top \in Int
    BY <1>2
  <2> HIDE DEF o
  <2> QED BY <1>2, <1>6, <2>1 DEF CallType, Label
<1> HIDE DEF c
<1>8. CallOK(c)
  <2> HIDE DEF o
  <2> QED BY <1>2, <1>4, <1>6, <1>7 DEF CallOK, Growing, Outside, FreesExactly
<1> QED BY <1>1, <1>5, <1>6, <1>7, <1>8, Here, MovesOn DEF Locking

LEMMA StepPush ==
  ASSUME ExecInv, NEW p \in Caller, Push(p)
  PROVE  ExecInv'
<1> DEFINE o == call[p]
           last == o.argc = Len(o.sizes)
           sp == o.sp - (IF last THEN 1 ELSE o.sizes[o.argc + 1] + 1)
           bad == [o EXCEPT !.sp = sp, !.pc = "bad"]
           done == [o EXCEPT !.sp = sp, !.pc = "commit"]
           more == [o EXCEPT !.sp = sp, !.argc = @ + 1]
<1>1. /\ o.pc = "push" /\ UNCHANGED <<free, image, ilocked, panicked>>
      /\ \/ call' = [call EXCEPT ![p] = bad]
         \/ call' = [call EXCEPT ![p] = done] /\ ~(sp < o.sz - PGSIZE)
         \/ call' = [call EXCEPT ![p] = more] /\ ~last
  BY DEF Push, IsAt
<1>2. /\ o \in CallType /\ CallOK(o) /\ o.file \in Program /\ o.has = TRUE /\ o.sz \in Nat
      /\ o.argc \in Nat /\ Len(o.sizes) \in Nat /\ o.argc <= Len(o.sizes) /\ o.sizes \in Seq(Nat)
      /\ o.sp \in Int
  BY <1>1, Here DEF CallOK, Outside, CallType
<1>3. sp \in Int
  <2>1. CASE last
    BY <1>2, <2>1
  <2>2. CASE ~last
    <3>1. o.argc + 1 \in 1 .. Len(o.sizes)
      BY <1>2, <2>2
    <3>2. o.sizes[o.argc + 1] \in Nat
      <4> HIDE DEF o
      <4> QED BY <1>2, <3>1
    <3>3. sp = o.sp - (o.sizes[o.argc + 1] + 1)
      BY <2>2
    <3> HIDE DEF o
    <3> QED BY <1>2, <3>2, <3>3
  <2> QED BY <2>1, <2>2
<1> HIDE DEF sp
<1>4. CASE call' = [call EXCEPT ![p] = bad]
  <2>1. bad \in CallType /\ CallOK(bad)
    BY <1>1, <1>2, <1>3 DEF CallType, CallOK, Label, Outside, Growing
  <2> QED BY <1>1, <1>2, <1>4, <2>1, Here, MovesOn DEF CallType, Locking
<1>5. CASE call' = [call EXCEPT ![p] = done] /\ ~(sp < o.sz - PGSIZE)
  <2>1. done \in CallType /\ done.sp = sp /\ done.sz = o.sz /\ done.pc = "commit"
    BY <1>2, <1>3 DEF CallType, Label
  <2>2. sp >= o.sz - PGSIZE
    BY <1>2, <1>3, <1>5, Numbers
  <2>3. CallOK(done)
    BY <1>1, <1>2, <2>1, <2>2 DEF CallType, CallOK, Outside, Growing
  <2> QED BY <1>1, <1>2, <1>5, <2>1, <2>3, Here, MovesOn DEF CallType, Locking
<1>6. CASE call' = [call EXCEPT ![p] = more] /\ ~last
  <2>1. o.argc + 1 \in Nat /\ o.argc + 1 <= Len(o.sizes)
    BY <1>2, <1>6
  <2>2. /\ more \in CallType /\ more.pc = "push" /\ more.file = o.file /\ more.sizes = o.sizes
        /\ more.has = o.has /\ more.table = o.table /\ more.sz = o.sz /\ more.seg = o.seg
        /\ more.argc = o.argc + 1
    BY <1>1, <1>2, <1>3, <2>1 DEF CallType
  <2> HIDE DEF more
  <2>3. CallOK(more)
    <3> HIDE DEF o
    <3> QED BY <1>1, <1>2, <2>1, <2>2 DEF CallOK, Growing, Outside, FreesExactly
  <2> QED BY <1>1, <1>2, <1>6, <2>2, <2>3, Here, MovesOn DEF Locking
<1> QED BY <1>1, <1>4, <1>5, <1>6

\* Commit() and Bad() end with the arguments still to be freed.
Ending(sizes) == [Idle EXCEPT !.pc = "free args", !.sizes = sizes]

LEMMA EndingOK ==
  ASSUME NEW sizes \in Seq(Nat), Len(sizes) \in Nat
  PROVE  /\ Ending(sizes) \in CallType /\ CallOK(Ending(sizes)) /\ Ending(sizes).pc = "free args"
         /\ Ending(sizes).has = FALSE /\ Ending(sizes).sizes = sizes
<1>1. Ending(sizes) \in CallType
  BY Blank DEF Ending, CallType, Label
<1>2. /\ Ending(sizes).pc = "free args" /\ Ending(sizes).has = FALSE /\ Ending(sizes).sizes = sizes
      /\ Ending(sizes).table = Table /\ Ending(sizes).sz = 0 /\ Ending(sizes).seg = 1
      /\ Ending(sizes).argc = 0
  BY DEF Ending, Idle
<1>3. CallOK(Ending(sizes))
  <2>1. 0 <= Len(sizes) /\ IsFiniteSet(Table.tables) /\ Table.mapped = {}
    BY FS_EmptySet DEF Table
  <2> DEFINE c == Ending(sizes)
  <2>2. /\ c.pc = "free args" /\ c.has = FALSE /\ c.table = Table /\ c.sz = 0
        /\ c.sizes = sizes /\ c.seg = 1 /\ c.argc = 0
    BY <1>2
  <2> HIDE DEF c
  <2>3. c.seg > 0 /\ c.argc <= Len(c.sizes)
    <3>1. Len(c.sizes) = Len(sizes)
      BY <2>2
    <3>2. c.argc <= Len(c.sizes)
      BY <2>1, <2>2, <3>1
    <3>3. c.seg > 0
      <4>1. c.seg = 1
        BY <2>2
      <4>2. c.seg \in Int
        BY <4>1
      <4> QED BY <4>1, <4>2
    <3> QED BY <3>2, <3>3
  <2>4. IsFiniteSet(c.table.tables) /\ c.table.mapped = Pages(c.sz)
    <3>1. c.table.mapped = {} /\ Pages(c.sz) = Pages(0)
      BY <2>1, <2>2
    <3> QED BY <2>1, <2>2, <3>1, Blank
  <2>5. CallOK(c)
    BY <2>2, <2>3, <2>4 DEF CallOK, FreesExactly, Outside, Growing
  <2> QED BY <2>5 DEF c
<1> QED BY <1>1, <1>2, <1>3

\* The old image is freed, and exactly that.
LEMMA StepCommit ==
  ASSUME ExecInv, NEW p \in Caller, Commit(p)
  PROVE  ExecInv'
<1> DEFINE o == call[p]
           old == image[p]
           im == [table |-> o.table, sz |-> o.sz]
           c == Ending(o.sizes)
<1>1. /\ o.pc = "commit" /\ image' = [image EXCEPT ![p] = im] /\ call' = [call EXCEPT ![p] = c]
      /\ panicked' = ~FreesExactly(old.table, old.sz) /\ free' = free + Size(old.table)
      /\ UNCHANGED ilocked
  BY DEF Commit, IsAt, Ending
<1>2. /\ o \in CallType /\ CallOK(o) /\ o.has = TRUE /\ o.sz \in Nat /\ o.table \in Tables
      /\ ImageOK(old) /\ old \in Images /\ o.sizes \in Seq(Nat) /\ Len(o.sizes) \in Nat
  BY <1>1, Here DEF CallOK, Outside, CallType
<1>3. panicked' = FALSE
  BY <1>1, <1>2 DEF ImageOK
<1>4. im \in Images /\ im.table = o.table /\ im.sz = o.sz
  BY <1>2 DEF Images
<1> HIDE DEF im
<1>5. ImageOK(im)
  BY <1>1, <1>2, <1>4 DEF ImageOK, CallOK, Growing
<1>6. /\ c \in CallType /\ CallOK(c) /\ c.pc = "free args" /\ c.has = FALSE /\ c.sizes = o.sizes
  BY <1>2, EndingOK
<1> HIDE DEF c
<1>7. free' + Counted(c, im) = free + Counted(o, old) /\ free' \in Int
  <2>1. /\ Size(o.table) \in Nat /\ Size(old.table) \in Nat /\ free \in Int
    BY <1>2, Here, CountedNat
  <2>2. /\ Counted(c, im) = Len(c.sizes) + 0 + Size(im.table)
        /\ Counted(o, old) = Len(o.sizes) + Size(o.table) + Size(old.table)
    BY <1>2, <1>6, CountedHas, CountedHasNot
  <2>3. free' = free + Size(old.table) /\ Counted(c, im) = Len(o.sizes) + 0 + Size(o.table)
    BY <1>1, <1>4, <1>6, <2>2
  <2>4. Len(o.sizes) \in Nat
    BY <1>2
  <2> HIDE DEF o, old
  <2> QED BY <2>1, <2>2, <2>3, <2>4
<1>8. LockOK(p, c, ilocked')
  BY <1>1, Here DEF LockOK, Locking
<1>9. Moves(p, c, im)
  BY <1>1, <1>3, <1>4, <1>5, <1>6, <1>7, <1>8, Here DEF Moves
<1> QED BY <1>9, MovesInv

\* What was got for the new image is freed, and exactly that.
LEMMA StepBad ==
  ASSUME ExecInv, NEW p \in Caller, Bad(p)
  PROVE  ExecInv'
<1> DEFINE o == call[p]
           im == image[p]
           c == Ending(o.sizes)
<1>1. /\ o.pc = "bad" /\ call' = [call EXCEPT ![p] = c] /\ UNCHANGED image
      /\ panicked' = (o.has /\ ~FreesExactly(o.table, o.sz))
      /\ free' = (IF o.has THEN free + Size(o.table) ELSE free)
      /\ ilocked' = [f \in Program |-> IF ilocked[f] = p THEN Nobody ELSE ilocked[f]]
  BY DEF Bad, IsAt, Ending
<1>2. /\ o \in CallType /\ CallOK(o) /\ o.has \in BOOLEAN
      /\ o.sizes \in Seq(Nat) /\ Len(o.sizes) \in Nat
  BY <1>1, Here DEF CallType
<1>3. panicked' = FALSE
  BY <1>1, <1>2 DEF CallOK, Growing
<1>4. /\ c \in CallType /\ CallOK(c) /\ c.pc = "free args" /\ c.has = FALSE /\ c.sizes = o.sizes
  BY <1>2, EndingOK
<1> HIDE DEF c
<1>5. free' + Counted(c, im) = free + Counted(o, im) /\ free' \in Int
  <2>1. /\ Size(o.table) \in Nat /\ Size(im.table) \in Nat /\ free \in Int
    BY <1>2, Here, CountedNat
  <2>2. Counted(c, im) = Len(c.sizes) + 0 + Size(im.table)
    BY <1>4, CountedHasNot
  <2>3. CASE o.has = TRUE
    <3>1. free' = free + Size(o.table) /\ Counted(o, im) = Len(o.sizes) + Size(o.table) + Size(im.table)
      BY <1>1, <2>3, CountedHas
    <3>2. Counted(c, im) = Len(o.sizes) + 0 + Size(im.table) /\ Len(o.sizes) \in Nat
      BY <1>2, <1>4, <2>2
    <3> HIDE DEF o, im
    <3> QED BY <2>1, <3>1, <3>2
  <2>4. CASE o.has = FALSE
    <3>1. free' = free /\ Counted(o, im) = Len(o.sizes) + 0 + Size(im.table)
      BY <1>1, <2>4, CountedHasNot
    <3>2. Counted(c, im) = Len(o.sizes) + 0 + Size(im.table) /\ Len(o.sizes) \in Nat
      BY <1>2, <1>4, <2>2
    <3> HIDE DEF o, im
    <3> QED BY <2>1, <3>1, <3>2
  <2> QED BY <1>2, <2>3, <2>4
<1>6. LockOK(p, c, ilocked') /\ ilocked' \in [Program -> Caller \cup {Nobody}]
  <2>1. ilocked' \in [Program -> Caller \cup {Nobody}]
    BY <1>1, Here
  <2>2. ASSUME NEW f \in Program PROVE ilocked'[f] # p
    BY <1>1, Numbers
  <2> QED BY <2>1, <2>2 DEF LockOK
<1>7. \A q \in Caller \ {p}, f \in Program : ilocked'[f] = q => ilocked[f] = q
  BY <1>1, Numbers
<1>8. Moves(p, c, im)
  BY <1>1, <1>3, <1>4, <1>5, <1>6, <1>7, Here DEF Moves
<1> QED BY <1>8, MovesInv

-----------------------------------------------------------------------------
(* All of them                                                             *)

\* The image that every process starts with.
LEMMA FirstOK == First \in Images /\ ImageOK(First) /\ Size(First.table) \in Nat
<1>1. 3 * PGSIZE \in Nat /\ Roundup(3 * PGSIZE) = 3
  BY RoundsExact
<1>2. /\ First.table.mapped = 0 .. 2 /\ First.table.guard = {1} /\ First.table.tables = {-1, 0}
      /\ First.sz = 3 * PGSIZE
  BY DEF First
<1>3. First \in Images
  BY <1>1 DEF First, Images, Tables
<1>4. IsFiniteSet({-1, 0})
  <2>1. IsFiniteSet({-1}) /\ {-1} \cup {0} = {-1, 0}
    BY FS_Singleton
  <2>2. IsFiniteSet({-1} \cup {0})
    BY <2>1, FS_AddElement
  <2> QED BY <2>1, <2>2
<1>5. FreesExactly(First.table, First.sz) /\ First.table.guard = {Roundup(First.sz) - 2}
  BY <1>1, <1>2 DEF FreesExactly, Pages
<1>6. ImageOK(First)
  BY <1>2, <1>4, <1>5 DEF ImageOK
<1> QED BY <1>3, <1>6, Blank, CountedNat

LEMMA ExecInitInv == ASSUME ExecInit PROVE ExecInv
<1> DEFINE n == Size(First.table)
<1>1. /\ free = NPAGES /\ image = [p \in Caller |-> First] /\ call = [p \in Caller |-> Idle]
      /\ ilocked = [f \in Program |-> Nobody] /\ panicked = FALSE
  BY DEF ExecInit
<1>2. ExecTypeOK
  BY <1>1, Blank, FirstOK, Numbers DEF ExecTypeOK
<1>3. \A p \in Caller : CallOK(call[p]) /\ ImageOK(image[p]) /\ LockOK(p, call[p], ilocked)
  BY <1>1, Blank, FirstOK, Numbers DEF LockOK
<1>4. Cardinality(InUse) = Cardinality(Caller) * n
  <2>1. n \in Nat
    BY FirstOK
  <2>2. ASSUME NEW p \in Caller PROVE Holds(p) = n
    <3>1. Idle.has = FALSE /\ Len(Idle.sizes) = 0
      BY Blank
    <3>2. Counted(Idle, First) = Len(Idle.sizes) + 0 + n
      BY <3>1, CountedHasNot
    <3>3. Holds(p) = Counted(Idle, First)
      BY <1>1 DEF Holds, Counted
    <3> HIDE DEF n
    <3> QED BY <2>1, <3>1, <3>2, <3>3
  <2> HIDE DEF n
  <2>3. InUse = Caller \X (1 .. n)
    BY <2>2 DEF InUse
  <2>4. IsFiniteSet(1 .. n) /\ Cardinality(1 .. n) = n
    BY <2>1, FS_Interval
  <2>5. Cardinality(Caller \X (1 .. n)) = Cardinality(Caller) * Cardinality(1 .. n)
    BY <2>4, Numbers, FS_Product
  <2> QED BY <2>3, <2>4, <2>5
<1>5. free + Cardinality(InUse) = Total
  BY <1>1, <1>4 DEF Total
<1> QED BY <1>2, <1>3, <1>5 DEF ExecInv

LEMMA ExecNextInv == ASSUME ExecInv, ExecNext PROVE ExecInv'
<1>1. PICK p \in Caller :
    \/ SysExec(p) \/ (\E size \in ArgSizes : Fetch(p, size)) \/ FetchFails(p) \/ Fetched(p) \/ FreeArgs(p)
    \/ (\E f \in Program : OpenFile(p, f)) \/ NoFile(p) \/ ReadHeader(p) \/ Segment(p) \/ Uvmalloc(p)
    \/ UvmallocFails(p) \/ Loadseg(p) \/ Loaded(p) \/ Stack(p) \/ Push(p) \/ Commit(p) \/ Bad(p)
  BY DEF ExecNext
<1>2. CASE \E size \in ArgSizes : Fetch(p, size)
  BY <1>2, StepFetch
<1>3. CASE \E f \in Program : OpenFile(p, f)
  BY <1>3, StepOpenFile
<1> QED
  BY <1>1, <1>2, <1>3, StepSysExec, StepToFree, StepFetched, StepFreeArgs, StepReadHeader, StepSegment,
     StepUvmalloc, StepUvmallocFails, StepLoadseg, StepLoaded, StepStack, StepPush, StepCommit, StepBad

LEMMA StutterInv == ASSUME ExecInv, UNCHANGED execVars PROVE ExecInv'
  BY DEF ExecInv, execVars, ExecTypeOK, InUse, Holds

LEMMA InvExact == ASSUME ExecInv PROVE ExecExact
  BY DEF ExecInv, ExecTypeOK, ImageOK, CallOK, LockOK, Locking, ExecExact

\* However many processes exec() at once, and wherever each of them fails, no page is
\* lost and none is freed twice, no inode stays locked, nothing that exec() and the
\* freeing of page tables assert fails, and every image has exactly the pages that its
\* size says, with a guard below the page of the stack.
THEOREM ExecLosesNothing == ExecSpec => []ExecExact
<1>1. ExecInit => ExecInv
  BY ExecInitInv
<1>2. ExecInv /\ [ExecNext]_execVars => ExecInv'
  BY ExecNextInv, StutterInv
<1>3. ExecInv => ExecExact
  BY InvExact
<1> QED BY <1>1, <1>2, <1>3, PTL DEF ExecSpec

=============================================================================
