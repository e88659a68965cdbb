---------------------------------- MODULE Log ----------------------------------
(***************************************************************************)
(* The write-ahead log of kernel/log.c with the pins of kernel/bio.c that it *)
(* relies on, for any number of file-system calls, and crashes at any moment *)
(* (the two kernels have the same log.c and bio.c).                          *)
(*                                                                          *)
(* A step is a critical section of log.lock, or one bwrite().  A call that   *)
(* modifies a block does bread(), log_write() and brelse() in one step: it   *)
(* holds the sleep lock of the buffer, and no commit can run in between.     *)
(***************************************************************************)
EXTENDS Integers, Sequences, FiniteSets

CONSTANTS
  Proc, Block,
  Value,        \* contents of a block
  Torn,         \* contents of a block whose write was cut off by a crash
  MAXOPBLOCKS, LOGSIZE,
  NLOG,         \* sb.nlog, the blocks of the log on disk with its header
  OpBlocks      \* the blocks that a file-system call really writes, at most

\* The reservation of begin_op() is for LOGSIZE blocks, but log_write() panics once
\* NLOG - 1 blocks are in the transaction: the calls have to leave some of what they
\* are entitled to.
ASSUME LogAssumption ==
  /\ Torn \notin Value /\ IsFiniteSet(Proc)
  /\ {MAXOPBLOCKS, LOGSIZE, NLOG, OpBlocks} \subseteq Nat
  /\ OpBlocks < MAXOPBLOCKS /\ MAXOPBLOCKS <= LOGSIZE
  /\ LOGSIZE - (MAXOPBLOCKS - OpBlocks) < NLOG - 1

VARIABLES
  home,         \* on disk: the blocks at their places
  dlog,         \* on disk: the blocks of the log
  hdr,          \* on disk: the block numbers in the log header
  buf,          \* the buffer cache
  pinned,       \* the blocks that log_write() has pinned in the cache
  lh,           \* log.lh.block[0 .. log.lh.n - 1]
  outstanding,  \* log.outstanding
  committing,   \* log.committing
  phase,        \* where commit() or recover_from_log() is
  tail,         \* its index into lh
  pc,           \* where p's file-system call is
  wrote         \* the blocks that it has written

disk == <<home, dlog, hdr>>
log == <<lh, outstanding, committing>>
vars == <<disk, buf, pinned, log, phase, tail, pc, wrote>>

Phase == {"read_head", "recover", "run", "write_log", "install", "committed"}
PcLabel == {"out", "begin_op", "asleep", "in", "commit"}

Up == phase \notin {"read_head", "recover"}
InLog(b) == \E i \in DOMAIN lh : lh[i] = b

-----------------------------------------------------------------------------
(* begin_op(), log_write(), end_op()                                       *)

Call(p) ==
  /\ Up /\ pc[p] = "out"
  /\ pc' = [pc EXCEPT ![p] = "begin_op"]
  /\ wrote' = [wrote EXCEPT ![p] = {}]
  /\ UNCHANGED <<disk, buf, pinned, log, phase, tail>>

\* Mutant: the blocks of calls that have ended are not counted.
FreshSpace == (outstanding + 1) * MAXOPBLOCKS <= LOGSIZE

\* The log can take one more call.
Space == Len(lh) + (outstanding + 1) * MAXOPBLOCKS <= LOGSIZE

BeginOp(p) ==
  /\ Up /\ pc[p] = "begin_op"
  /\ ~committing /\ Space
  /\ outstanding' = outstanding + 1
  /\ pc' = [pc EXCEPT ![p] = "in"]
  /\ UNCHANGED <<disk, buf, pinned, lh, committing, phase, tail, wrote>>

\* sleep(&log, &log.lock).
BeginOpSleep(p) ==
  /\ Up /\ pc[p] = "begin_op"
  /\ committing \/ ~Space
  /\ pc' = [pc EXCEPT ![p] = "asleep"]
  /\ UNCHANGED <<disk, buf, pinned, log, phase, tail, wrote>>

\* wakeup(&log), with p's own way on.
Wakeup(p, l) ==
  pc' = [q \in Proc |-> IF q = p THEN l ELSE IF pc[q] = "asleep" THEN "begin_op" ELSE pc[q]]

\* p modifies block b: bread(), log_write(), brelse().
LogWrite(p, b, v) ==
  /\ Up /\ pc[p] = "in"
  /\ Cardinality(wrote[p] \cup {b}) <= OpBlocks
  /\ buf' = [buf EXCEPT ![b] = v]
  /\ lh' = IF InLog(b) THEN lh ELSE Append(lh, b)
  /\ pinned' = pinned \cup {b}
  /\ wrote' = [wrote EXCEPT ![p] = @ \cup {b}]
  /\ UNCHANGED <<disk, outstanding, committing, phase, tail, pc>>

\* Another call is under way: its end will commit.
EndOp(p) ==
  /\ Up /\ pc[p] = "in" /\ outstanding > 1
  /\ outstanding' = outstanding - 1
  /\ Wakeup(p, "out")
  /\ UNCHANGED <<disk, buf, pinned, lh, committing, phase, tail, wrote>>

EndOpLast(p) ==
  /\ Up /\ pc[p] = "in" /\ outstanding = 1
  /\ outstanding' = 0
  /\ committing' = TRUE
  /\ phase' = IF lh = <<>> THEN "committed" ELSE "write_log"
  /\ tail' = 1
  /\ pc' = [pc EXCEPT ![p] = "commit"]
  /\ UNCHANGED <<disk, buf, pinned, lh, wrote>>

\* Mutant: the callers that sleep in begin_op() are not woken up.
CommittedSilent(p) ==
  /\ pc[p] = "commit" /\ phase = "committed"
  /\ committing' = FALSE
  /\ phase' = "run"
  /\ pc' = [pc EXCEPT ![p] = "out"]
  /\ UNCHANGED <<disk, buf, pinned, lh, outstanding, tail, wrote>>

\* commit() has returned to end_op().
Committed(p) ==
  /\ pc[p] = "commit" /\ phase = "committed"
  /\ committing' = FALSE
  /\ phase' = "run"
  /\ Wakeup(p, "out")
  /\ UNCHANGED <<disk, buf, pinned, lh, outstanding, tail, wrote>>

-----------------------------------------------------------------------------
(* commit() and recover_from_log()                                         *)

\* What bread() may return: a buffer that nobody has pinned may have been
\* recycled since, and is then read from disk.
Bread(b) == IF b \in pinned THEN {buf[b]} ELSE {buf[b], home[b]}

WriteLog ==
  /\ phase = "write_log" /\ tail <= Len(lh)
  /\ \E v \in Bread(lh[tail]) : /\ dlog' = [dlog EXCEPT ![tail] = v]
                                /\ buf' = [buf EXCEPT ![lh[tail]] = v]
  /\ tail' = tail + 1
  /\ UNCHANGED <<home, hdr, pinned, log, phase, pc, wrote>>

\* The true commit.
WriteHead ==
  /\ phase = "write_log" /\ tail > Len(lh)
  /\ hdr' = lh
  /\ phase' = "install" /\ tail' = 1
  /\ UNCHANGED <<home, dlog, buf, pinned, log, pc, wrote>>

\* One turn of install_trans(), which unpins the block unless it recovers.
Install ==
  /\ phase \in {"install", "recover"} /\ tail <= Len(lh)
  /\ home' = [home EXCEPT ![lh[tail]] = dlog[tail]]
  /\ buf' = [buf EXCEPT ![lh[tail]] = dlog[tail]]
  /\ pinned' = IF phase = "install" THEN pinned \ {lh[tail]} ELSE pinned
  /\ tail' = tail + 1
  /\ UNCHANGED <<dlog, hdr, log, phase, pc, wrote>>

\* Mutant: the log is erased before its last block is installed.
ClearEarly ==
  /\ phase \in {"install", "recover"} /\ tail >= Len(lh)
  /\ hdr' = <<>>
  /\ lh' = <<>>
  /\ phase' = IF phase = "install" THEN "committed" ELSE "run"
  /\ UNCHANGED <<home, dlog, buf, pinned, outstanding, committing, tail, pc, wrote>>

\* The transaction is erased from the log.
Clear ==
  /\ phase \in {"install", "recover"} /\ tail > Len(lh)
  /\ hdr' = <<>>
  /\ lh' = <<>>
  /\ phase' = IF phase = "install" THEN "committed" ELSE "run"
  /\ UNCHANGED <<home, dlog, buf, pinned, outstanding, committing, tail, pc, wrote>>

ReadHead ==
  /\ phase = "read_head"
  /\ lh' = hdr
  /\ phase' = "recover" /\ tail' = 1
  /\ UNCHANGED <<disk, buf, pinned, outstanding, committing, pc, wrote>>

-----------------------------------------------------------------------------
\* The blocks that a bwrite() under way may leave torn.  The header is written
\* atomically: its fields lie in the first of its two sectors.
TornHome == IF phase \in {"install", "recover"} /\ tail <= Len(lh) THEN {lh[tail]} ELSE {}
TornLog == IF phase = "write_log" /\ tail <= Len(lh) THEN {tail} ELSE {}

\* The machine stops, possibly in the middle of a bwrite(), and boots.
Crash ==
  /\ \E S \in SUBSET TornHome, T \in SUBSET TornLog :
       /\ home' = [b \in Block |-> IF b \in S THEN Torn ELSE home[b]]
       /\ dlog' = [i \in DOMAIN dlog |-> IF i \in T THEN Torn ELSE dlog[i]]
  /\ buf' = home'
  /\ pinned' = {} /\ lh' = <<>> /\ outstanding' = 0 /\ committing' = FALSE
  /\ phase' = "read_head" /\ tail' = 1
  /\ pc' = [p \in Proc |-> "out"] /\ wrote' = [p \in Proc |-> {}]
  /\ UNCHANGED hdr

\* A file system as mkfs leaves it, with an empty log.
Init ==
  /\ home \in [Block -> Value]
  /\ \E v \in Value : dlog = [i \in 1 .. NLOG - 1 |-> v]
  /\ hdr = <<>>
  /\ buf = home
  /\ pinned = {} /\ lh = <<>> /\ outstanding = 0 /\ committing = FALSE
  /\ phase = "read_head" /\ tail = 1
  /\ pc = [p \in Proc |-> "out"] /\ wrote = [p \in Proc |-> {}]

Next ==
  \/ \E p \in Proc :
       \/ Call(p) \/ BeginOp(p) \/ BeginOpSleep(p)
       \/ \E b \in Block, v \in Value : LogWrite(p, b, v)
       \/ EndOp(p) \/ EndOpLast(p) \/ Committed(p)
  \/ WriteLog \/ WriteHead \/ Install \/ Clear
  \/ ReadHead \/ Crash

Spec == Init /\ [][Next]_vars

-----------------------------------------------------------------------------
(* Properties                                                              *)

Content == Value \cup {Torn}

\* Every variable has its type; a transaction lists no block twice (the "log
\* absorption" of log_write()).
TypeOK ==
  /\ home \in [Block -> Content] /\ buf \in [Block -> Content]
  /\ dlog \in [1 .. NLOG - 1 -> Content]
  /\ \A s \in {hdr, lh} : /\ s \in Seq(Block) /\ Len(s) < NLOG
                          /\ \A i, j \in DOMAIN s : s[i] = s[j] => i = j
  /\ pinned \in SUBSET Block
  /\ outstanding \in 0 .. Cardinality(Proc)
  /\ committing \in BOOLEAN
  /\ phase \in Phase
  /\ tail \in 1 .. NLOG
  /\ pc \in [Proc -> PcLabel]
  /\ wrote \in [Proc -> SUBSET Block]

\* Every call in progress can still write the MAXOPBLOCKS blocks it is entitled
\* to (log.c:134), and log_write() never panics with "too big a transaction".
Reserved ==
  LET calls == {p \in Proc : pc[p] = "in"}
  IN  /\ outstanding = Cardinality(calls)
      /\ calls # {} => Len(lh) < LOGSIZE /\ Len(lh) < NLOG - 1
      /\ Len(lh) + outstanding * MAXOPBLOCKS
           <= LOGSIZE + Cardinality(UNION {wrote[p] : p \in calls})

\* Whoever sleeps in begin_op() will be woken: a commit or a call is under way.
SleepersWoken ==
  (\E p \in Proc : pc[p] = "asleep") => committing \/ outstanding > 0

\* What a crash leaves: the log, if it is committed, over the disk.
Recovered ==
  [b \in Block |-> IF \E i \in DOMAIN hdr : hdr[i] = b
                   THEN dlog[CHOOSE i \in DOMAIN hdr : hdr[i] = b] ELSE home[b]]

\* What a running kernel reads.
Current == IF Up THEN [b \in Block |-> IF b \in pinned THEN buf[b] ELSE home[b]]
           ELSE Recovered

Atomic == INSTANCE Transactions WITH
            current <- Current, durable <- Recovered,
            active <- {p \in Proc : pc[p] = "in"}

\* log.c implements atomic transactions: its durable contents change only at the
\* write of the header, when no call is half way, and to what every call that
\* has ended saw; crashes during commit and recovery included.
AtomicSpec == Atomic!Spec

=============================================================================
