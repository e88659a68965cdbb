------------------------------ MODULE BufferCache ------------------------------
(***************************************************************************)
(* The buffer cache (bio.c) with its sleep locks (sleeplock.c), over the    *)
(* virtio disk driver (virtio_disk.c) and the device.  A step is what one   *)
(* spinlock protects: bcache.lock, the lock of a sleep lock, vdisk_lock.    *)
(*                                                                         *)
(* A client has one buffer at a time, and writes a buffer it has modified   *)
(* before it releases it; log.c keeps modified buffers pinned instead (Log).*)
(***************************************************************************)
EXTENDS Integers, Sequences, FiniteSets, SequencesExt

CONSTANTS Caller, Block, Content,
          NBUF, NUM,          \* buffers; descriptors of the ring
          Nothing

BufferAssumption ==
  /\ NBUF \in Nat /\ NUM \in Nat /\ NUM >= 3
  /\ IsFiniteSet(Caller) /\ Nothing \notin Caller \cup Block

ASSUME BufferConstants == BufferAssumption

VARIABLES blockno, valid, refcnt, bdata,     \* per buffer
          lru,                               \* the list, most recently used first
          locked,                            \* b->lock: its owner
          bdisk,                             \* b->disk: the device has the buffer
          io, buf, write,                    \* per process: its buffer, the request
          chain, free, info,                 \* the driver: descriptors in use and free
          avail, used,                       \* heads: given to the device, given back
          disk,                              \* the blocks themselves
          panicked                           \* bget() has panicked

cache == <<blockno, valid, refcnt, lru>>
driver == <<chain, free, info, avail, used>>
bufferVars == <<cache, bdata, locked, bdisk, io, buf, write, driver, disk, panicked>>

Buf == 1 .. NBUF
Desc == 0 .. NUM - 1

BufferInit ==
  /\ blockno = [i \in Buf |-> Nothing] /\ valid = [i \in Buf |-> FALSE]
  /\ refcnt = [i \in Buf |-> 0]
  /\ lru = Reverse([i \in Buf |-> i])
  /\ locked = [i \in Buf |-> Nothing] /\ bdisk = [i \in Buf |-> FALSE]
  /\ io = [p \in Caller |-> "idle"] /\ buf = [p \in Caller |-> 0]
  /\ write = [p \in Caller |-> FALSE]
  /\ chain = [p \in Caller |-> <<>>] /\ free = Desc /\ info = [d \in Desc |-> 0]
  /\ avail = {} /\ used = <<>>
  /\ disk \in [Block -> Content]
  /\ \E v \in Content : bdata = [i \in Buf |-> v]
  /\ panicked = FALSE

Go(p, l) == io' = [io EXCEPT ![p] = l]

\* bget(), under bcache.lock: the block is cached ...
BgetCached(p, b) ==
  /\ io[p] = "idle"
  /\ \E i \in Buf : /\ blockno[i] = b
                    /\ refcnt' = [refcnt EXCEPT ![i] = @ + 1]
                    /\ buf' = [buf EXCEPT ![p] = i]
  /\ Go(p, "lock")
  /\ UNCHANGED <<blockno, valid, lru, bdata, locked, bdisk, write, driver, disk>>

\* ... or the least recently used buffer with no reference is recycled.
Unused == {k \in DOMAIN lru : refcnt[lru[k]] = 0}
\* Mutant: the buffer stays valid.
BgetStale(p, b) ==
  /\ io[p] = "idle"
  /\ b \notin {blockno[i] : i \in Buf}
  /\ \E k \in Unused :
       /\ \A j \in Unused : j <= k
       /\ blockno' = [blockno EXCEPT ![lru[k]] = b]
       /\ refcnt' = [refcnt EXCEPT ![lru[k]] = 1]
       /\ buf' = [buf EXCEPT ![p] = lru[k]]
  /\ Go(p, "lock")
  /\ UNCHANGED <<valid, lru, bdata, locked, bdisk, write, driver, disk>>

BgetRecycle(p, b) ==
  /\ io[p] = "idle"
  /\ b \notin {blockno[i] : i \in Buf}
  /\ \E k \in Unused :
       /\ \A j \in Unused : j <= k
       /\ blockno' = [blockno EXCEPT ![lru[k]] = b]
       /\ valid' = [valid EXCEPT ![lru[k]] = FALSE]
       /\ refcnt' = [refcnt EXCEPT ![lru[k]] = 1]
       /\ buf' = [buf EXCEPT ![p] = lru[k]]
  /\ Go(p, "lock")
  /\ UNCHANGED <<lru, bdata, locked, bdisk, write, driver, disk>>

\* "bget: no buffers".
BgetPanic(p, b) ==
  /\ io[p] = "idle"
  /\ b \notin {blockno[i] : i \in Buf} /\ Unused = {}
  /\ panicked' = TRUE
  /\ UNCHANGED <<cache, bdata, locked, bdisk, io, buf, write, driver, disk>>

\* acquiresleep(), and then bread() looks at valid.
AcquireSleep(p) ==
  /\ io[p] = "lock"
  /\ IF locked[buf[p]] # Nothing
     THEN Go(p, "sleeplock") /\ UNCHANGED locked
     ELSE /\ locked' = [locked EXCEPT ![buf[p]] = p]
          /\ Go(p, IF valid[buf[p]] THEN "have" ELSE "rw")
  /\ UNCHANGED <<cache, bdata, bdisk, buf, write, driver, disk>>

\* The client changes the buffer it has and calls bwrite().
Bwrite(p, v) ==
  /\ io[p] = "have"
  /\ bdata' = [bdata EXCEPT ![buf[p]] = v]
  /\ write' = [write EXCEPT ![p] = TRUE]
  /\ Go(p, "rw")
  /\ UNCHANGED <<cache, locked, bdisk, buf, driver, disk>>

\* brelse(): releasesleep() first, the count and the list after it.
ToHead(s, k) == [j \in DOMAIN s |-> s[CASE j = 1 -> k [] j \in 2 .. k -> j - 1 [] OTHER -> j]]
ReleaseSleep(p) ==
  /\ io[p] = "have"
  /\ locked' = [locked EXCEPT ![buf[p]] = Nothing]
  /\ io' = [q \in Caller |-> CASE q = p -> "release"
                             [] q # p /\ io[q] = "sleeplock" /\ buf[q] = buf[p] -> "lock"
                             [] OTHER -> io[q]]
  /\ UNCHANGED <<cache, bdata, bdisk, buf, write, driver, disk>>

Brelse(p) ==
  /\ io[p] = "release"
  /\ refcnt' = [refcnt EXCEPT ![buf[p]] = @ - 1]
  /\ \E k \in DOMAIN lru :
       lru[k] = buf[p] /\ lru' = IF refcnt'[buf[p]] = 0 THEN ToHead(lru, k) ELSE lru
  /\ buf' = [buf EXCEPT ![p] = 0]
  /\ Go(p, "idle")
  /\ UNCHANGED <<blockno, valid, bdata, locked, bdisk, write, driver, disk>>

\* free_desc() wakes everybody who waits for descriptors.
WokenForDesc == [q \in Caller |-> IF io[q] = "sleepdesc" THEN "rw" ELSE io[q]]

\* virtio_disk_rw(): three descriptors, the lowest free ones, or sleep; a failed
\* alloc3_desc() that had taken some gives them back and so wakes the others.
RwSubmit(p) ==
  /\ io[p] = "rw"
  /\ \E a, b, c \in free :
       /\ a < b /\ b < c /\ \A d \in free \ {a, b, c} : c < d
       /\ chain' = [chain EXCEPT ![p] = <<a, b, c>>]
       /\ free' = free \ {a, b, c}
       /\ info' = [info EXCEPT ![a] = buf[p]]
       /\ avail' = avail \cup {a}
  /\ bdisk' = [bdisk EXCEPT ![buf[p]] = TRUE]
  /\ Go(p, "sleepio")
  /\ UNCHANGED <<cache, bdata, locked, buf, write, used, disk>>

RwNoDesc(p) ==
  /\ io[p] = "rw" /\ Cardinality(free) < 3
  /\ io' = [IF free = {} THEN io ELSE WokenForDesc EXCEPT ![p] = "sleepdesc"]
  /\ UNCHANGED <<cache, bdata, locked, bdisk, buf, write, driver, disk>>

\* The device serves a chain that it was given, in whatever order.
Asker(d) == CHOOSE p \in Caller : chain[p] # <<>> /\ chain[p][1] = d
Device(d) ==
  /\ d \in avail
  /\ LET i == info[d] b == blockno[i] IN
     IF write[Asker(d)]
     THEN disk' = [disk EXCEPT ![b] = bdata[i]] /\ UNCHANGED bdata
     ELSE bdata' = [bdata EXCEPT ![i] = disk[b]] /\ UNCHANGED disk
  /\ avail' = avail \ {d}
  /\ used' = Append(used, d)
  /\ UNCHANGED <<cache, locked, bdisk, io, buf, write, chain, free, info>>

\* virtio_disk_intr() goes through all the heads the device has given back.
Done == {info[used[k]] : k \in DOMAIN used}
Intr ==
  /\ used # <<>>
  /\ bdisk' = [i \in Buf |-> bdisk[i] /\ i \notin Done]
  /\ used' = <<>>
  /\ io' = [p \in Caller |-> IF io[p] = "sleepio" /\ buf[p] \in Done THEN "done" ELSE io[p]]
  /\ UNCHANGED <<cache, bdata, locked, buf, write, chain, free, info, avail, disk>>

\* Mutant: the rest of the chain is not freed.
RwDoneLeaks(p) ==
  /\ io[p] = "done" /\ ~bdisk[buf[p]]
  /\ info' = [info EXCEPT ![chain[p][1]] = 0]
  /\ free' = free \cup {chain[p][1]}
  /\ chain' = [chain EXCEPT ![p] = <<>>]
  /\ valid' = [valid EXCEPT ![buf[p]] = TRUE]
  /\ write' = [write EXCEPT ![p] = FALSE]
  /\ io' = [WokenForDesc EXCEPT ![p] = "have"]
  /\ UNCHANGED <<blockno, refcnt, lru, bdata, locked, bdisk, buf, avail, used, disk>>

\* The end of virtio_disk_rw(): free_chain(); bread() sets valid.
RwDone(p) ==
  /\ io[p] = "done" /\ ~bdisk[buf[p]]
  /\ info' = [info EXCEPT ![chain[p][1]] = 0]
  /\ free' = free \cup ToSet(chain[p])
  /\ chain' = [chain EXCEPT ![p] = <<>>]
  /\ valid' = [valid EXCEPT ![buf[p]] = TRUE]
  /\ write' = [write EXCEPT ![p] = FALSE]
  /\ io' = [WokenForDesc EXCEPT ![p] = "have"]
  /\ UNCHANGED <<blockno, refcnt, lru, bdata, locked, bdisk, buf, avail, used, disk>>

Serve(p) ==
  \/ AcquireSleep(p) \/ RwSubmit(p) \/ RwNoDesc(p) \/ RwDone(p) \/ ReleaseSleep(p) \/ Brelse(p)

BufferStep ==
  \/ \E p \in Caller : \/ Serve(p)
                     \/ \E b \in Block : BgetCached(p, b) \/ BgetRecycle(p, b)
                     \/ \E v \in Content : Bwrite(p, v)
  \/ \E d \in Desc : Device(d)
  \/ Intr

\* panic() is with bcache.lock held: nothing of the cache moves any more.
BufferNext ==
  /\ ~panicked
  /\ \/ BufferStep /\ UNCHANGED panicked
     \/ \E p \in Caller, b \in Block : BgetPanic(p, b)

BufferSpec == BufferInit /\ [][BufferNext]_bufferVars

-----------------------------------------------------------------------------

\* The cache and the driver store blocks: a block has one buffer and one owner, a
\* buffer is recycled only when nobody is on the way to its lock, and what the
\* device reads and writes in between, in whatever order, changes no value.  A step
\* of BlockStore need not be looked for when no variable of the cache changes.
ValueOf(b) ==
  IF \E i \in Buf : blockno[i] = b /\ valid[i]
  THEN bdata[CHOOSE i \in Buf : blockno[i] = b /\ valid[i]]
  ELSE disk[b]
OwnerOf(b) ==
  IF \E i \in Buf : blockno[i] = b /\ valid[i]
  THEN locked[CHOOSE i \in Buf : blockno[i] = b /\ valid[i]]
  ELSE Nothing
Stored == INSTANCE BlockStore WITH Proc <- Caller, Value <- Content, None <- Nothing,
                                   value <- [b \in Block |-> ValueOf(b)],
                                  owner <- [b \in Block |-> OwnerOf(b)]
StoresBlocks ==
  Stored!StoreInit /\ [][bufferVars' # bufferVars => Stored!StoreNext]_(Stored!store)

\* What no process has is on the disk: bwrite() returns only when it is.  Each
\* descriptor is free or in one chain, so that free_desc() does not panic; a request the
\* device has, or has given back, belongs to a process that sleeps until it is done; a
\* sleeper waits for what somebody still has, or will be woken up.  bget() finds a buffer
\* to recycle, and does not panic, as long as fewer than NBUF processes have one: no buffer
\* keeps a reference that nobody has.
IoExact ==
  /\ \A b \in Block : OwnerOf(b) = Nothing => disk[b] = ValueOf(b)
  /\ \A d \in Desc : (d \in free) <=> \A p \in Caller : d \notin ToSet(chain[p])
  /\ \A p, q \in Caller : p # q => ToSet(chain[p]) \cap ToSet(chain[q]) = {}
  /\ \A p \in Caller :
       /\ io[p] = "sleepio" => /\ bdisk[buf[p]] /\ info[chain[p][1]] = buf[p]
                               /\ chain[p][1] \in avail \cup ToSet(used)
       /\ io[p] = "done" => ~bdisk[buf[p]]
       /\ io[p] = "sleepdesc" => Cardinality(free) < 3
       /\ io[p] = "sleeplock" => locked[buf[p]] # Nothing
  /\ \A d \in avail \cup ToSet(used) : \E p \in Caller : io[p] = "sleepio" /\ chain[p][1] = d
  /\ \A i \in Buf : refcnt[i] = Cardinality({p \in Caller : buf[p] = i})
  /\ panicked \/ Unused = {} => Cardinality({p \in Caller : buf[p] # 0}) >= NBUF

=============================================================================
