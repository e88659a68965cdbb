-------------------------------- MODULE FileData --------------------------------
(***************************************************************************)
(* The contents of files in the blocks of the disk: bmap(), readi(),         *)
(* writei() and itrunc() of fs.c, and fileread() and filewrite() above them. *)
(* A unit is what BSIZE of make a block, a byte or a block number.  A step   *)
(* is a round of a loop: what the holder of the inode's lock does to one     *)
(* block.  balloc() is one step, under the lock of the bitmap's buffer.      *)
(*                                                                         *)
(* What bread() finds of a block is in its buffer (data).  log_write() pins  *)
(* the buffer until commit() has written it; an unpinned buffer may be       *)
(* recycled, and what log_write() was not told of (stored) is lost then.     *)
(*                                                                         *)
(* Every file has one open file struct, which the processes share.           *)
(***************************************************************************)
EXTENDS Integers, Sequences, FiniteSetsExt

CONSTANTS Proc, File,
          Byte,         \* what is written
          NBLOCKS, BSIZE, NDIRECT,
          MaxWrite,     \* what one transaction of filewrite() writes at most
          Lengths,      \* what read() and write() are asked for
          None

FileDataAssumption ==
  /\ NBLOCKS \in Nat /\ BSIZE \in Nat \ {0} /\ NDIRECT \in Nat /\ MaxWrite \in Nat \ {0}
  /\ Byte \subseteq Nat \ {0} /\ Lengths \subseteq Nat \ {0}

VARIABLES used, data,   \* the bitmap, and what bread() finds in the blocks
          stored,       \* what it finds when the buffer has been recycled
          pinned,       \* blocks of log.lh
          addrs, size,  \* per inode
          off,          \* per open file
          io            \* per process: the call it is in

disk == <<used, data, stored, pinned, addrs>>
fileVars == <<disk, size, off, io>>

DataBlock == 1 .. NBLOCKS
NINDIRECT == BSIZE          \* a block number takes a unit
MAXFILE == NDIRECT + NINDIRECT
Zeroes == [k \in 0 .. BSIZE - 1 |-> 0]
NoAddrs == [k \in 0 .. NDIRECT |-> 0]

\* left is what filewrite() has still to write, n what readi() or writei() was asked.
Idle == [pc |-> "idle", kind |-> "none", byte |-> 0, f |-> None, left |-> 0,
         n |-> 0, tot |-> 0, got |-> <<>>]

FileInit ==
  /\ used = {} /\ data = [b \in DataBlock |-> Zeroes] /\ stored = data /\ pinned = {}
  /\ addrs = [f \in File |-> NoAddrs] /\ size = [f \in File |-> 0]
  /\ off = [f \in File |-> 0]
  /\ io = [p \in Proc |-> Idle]

Lesser(a, b) == IF a < b THEN a ELSE b
Locked(f) == \E p \in Proc : io[p].f = f /\ io[p].pc \notin {"idle", "lock"}
At(p, l) == io[p].pc = l

-----------------------------------------------------------------------------
(* balloc() and bmap(): a disk is a record of the variables of disk, of one    *)
(* file.                                                                   *)

LogWrite(d, b) == [d EXCEPT !.stored[b] = d.data[b], !.pinned = @ \cup {b}]

Free(d) == DataBlock \ d.used
Balloc(d) == IF Free(d) = {} THEN 0 ELSE Min(Free(d))
Taken(d, b) ==
  IF b = 0 THEN d ELSE LogWrite([d EXCEPT !.used = @ \cup {b}, !.data[b] = Zeroes], b)

\* The block that has the number of block bn, if it is not in the inode.
WithIndirect(d) ==
  IF d.addrs[NDIRECT] # 0 THEN d ELSE [Taken(d, Balloc(d)) EXCEPT !.addrs[NDIRECT] = Balloc(d)]

Bmap(d, bn) ==
  IF bn < NDIRECT
  THEN IF d.addrs[bn] # 0 THEN d ELSE [Taken(d, Balloc(d)) EXCEPT !.addrs[bn] = Balloc(d)]
  ELSE LET e == WithIndirect(d) i == e.addrs[NDIRECT] IN
       IF i = 0 \/ e.data[i][bn - NDIRECT] # 0 \/ Balloc(e) = 0 THEN e
       ELSE LogWrite([Taken(e, Balloc(e)) EXCEPT !.data[i][bn - NDIRECT] = Balloc(e)], i)

\* The address that bmap() returns, of the disk that it leaves.
Addr(d, bn) ==
  IF bn < NDIRECT THEN d.addrs[bn]
  ELSE IF d.addrs[NDIRECT] = 0 THEN 0 ELSE d.data[d.addrs[NDIRECT]][bn - NDIRECT]

Disk(f) ==
  [used |-> used, data |-> data, stored |-> stored, pinned |-> pinned, addrs |-> addrs[f]]
Becomes(f, d) ==
  /\ used' = d.used /\ data' = d.data /\ stored' = d.stored /\ pinned' = d.pinned
  /\ addrs' = [addrs EXCEPT ![f] = d.addrs]

\* commit(): no call is in a transaction; those of other files may put it off.
Commit ==
  /\ pinned # {}
  /\ \A p \in Proc : io[p].kind = "write" => At(p, "lock")
  /\ pinned' = {}
  /\ UNCHANGED <<used, data, stored, addrs, size, off, io>>

\* bget() takes the buffer of block b for another one, and bread() reads b again.
Recycle(b) ==
  /\ b \notin pinned
  /\ data' = [data EXCEPT ![b] = stored[b]]
  /\ UNCHANGED <<used, stored, pinned, addrs, size, off, io>>

-----------------------------------------------------------------------------
(* fileread() and filewrite()                                              *)

CallRead(p, f, n) ==
  /\ At(p, "idle")
  /\ io' = [io EXCEPT ![p] = [Idle EXCEPT !.pc = "lock", !.kind = "read", !.f = f, !.left = n]]
  /\ UNCHANGED <<disk, size, off>>

CallWrite(p, f, n, byte) ==
  /\ At(p, "idle")
  /\ io' = [io EXCEPT ![p] = [Idle EXCEPT !.pc = "lock", !.kind = "write", !.byte = byte, !.f = f, !.left = n]]
  /\ UNCHANGED <<disk, size, off>>

\* readi() reads no more than there is; writei() does not begin beyond the end, and
\* fails if the file would get too long.
Ilock(p) ==
  LET f == io[p].f
      n == IF io[p].kind = "write" THEN Lesser(io[p].left, MaxWrite)
           ELSE IF off[f] > size[f] THEN 0 ELSE Lesser(io[p].left, size[f] - off[f])
      fails == io[p].kind = "write" /\ (off[f] > size[f] \/ off[f] + n > MAXFILE * BSIZE)
  IN /\ At(p, "lock")
     /\ ~Locked(f)
     /\ io' = IF fails THEN [io EXCEPT ![p] = Idle]
              ELSE [io EXCEPT ![p].pc = "copy", ![p].n = n, ![p].tot = 0]
     /\ UNCHANGED <<disk, size, off>>

Place(p) == off[io[p].f] + io[p].tot
Amount(p) == Lesser(io[p].n - io[p].tot, BSIZE - (Place(p) % BSIZE))


\* Mutant: a block is written from its beginning.
PlacedFirst(s, at, m, byte) == [k \in DOMAIN s |-> IF k < m THEN byte ELSE s[k]]

\* memmove() of m times the byte to what is at a place of the file, in its block.
Placed(s, at, m, byte) ==
  [k \in DOMAIN s |-> IF k >= at % BSIZE /\ k < (at % BSIZE) + m THEN byte ELSE s[k]]

\* A round of readi(); copyout() fails if the user's memory is not there.
Read(p) ==
  LET f == io[p].f
      d == Bmap(Disk(f), Place(p) \div BSIZE)
      b == Addr(d, Place(p) \div BSIZE)
      at == Place(p) % BSIZE
  IN /\ At(p, "copy") /\ io[p].kind = "read" /\ io[p].tot < io[p].n
     /\ Becomes(f, d)
     /\ \/ /\ b # 0
           /\ io' = [io EXCEPT ![p].tot = @ + Amount(p),
                               ![p].got = @ \o [k \in 1 .. Amount(p) |-> d.data[b][at + k - 1]]]
        \/ b # 0 /\ io' = [io EXCEPT ![p] = Idle]
        \/ b = 0 /\ io' = [io EXCEPT ![p].pc = "end"]
     /\ UNCHANGED <<size, off>>

\* A round of writei(): m units go to the buffer of a block.
Copied(p, d, b, m) == [d EXCEPT !.data[b] = Placed(@, Place(p), m, io[p].byte)]

\* commit() writes a pinned buffer, whatever is in it by then.
Unlogged(d, b) == IF b \in d.pinned THEN LogWrite(d, b) ELSE d

\* There is a block, and it is logged; or the user's memory ends after k, and log_write()
\* is not called; or there is no block.
Write(p) ==
  LET f == io[p].f
      d == Bmap(Disk(f), Place(p) \div BSIZE)
      b == Addr(d, Place(p) \div BSIZE)
  IN /\ At(p, "copy") /\ io[p].kind = "write" /\ io[p].tot < io[p].n
     /\ \/ /\ b # 0
           /\ Becomes(f, LogWrite(Copied(p, d, b, Amount(p)), b))
           /\ io' = [io EXCEPT ![p].tot = @ + Amount(p)]
        \/ \E k \in 0 .. Amount(p) - 1 :
             /\ b # 0
             /\ Becomes(f, Unlogged(Copied(p, d, b, k), b))
             /\ io' = [io EXCEPT ![p].pc = "end"]
        \/ b = 0 /\ Becomes(f, d) /\ io' = [io EXCEPT ![p].pc = "end"]
     /\ UNCHANGED <<size, off>>

\* filewrite() goes on if writei() has written what it was asked to.
Done(p) ==
  LET c == io[p] f == c.f IN
  /\ At(p, "end") \/ (At(p, "copy") /\ c.tot = c.n)
  /\ off' = [off EXCEPT ![f] = Place(p)]
  /\ size' = IF c.kind = "write" /\ Place(p) > size[f] THEN [size EXCEPT ![f] = Place(p)] ELSE size
  /\ io' = [io EXCEPT ![p] = IF c.kind = "write" /\ c.tot = c.n /\ c.n < c.left
                             THEN [c EXCEPT !.pc = "lock", !.left = @ - c.n, !.n = 0, !.tot = 0]
                             ELSE Idle]
  /\ UNCHANGED disk

\* itrunc(): open() with O_TRUNC, by whomever.
Truncate(f) ==
  LET i == addrs[f][NDIRECT] IN
  /\ ~Locked(f)
  /\ used' = used \ ({addrs[f][k] : k \in 0 .. NDIRECT} \cup
                     (IF i = 0 THEN {} ELSE {data[i][k] : k \in 0 .. NINDIRECT - 1}))
  /\ addrs' = [addrs EXCEPT ![f] = NoAddrs]
  /\ size' = [size EXCEPT ![f] = 0]
  /\ UNCHANGED <<data, stored, pinned, off, io>>

\* The file is opened again, when the open file is closed.
Reopen(f) ==
  /\ \A p \in Proc : io[p].f # f
  /\ off' = [off EXCEPT ![f] = 0]
  /\ UNCHANGED <<disk, size, io>>

FileNext ==
  \/ \E p \in Proc :
       \/ \E f \in File, n \in Lengths : CallRead(p, f, n) \/ \E byte \in Byte : CallWrite(p, f, n, byte)
       \/ Ilock(p) \/ Read(p) \/ Write(p) \/ Done(p)
  \/ \E f \in File : Truncate(f) \/ Reopen(f)
  \/ Commit \/ \E b \in DataBlock : Recycle(b)

FileSpec == FileInit /\ [][FileNext]_fileVars

-----------------------------------------------------------------------------
(* The files as FileStore has them.                                        *)

Holder(f) == {p \in Proc : io[p].f = f /\ io[p].pc \in {"copy", "end"}}

\* A write is seen as far as it is, although the size is set at its end.
End(f) == Max({size[f]} \cup {Place(p) : p \in {q \in Holder(f) : io[q].kind = "write"}})
Unit(f, k, blocks) ==
  LET b == Addr(Disk(f), k \div BSIZE) IN IF b \in DataBlock THEN blocks[b][k % BSIZE] ELSE -1
Units(blocks) == [f \in File |-> [k \in 1 .. End(f) |-> Unit(f, k - 1, blocks)]]
TurnOf(f) ==
  LET p == CHOOSE p \in Holder(f) : TRUE IN
  [kind |-> io[p].kind, byte |-> io[p].byte, n |-> io[p].n, done |-> io[p].tot, got |-> io[p].got]
NoTurn == [kind |-> "none", byte |-> 0, n |-> 0, done |-> 0, got |-> <<>>]

Store == INSTANCE FileStore WITH
  MaxSize <- MAXFILE * BSIZE, content <- Units(data), kept <- Units(stored), pos <- off,
  turn <- [f \in File |-> IF Holder(f) = {} THEN NoTurn ELSE TurnOf(f)]

\* Whatever the processes write and truncate, wherever a disk full or bad memory stops
\* them, whatever is committed and recycled in between, a file reads as it was written: no
\* block is in two files or in two places, and none brings what it held before.  Only where
\* a write was torn by bad memory a file may go back, once, to what it had there before,
\* until a write to the same block makes it last.
IsFileStore == Store!StoreSpec

=============================================================================
