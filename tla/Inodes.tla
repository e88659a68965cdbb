--------------------------------- MODULE Inodes ---------------------------------
(***************************************************************************)
(* Inodes, directories and path names: fs.c and the system calls of         *)
(* sysfile.c on paths.  The inode table, with its counts and its copies of  *)
(* inodes, is apart from the inodes on the disk; a step is what one holder  *)
(* of ip->lock does, or one holder of itable.lock.                          *)
(*                                                                         *)
(* Every call is a transaction (Log), and what a step leaves on the disk is *)
(* what the buffers hold.  A process has at most one open file.             *)
(***************************************************************************)
EXTENDS Integers, Sequences, FiniteSets

CONSTANTS Process,
          NINODES, NBLOCKS,   \* inodes and data blocks of the disk
          DPB,                \* directory entries of a block
          Name,               \* names other than "." and ".."
          Path,               \* path names, the first element "/" if absolute
          Call,               \* the system calls made
          Nobody

InodesAssumption ==
  /\ NINODES \in Nat \ {0} /\ NBLOCKS \in Nat \ {0} /\ DPB \in Nat /\ DPB >= 2
  /\ IsFiniteSet(Process) /\ Nobody \notin Process /\ IsFiniteSet(Name)
  /\ Name \cap {"/", ".", ".."} = {}
  /\ Path \subseteq Seq(Name \cup {"/", ".", ".."}) /\ <<>> \notin Path
  /\ \A path \in Path : \A k \in 2 .. Len(path) : path[k] # "/"
  /\ Call \subseteq {"open", "create", "mkdir", "unlink", "link", "chdir"}

\* What InodesExact and NoDeadlock are said of: with ".." a path may lead to an inode that
\* has been freed (NeverUntyped).
PathsGoDown == \A path \in Path : \A k \in 1 .. Len(path) : path[k] # ".."

VARIABLES disk,      \* per inode: type, nlink, addrs
          ent,       \* per directory: its entries
          used,      \* the bitmap
          ref, valid, mem, ilock,   \* per inode: its entry in the inode table
          sys,       \* per process: the call it is in
          cwd, file, \* per process: p->cwd, and the inode it has open
          lost,      \* history: inodes that nothing will free any more
          panicked

fs == <<disk, ent, used>>
itable == <<ref, valid, mem, ilock>>
inodeVars == <<fs, itable, sys, cwd, file, lost, panicked>>

Inum == 1 .. NINODES
Block == 1 .. NBLOCKS
ROOTINO == 1
FreeNode == [type |-> "none", nlink |-> 0, addrs |-> {}]
NoEntries == [n \in Name \cup {".."} |-> 0]

\* A call: where it is, the rest of its path, the inode dp it has walked to, the
\* other inode ip it has, the inodes it will iput() before it goes on (iunlockput()
\* if it has them locked), and how far it is with the first, which it has unlocked.
Idle == [pc |-> "idle", call |-> "none", path |-> <<>>, new |-> <<>>, name |-> "none",
         dp |-> 0, ip |-> 0, puts |-> <<>>, put |-> "no"]

\* mkfs has made the root directory, and every process begins there.
InodesInit ==
  /\ disk = [i \in Inum |-> IF i = ROOTINO THEN [type |-> "dir", nlink |-> 1, addrs |-> {1}] ELSE FreeNode]
  /\ ent = [i \in Inum |-> IF i = ROOTINO THEN [NoEntries EXCEPT ![".."] = ROOTINO] ELSE NoEntries]
  /\ used = {1}
  /\ ref = [i \in Inum |-> IF i = ROOTINO THEN Cardinality(Process) ELSE 0]
  /\ valid = [i \in Inum |-> FALSE] /\ mem = [i \in Inum |-> FreeNode]
  /\ ilock = [i \in Inum |-> Nobody]
  /\ sys = [p \in Process |-> Idle]
  /\ cwd = [p \in Process |-> ROOTINO] /\ file = [p \in Process |-> 0]
  /\ lost = {} /\ panicked = FALSE

\* The scan of ialloc() and balloc(): the first of S, or 0.
First(S) == IF S = {} THEN 0 ELSE CHOOSE n \in S : \A m \in S : n <= m
FreeBlocks == Block \ used
FreeInodes == {i \in Inum : disk[i].type = "none"}

AtPc(p, l) == sys[p].pc = l /\ sys[p].puts = <<>> /\ ~panicked
Done(p, q) == sys' = [sys EXCEPT ![p] = [Idle EXCEPT !.puts = q]]

\* ilock(): *ip is what it finds in the table or reads from the disk.
Inode(i) == IF valid[i] THEN mem[i] ELSE disk[i]
Untyped(i) == ~valid[i] /\ disk[i].type = "none"
Ilock(i) == ilock[i] = Nobody /\ ~Untyped(i)
Fetched(i) == valid' = [valid EXCEPT ![i] = TRUE] /\ mem' = [mem EXCEPT ![i] = Inode(i)]

\* iupdate(), of inodes that are locked: f gives those that change.
Iupdate(f) ==
  /\ valid' = [i \in Inum |-> valid[i] \/ i \in DOMAIN f]
  /\ mem' = [i \in Inum |-> IF i \in DOMAIN f THEN f[i] ELSE mem[i]]
  /\ disk' = [i \in Inum |-> IF i \in DOMAIN f THEN f[i] ELSE disk[i]]
Only(i, node) == [j \in {i} |-> node]
Links(i, k) == [Inode(i) EXCEPT !.nlink = @ + k]
Iget(i) == ref' = [ref EXCEPT ![i] = @ + 1]
Hold(p, i) == ilock' = [ilock EXCEPT ![i] = p]
Pass(p, i, j) == ilock' = [ilock EXCEPT ![i] = Nobody, ![j] = p]

Lookup(d, n) == IF n = "." THEN d ELSE ent[d][n]
\* dirlink() takes a block when the entries of directory d fill the blocks it has.
Entries(d) == 2 + Cardinality({n \in Name : ent[d][n] # 0})
Grows(d) == Entries(d) = DPB * Cardinality(Inode(d).addrs)
Grown(d, b) == IF Grows(d) THEN [Inode(d) EXCEPT !.addrs = @ \cup {b}] ELSE Inode(d)

\* namex(): the walk begins at the root or at p->cwd.
StartOf(p, path) == IF Head(path) = "/" THEN ROOTINO ELSE cwd[p]
Rest(path) == IF Head(path) = "/" THEN Tail(path) ELSE path
WantsParent(p) ==
  sys[p].call \in {"create", "mkdir", "unlink"} \/ (sys[p].call = "link" /\ sys[p].ip # 0)

Begin(p, k, path, new) ==
  /\ AtPc(p, "idle")
  /\ k # "link" => new = path
  /\ sys' = [sys EXCEPT ![p] = [Idle EXCEPT !.pc = "walk", !.call = k, !.path = Rest(path),
               !.new = IF k = "link" THEN new ELSE <<>>, !.dp = StartOf(p, path)]]
  /\ Iget(StartOf(p, path))
  /\ UNCHANGED <<fs, valid, mem, ilock, cwd, file, lost, panicked>>

\* The walk ends early, with dp to put: sys_link() has its "bad" label to go to.
NotFound(p) ==
  IF sys[p].call = "link" /\ sys[p].ip # 0
  THEN sys' = [sys EXCEPT ![p].pc = "bad", ![p].path = <<>>, ![p].dp = 0, ![p].puts = <<sys[p].dp>>]
  ELSE Done(p, <<sys[p].dp>>)

WalkEnds(p) == sys[p].path = <<>>
LastElement(p) == WantsParent(p) /\ Len(sys[p].path) = 1

WalkOn(p) ==
  LET d == sys[p].dp next == Lookup(d, Head(sys[p].path)) IN
  /\ AtPc(p, "walk") /\ ~WalkEnds(p) /\ ~LastElement(p)
  /\ Ilock(d) /\ Fetched(d)
  /\ Inode(d).type = "dir" /\ next # 0
  /\ Iget(next)
  /\ sys' = [sys EXCEPT ![p].dp = next, ![p].path = Tail(@), ![p].puts = <<d>>]
  /\ UNCHANGED <<fs, ilock, cwd, file, lost, panicked>>

WalkFails(p) ==
  LET d == sys[p].dp IN
  /\ AtPc(p, "walk")
  /\ IF WalkEnds(p) THEN WantsParent(p) /\ UNCHANGED <<valid, mem>>
     ELSE /\ Ilock(d) /\ Fetched(d)
          /\ Inode(d).type # "dir" \/ (~LastElement(p) /\ Lookup(d, Head(sys[p].path)) = 0)
  /\ NotFound(p)
  /\ UNCHANGED <<fs, ref, ilock, cwd, file, lost, panicked>>

WalkParent(p) ==
  LET d == sys[p].dp IN
  /\ AtPc(p, "walk") /\ LastElement(p)
  /\ Ilock(d) /\ Fetched(d)
  /\ Inode(d).type = "dir"
  /\ sys' = [sys EXCEPT ![p].pc = "parent", ![p].path = <<>>, ![p].name = Head(sys[p].path)]
  /\ UNCHANGED <<fs, ref, ilock, cwd, file, lost, panicked>>

Found(p, calls) == AtPc(p, "walk") /\ WalkEnds(p) /\ ~WantsParent(p) /\ sys[p].call \in calls

\* itrunc() with what else changes in node i.
Itrunc(i, node) ==
  /\ Iupdate(Only(i, [node EXCEPT !.addrs = {}]))
  /\ used' = used \ node.addrs

\* sys_open() without O_CREATE, and with whatever other flags; a directory may be
\* opened to be read only.
Open(p) ==
  LET i == sys[p].dp IN
  /\ Found(p, {"open"})
  /\ Ilock(i)
  /\ \/ /\ file[p] = 0
        /\ Fetched(i) /\ UNCHANGED <<disk, used>>
        /\ file' = [file EXCEPT ![p] = i] /\ Done(p, <<>>)
     \/ /\ file[p] = 0 /\ Inode(i).type = "file"   \* O_TRUNC
        /\ Itrunc(i, Inode(i))
        /\ file' = [file EXCEPT ![p] = i] /\ Done(p, <<>>)
     \/ /\ file[p] # 0 \/ Inode(i).type = "dir"
        /\ Fetched(i) /\ UNCHANGED <<disk, used>>
        /\ Done(p, <<i>>) /\ UNCHANGED file
  /\ UNCHANGED <<ent, ref, ilock, cwd, lost, panicked>>

Chdir(p) ==
  LET i == sys[p].dp IN
  /\ Found(p, {"chdir"})
  /\ Ilock(i) /\ Fetched(i)
  /\ IF Inode(i).type = "dir"
     THEN cwd' = [cwd EXCEPT ![p] = i] /\ Done(p, <<cwd[p]>>)
     ELSE Done(p, <<i>>) /\ UNCHANGED cwd
  /\ UNCHANGED <<fs, ref, ilock, file, lost, panicked>>

\* Mutant: sys_link() keeps the lock of the file.
LinkOldLocked(p) ==
  LET i == sys[p].dp IN
  /\ Found(p, {"link"}) /\ Ilock(i) /\ Inode(i).type # "dir"
  /\ Iupdate(Only(i, Links(i, 1))) /\ Hold(p, i)
  /\ Iget(StartOf(p, sys[p].new))
  /\ sys' = [sys EXCEPT ![p].ip = i, ![p].dp = StartOf(p, sys[p].new),
                        ![p].path = Rest(sys[p].new), ![p].new = <<>>]
  /\ UNCHANGED <<ent, used, cwd, file, lost, panicked>>

\* sys_link() counts the new link first, and then looks for the place of its name.
LinkOld(p) ==
  LET i == sys[p].dp IN
  /\ Found(p, {"link"})
  /\ Ilock(i)
  /\ IF Inode(i).type = "dir"
     THEN /\ Fetched(i) /\ Done(p, <<i>>)
          /\ UNCHANGED <<disk, ref>>
     ELSE /\ Iupdate(Only(i, Links(i, 1)))
          /\ Iget(StartOf(p, sys[p].new))
          /\ sys' = [sys EXCEPT ![p].ip = i, ![p].dp = StartOf(p, sys[p].new),
                                ![p].path = Rest(sys[p].new), ![p].new = <<>>]
  /\ UNCHANGED <<ent, used, ilock, cwd, file, lost, panicked>>

\* dirlink() of the name in d: the block is new if there has to be one.
NoRoom(d) == Grows(d) /\ FreeBlocks = {}
Dirlink(d, n, i) ==
  /\ ent' = [ent EXCEPT ![d][n] = i]
  /\ used' = IF Grows(d) THEN used \cup {First(FreeBlocks)} ELSE used

LinkNew(p) ==
  LET d == sys[p].dp n == sys[p].name i == sys[p].ip old == Lookup(d, n) IN
  /\ AtPc(p, "parent") /\ sys[p].call = "link"
  /\ Ilock(d)
  /\ \/ /\ old = 0 /\ ~NoRoom(d)
        /\ Dirlink(d, n, i)
        /\ Iupdate(Only(d, Grown(d, First(FreeBlocks))))
        /\ Done(p, <<d, i>>) /\ UNCHANGED <<ref, ilock>>
     \/ /\ old # 0 \/ NoRoom(d)
        /\ Fetched(d) /\ UNCHANGED fs
        /\ IF old # 0 THEN Iget(old) /\ Hold(p, d) ELSE UNCHANGED <<ref, ilock>>
        /\ sys' = [sys EXCEPT ![p].pc = "bad", ![p].dp = 0,
                              ![p].puts = IF old # 0 THEN <<old, d>> ELSE <<d>>]
  /\ UNCHANGED <<cwd, file, lost, panicked>>

LinkBad(p) ==
  LET i == sys[p].ip IN
  /\ AtPc(p, "bad")
  /\ Ilock(i)
  /\ Iupdate(Only(i, Links(i, -1)))
  /\ Done(p, <<i>>)
  /\ UNCHANGED <<ent, used, ref, ilock, cwd, file, lost, panicked>>

\* sys_unlink() keeps the lock of the directory while it locks what it removes ...
Unlink(p) ==
  LET d == sys[p].dp i == Lookup(d, sys[p].name) IN
  /\ AtPc(p, "parent") /\ sys[p].call = "unlink"
  /\ Ilock(d) /\ Fetched(d)
  /\ IF sys[p].name \in {".", ".."} \/ i = 0
     THEN Done(p, <<d>>) /\ UNCHANGED <<ref, ilock>>
     ELSE Iget(i) /\ Hold(p, d) /\ sys' = [sys EXCEPT ![p].pc = "child", ![p].ip = i]
  /\ UNCHANGED <<fs, cwd, file, lost, panicked>>

UnlinkChild(p) ==
  LET d == sys[p].dp i == sys[p].ip IN
  /\ AtPc(p, "child")
  /\ Ilock(i) /\ Inode(i).nlink > 0
  /\ IF Inode(i).type = "dir" /\ Entries(i) > 2
     THEN Fetched(i) /\ Done(p, <<i, d>>) /\ UNCHANGED <<disk, ent, ilock>>
     ELSE /\ Pass(p, d, i)
          /\ ent' = [ent EXCEPT ![d][sys[p].name] = 0]
          /\ Iupdate([j \in {d, i} |-> IF j = d /\ Inode(i).type = "dir" THEN Links(d, -1) ELSE Inode(j)])
          /\ sys' = [sys EXCEPT ![p].pc = "unlinked", ![p].dp = 0, ![p].puts = <<d>>]
  /\ UNCHANGED <<used, ref, cwd, file, lost, panicked>>

\* ... and takes the link away when it has released the directory.
Unlinked(p) ==
  LET i == sys[p].ip IN
  /\ AtPc(p, "unlinked")
  /\ Iupdate(Only(i, Links(i, -1)))
  /\ ilock' = [ilock EXCEPT ![i] = Nobody] /\ Done(p, <<i>>)
  /\ UNCHANGED <<ent, used, ref, cwd, file, lost, panicked>>

\* create(), for open(O_CREATE) and mkdir(): the name is there, or ialloc() takes
\* the first free inode and iget() its entry, or there is none.
Create(p) ==
  LET d == sys[p].dp i == Lookup(d, sys[p].name) IN
  /\ AtPc(p, "parent") /\ sys[p].call \in {"create", "mkdir"}
  /\ Ilock(d) /\ Fetched(d)
  /\ \/ /\ i # 0
        /\ Iget(i) /\ UNCHANGED <<disk, ilock>>
        /\ sys' = [sys EXCEPT ![p].pc = "exists", ![p].ip = i, ![p].dp = 0, ![p].puts = <<d>>]
     \/ /\ i = 0 /\ FreeInodes = {}
        /\ Done(p, <<d>>) /\ UNCHANGED <<disk, ref, ilock>>
     \/ /\ i = 0 /\ FreeInodes # {}
        /\ Hold(p, d)
        /\ LET n == First(FreeInodes) IN
           /\ disk' = [disk EXCEPT ![n] = [FreeNode EXCEPT !.type = IF sys[p].call = "mkdir" THEN "dir" ELSE "file"]]
           /\ Iget(n)
           /\ sys' = [sys EXCEPT ![p].pc = "new", ![p].ip = n]
  /\ UNCHANGED <<ent, used, cwd, file, lost, panicked>>

CreateExists(p) ==
  LET i == sys[p].ip IN
  /\ AtPc(p, "exists")
  /\ Ilock(i) /\ Fetched(i)
  /\ IF sys[p].call = "create" /\ Inode(i).type = "file" /\ file[p] = 0
     THEN file' = [file EXCEPT ![p] = i] /\ Done(p, <<>>)
     ELSE Done(p, <<i>>) /\ UNCHANGED file
  /\ UNCHANGED <<fs, ref, ilock, cwd, lost, panicked>>

\* The new inode gets its link, and a directory its own two entries, in block b;
\* the directory d gets the name, and a link for "..", maybe in another block c.
Need(p) == (IF sys[p].call = "mkdir" THEN 1 ELSE 0) + (IF Grows(sys[p].dp) THEN 1 ELSE 0)
CreateNew(p) ==
  LET d == sys[p].dp
      i == sys[p].ip
      dir == sys[p].call = "mkdir"
      b == First(FreeBlocks)
      own == IF dir THEN {b} ELSE {}
      c == First(FreeBlocks \ own)
  IN /\ AtPc(p, "new")
     /\ Cardinality(FreeBlocks) >= Need(p)
     /\ Ilock(i) /\ Pass(p, d, i)
     /\ ent' = [ent EXCEPT ![i] = [NoEntries EXCEPT ![".."] = IF dir THEN d ELSE 0],
                           ![d][sys[p].name] = i]
     /\ used' = used \cup own \cup (IF Grows(d) THEN {c} ELSE {})
     /\ Iupdate([j \in {d, i} |->
          IF j = i THEN [Inode(i) EXCEPT !.nlink = 1, !.addrs = own]
                   ELSE [Grown(d, c) EXCEPT !.nlink = IF dir THEN @ + 1 ELSE @]])
     /\ IF dir THEN Done(p, <<d, i>>)
               ELSE sys' = [sys EXCEPT ![p].pc = "made", ![p].dp = 0, ![p].puts = <<d>>]
     /\ UNCHANGED <<ref, cwd, file, lost, panicked>>

\* The label "fail": the inode is left without a link, its iput() frees it.
CreateFails(p) ==
  LET i == sys[p].ip IN
  /\ AtPc(p, "new")
  /\ Cardinality(FreeBlocks) < Need(p)
  /\ Ilock(i)
  /\ LET own == IF sys[p].call = "mkdir" THEN FreeBlocks ELSE {} IN
     /\ Iupdate(Only(i, [Inode(i) EXCEPT !.nlink = 0, !.addrs = own]))
     /\ used' = used \cup own
  /\ Done(p, <<i, sys[p].dp>>)
  /\ UNCHANGED <<ent, ref, ilock, cwd, file, lost, panicked>>

\* sys_open() goes on with the inode that create() returns locked.
CreateOpens(p) ==
  LET i == sys[p].ip IN
  /\ AtPc(p, "made")
  /\ ilock' = [ilock EXCEPT ![i] = Nobody]
  /\ IF file[p] = 0
     THEN file' = [file EXCEPT ![p] = i] /\ Done(p, <<>>)
     ELSE Done(p, <<i>>) /\ UNCHANGED file
  /\ UNCHANGED <<fs, ref, valid, mem, cwd, lost, panicked>>

\* filewrite() of a file that has to grow, if it can; the last fileclose().
Write(p) ==
  LET i == file[p] IN
  /\ AtPc(p, "idle") /\ i # 0
  /\ Ilock(i) /\ Inode(i).type = "file" /\ FreeBlocks # {}
  /\ Iupdate(Only(i, [Inode(i) EXCEPT !.addrs = @ \cup {First(FreeBlocks)}]))
  /\ used' = used \cup {First(FreeBlocks)}
  /\ UNCHANGED <<ent, ref, ilock, sys, cwd, file, lost, panicked>>

Close(p) ==
  /\ AtPc(p, "idle") /\ file[p] # 0
  /\ file' = [file EXCEPT ![p] = 0]
  /\ Done(p, <<file[p]>>)
  /\ UNCHANGED <<fs, itable, cwd, lost, panicked>>

\* iput() of the first of puts, and iunlock() of the next one.  An entry of the
\* table without a reference is not valid: iget() clears valid when it recycles it.
Putting(p, s) == ~panicked /\ sys[p].puts # <<>> /\ sys[p].put = s
Put(p) == Head(sys[p].puts)
Dropped(p) ==
  /\ ref' = [ref EXCEPT ![Put(p)] = @ - 1]
  /\ valid' = [valid EXCEPT ![Put(p)] = @ /\ ref[Put(p)] > 1]
  /\ mem' = [mem EXCEPT ![Put(p)] = IF ref[Put(p)] > 1 THEN @ ELSE FreeNode]
  /\ sys' = [sys EXCEPT ![p].puts = Tail(@), ![p].put = "no"]
  /\ ilock' = [i \in Inum |->
       IF ilock[i] = p /\ Len(sys[p].puts) > 1 /\ sys[p].puts[2] = i THEN Nobody ELSE ilock[i]]

LastReference(i) == ref[i] = 1 /\ valid[i] /\ mem[i].nlink = 0

IputDrops(p) ==
  /\ Putting(p, "no")
  /\ ~LastReference(Put(p))
  /\ Dropped(p)
  /\ UNCHANGED <<fs, cwd, file, lost, panicked>>

\* No link and no other reference: the inode is freed on the disk, under its lock
\* but not under itable.lock, while others may allocate it anew: ref is not looked
\* at again, and an inode that has come and gone meanwhile is lost.
IputLocks(p) ==
  /\ Putting(p, "no")
  /\ LastReference(Put(p)) /\ ilock[Put(p)] = Nobody
  /\ Hold(p, Put(p))
  /\ sys' = [sys EXCEPT ![p].put = "free"]
  /\ UNCHANGED <<fs, ref, valid, mem, cwd, file, lost, panicked>>

IputFrees(p) ==
  LET i == Put(p) IN
  /\ Putting(p, "free")
  /\ Itrunc(i, [mem[i] EXCEPT !.type = "none"])
  /\ ent' = [ent EXCEPT ![i] = NoEntries]
  /\ lost' = lost \cup {ent[i][n] : n \in {m \in Name : ent[i][m] # 0}}
  /\ sys' = [sys EXCEPT ![p].put = "freed"]
  /\ UNCHANGED <<ref, ilock, cwd, file, panicked>>

\* Mutant: valid is left as it is.
IputKeepsValid(p) ==
  /\ Putting(p, "freed")
  /\ ilock' = [ilock EXCEPT ![Put(p)] = Nobody]
  /\ sys' = [sys EXCEPT ![p].put = "drop"]
  /\ UNCHANGED <<fs, ref, valid, mem, cwd, file, lost, panicked>>

IputInvalidates(p) ==
  LET i == Put(p) IN
  /\ Putting(p, "freed")
  /\ valid' = [valid EXCEPT ![i] = FALSE] /\ mem' = [mem EXCEPT ![i] = FreeNode]
  /\ ilock' = [ilock EXCEPT ![i] = Nobody]
  /\ sys' = [sys EXCEPT ![p].put = "drop"]
  /\ UNCHANGED <<fs, ref, cwd, file, lost, panicked>>

IputLast(p) ==
  /\ Putting(p, "drop")
  /\ Dropped(p)
  /\ lost' = IF LastReference(Put(p)) THEN lost \cup {Put(p)} ELSE lost
  /\ UNCHANGED <<fs, cwd, file, panicked>>

\* The inode a process is about to lock, or has to find typed.
Target(p) ==
  CASE AtPc(p, "walk") /\ (~WalkEnds(p) \/ ~WantsParent(p)) -> sys[p].dp
    [] AtPc(p, "parent") -> sys[p].dp
    [] AtPc(p, "child") \/ AtPc(p, "exists") \/ AtPc(p, "new") \/ AtPc(p, "bad") -> sys[p].ip
    [] OTHER -> 0

\* panic("ilock: no type"), panic("unlink: nlink < 1").
Panic(p) ==
  /\ Target(p) # 0 /\ ilock[Target(p)] = Nobody
  /\ Untyped(Target(p)) \/ (AtPc(p, "child") /\ Inode(Target(p)).nlink < 1)
  /\ panicked' = TRUE
  /\ UNCHANGED <<fs, itable, sys, cwd, file, lost>>

InodesNext ==
  \E p \in Process :
    \/ \E k \in Call, path, new \in Path : Begin(p, k, path, new)
    \/ WalkOn(p) \/ WalkFails(p) \/ WalkParent(p)
    \/ Open(p) \/ Chdir(p) \/ LinkOld(p) \/ LinkNew(p) \/ LinkBad(p)
    \/ Unlink(p) \/ UnlinkChild(p) \/ Unlinked(p)
    \/ Create(p) \/ CreateExists(p) \/ CreateNew(p) \/ CreateFails(p) \/ CreateOpens(p)
    \/ Write(p) \/ Close(p)
    \/ IputDrops(p) \/ IputLocks(p) \/ IputFrees(p) \/ IputInvalidates(p) \/ IputLast(p)
    \/ Panic(p)

InodesSpec == InodesInit /\ [][InodesNext]_inodeVars

-----------------------------------------------------------------------------

\* The links of an inode are the names it has, the subdirectories that name it
\* "..", and the name a link() is about to make or an unlink() has just removed:
\* whatever runs between these steps, no name is left on a freed inode.  (A
\* directory may be removed between nameiparent() and create(): the name that
\* create() makes in it is lost when the directory is freed.)
Named(i) == {x \in Inum \X Name : disk[x[1]].type = "dir" /\ ent[x[1]][x[2]] = i}
Below(i) == {n \in Name : disk[i].type = "dir" /\ ent[i][n] # 0 /\ disk[ent[i][n]].type = "dir"}
Counting(i) ==
  {p \in Process : /\ sys[p].ip = i
                   /\ sys[p].pc = "unlinked" \/ (sys[p].call = "link" /\ sys[p].pc # "idle")}
LinksExact ==
  \A i \in Inum \ lost :
    disk[i].nlink = Cardinality(Named(i)) + Cardinality(Below(i)) + Cardinality(Counting(i))
                    + (IF i = ROOTINO THEN 1 ELSE 0)

\* ip->ref counts the pointers to the entry, and who has an inode locked has one.
\* (Nobody has more than two inodes to put.)
Put1(q) == IF q = <<>> THEN 0 ELSE q[1]
Put2(q) == IF Len(q) = 2 THEN q[2] ELSE 0
Pointers(p) == [cwd |-> cwd[p], file |-> file[p], dp |-> sys[p].dp, ip |-> sys[p].ip,
                put1 |-> Put1(sys[p].puts), put2 |-> Put2(sys[p].puts)]
Uses == UNION {LET held == Pointers(p) IN {<<p, k, held[k]>> : k \in DOMAIN held} : p \in Process}
RefsExact ==
  LET uses == Uses IN
  \A i \in Inum : /\ ref[i] = Cardinality({u \in uses : u[3] = i})
                  /\ ilock[i] # Nobody => \E u \in uses : u[1] = ilock[i] /\ u[3] = i

\* A copy in the table is of an inode in use, and what anybody else can read in it is
\* what the disk says of a file or a directory; and "ip->ref == 1 means no other process
\* can have ip locked, so this acquiresleep() won't block (or deadlock)" (fs.c:344-345,
\* of iput(), which calls it with itable.lock held).
TableExact ==
  /\ \A i \in Inum :
       valid[i] /\ ilock[i] = Nobody => ref[i] > 0 /\ mem[i] = disk[i] /\ disk[i].type # "none"
  /\ \A p \in Process : Putting(p, "no") /\ LastReference(Put(p)) => ilock[Put(p)] = Nobody

\* The links, the references and the table are exact; an allocated inode with no link is in use, a
\* file or a directory in use is allocated, and each block in use belongs to one inode:
\* ilock() and sys_unlink() do not panic, as long as no path leads through the ".." of a
\* removed directory (NeverUntyped).
InodesExact ==
  /\ ~panicked
  /\ LinksExact /\ RefsExact /\ TableExact
  /\ \A i \in Inum : disk[i].type # "none" /\ disk[i].nlink = 0 => ref[i] > 0 \/ i \in lost
  /\ \A p \in Process : \A i \in {cwd[p], file[p]} \ {0} : disk[i].type # "none"
  /\ used = UNION {disk[i].addrs : i \in Inum}
  /\ \A i, j \in Inum : i # j => disk[i].addrs \cap disk[j].addrs = {}

\* Not everyone in a call waits for the lock of an inode: a directory is locked
\* before what it names, and nobody keeps a directory locked on the way up.
Waits(p) == Target(p) # 0 /\ ilock[Target(p)] # Nobody
NoDeadlock ==
  (\E p \in Process : sys[p] # Idle) => \E p \in Process : sys[p] # Idle /\ ~Waits(p)

\* fs.c:332 says of iput(): "If that was the last reference and the inode has no
\* links to it, free the inode (and its content) on disk".  So an allocated inode
\* without a link has a reference whose iput() is still to come.
LastPutFrees == \A i \in Inum : disk[i].type # "none" /\ disk[i].nlink = 0 => ref[i] > 0

\* fs.c:314-315 asserts of the inode that ilock() has read: if(ip->type == 0)
\* panic("ilock: no type").  So whoever is about to lock an inode, by whatever path
\* it has come, finds a file or a directory.
NeverUntyped ==
  \A p \in Process : LET i == Target(p) IN i # 0 /\ ilock[i] = Nobody => ~Untyped(i)

=============================================================================
