---------------------------------- MODULE Exec ----------------------------------
(***************************************************************************)
(* exec() and sys_exec(): a new image is built beside the old one and takes  *)
(* its place at the end, or everything that was got for it is given back.    *)
(* Several processes exec at once and share the free pages.                  *)
(*                                                                         *)
(* Pages are counted, page-table pages too; that no page is in two places is *)
(* in CowMemory.  Addresses are in units of which PGSIZE make a page.        *)
(***************************************************************************)
EXTENDS Integers, Sequences, FiniteSets

CONSTANTS Caller,       \* processes
          NPAGES,       \* free pages at the beginning
          PGSIZE, LEAF, \* units of a page, pages that one leaf of a page table maps
          MAXARG,
          Program,      \* the files: [elf |-> BOOLEAN, segs |-> program headers]
          ArgSizes,     \* sizes of an argument
          Nobody

\* A program header: it is to be loaded, where, its sizes in memory and in the file,
\* and how much of that there is in the file.
Header == [load : BOOLEAN, vaddr : Nat, memsz : Nat, filesz : Nat, there : Nat]

ExecAssumption ==
  /\ NPAGES \in Nat /\ PGSIZE \in Nat \ {0} /\ LEAF \in Nat \ {0} /\ MAXARG \in Nat \ {0}
  /\ Program \subseteq [elf : BOOLEAN, segs : Seq(Header)] /\ ArgSizes \subseteq Nat
  /\ IsFiniteSet(Caller) /\ Nobody \notin Caller

ASSUME ExecConstants == ExecAssumption

VARIABLES free,       \* kmem.freelist: how many pages
          image,      \* per process: p->pagetable and p->sz
          call,       \* per process: where it is in sys_exec()
          ilocked,    \* per file: who has its inode locked
          panicked

execVars == <<free, image, call, ilocked, panicked>>

Roundup(n) == (n + PGSIZE - 1) \div PGSIZE
Pages(sz) == 0 .. Roundup(sz) - 1

\* A page table: the pages it maps, those that user code must not touch, and its own
\* pages below the root other than those of trampoline and trapframe.
Table == [mapped |-> {}, guard |-> {}, tables |-> {}]
RootPages == 3
Size(t) == Cardinality(t.mapped) + Cardinality(t.tables) + RootPages

Idle == [pc |-> "idle", file |-> Nobody, sizes |-> <<>>, table |-> Table, has |-> FALSE,
         sz |-> 0, top |-> 0, seg |-> 1, sp |-> 0, argc |-> 0]

\* Every process runs the first program: a page, and the two of its stack.
First == [table |-> [mapped |-> 0 .. 2, guard |-> {1}, tables |-> {-1, 0}], sz |-> 3 * PGSIZE]
ExecInit ==
  /\ free = NPAGES
  /\ image = [p \in Caller |-> First]
  /\ call = [p \in Caller |-> Idle]
  /\ ilocked = [f \in Program |-> Nobody]
  /\ panicked = FALSE

IsAt(p, l) == call[p].pc = l /\ ~panicked
Goto(p, l) == call' = [call EXCEPT ![p].pc = l]

-----------------------------------------------------------------------------
(* sys_exec()                                                              *)

SysExec(p) ==
  /\ IsAt(p, "idle")
  /\ Goto(p, "args")
  /\ UNCHANGED <<free, image, ilocked, panicked>>

\* A page for the next argument of the user's argv; fetchstr() fails if the argument
\* is larger than that.
Fetch(p, size) ==
  /\ IsAt(p, "args")
  /\ Len(call[p].sizes) < MAXARG
  /\ free > 0
  /\ free' = free - 1
  /\ call' = [call EXCEPT ![p].sizes = Append(@, size),
                          ![p].pc = IF size >= PGSIZE THEN "free args" ELSE "args"]
  /\ UNCHANGED <<image, ilocked, panicked>>

FetchFails(p) ==
  /\ IsAt(p, "args")
  /\ Len(call[p].sizes) = MAXARG \/ free = 0
  /\ Goto(p, "free args")
  /\ UNCHANGED <<free, image, ilocked, panicked>>

Fetched(p) ==
  /\ IsAt(p, "args")
  /\ Len(call[p].sizes) < MAXARG
  /\ Goto(p, "open")
  /\ UNCHANGED <<free, image, ilocked, panicked>>

FreeArgs(p) ==
  /\ IsAt(p, "free args")
  /\ free' = free + Len(call[p].sizes)
  /\ call' = [call EXCEPT ![p] = Idle]
  /\ UNCHANGED <<image, ilocked, panicked>>

-----------------------------------------------------------------------------
(* exec()                                                                  *)

\* namei() and ilock(), in a transaction; there may be no such file.
OpenFile(p, f) ==
  /\ IsAt(p, "open")
  /\ ilocked[f] = Nobody
  /\ ilocked' = [ilocked EXCEPT ![f] = p]
  /\ call' = [call EXCEPT ![p].pc = "header", ![p].file = f]
  /\ UNCHANGED <<free, image, panicked>>

NoFile(p) ==
  /\ IsAt(p, "open")
  /\ Goto(p, "free args")
  /\ UNCHANGED <<free, image, ilocked, panicked>>

\* The header, and proc_pagetable().
ReadHeader(p) ==
  /\ IsAt(p, "header")
  /\ IF call[p].file.elf /\ free >= RootPages
     THEN free' = free - RootPages /\ call' = [call EXCEPT ![p].pc = "segment", ![p].has = TRUE]
     ELSE UNCHANGED free /\ Goto(p, "bad")
  /\ UNCHANGED <<image, ilocked, panicked>>

\* The next program header: memory as far as its end, unless there is that much.
\* The 0 that uvmalloc() returns for no memory at all means that it failed.
Segment(p) ==
  LET c == call[p]
      ph == c.file.segs[c.seg]
      top == IF c.sz < ph.vaddr + ph.memsz THEN ph.vaddr + ph.memsz ELSE c.sz
  IN
  /\ IsAt(p, "segment") /\ c.seg <= Len(c.file.segs)
  /\ call' = [call EXCEPT ![p] =
       IF ~ph.load THEN [c EXCEPT !.seg = @ + 1]
       ELSE IF ph.memsz < ph.filesz \/ ph.vaddr % PGSIZE # 0 THEN [c EXCEPT !.pc = "bad"]
       ELSE IF top = 0 THEN [c EXCEPT !.pc = "bad"]
       ELSE [c EXCEPT !.pc = "uvmalloc", !.top = top]]
  /\ UNCHANGED <<free, image, ilocked, panicked>>

\* uvmalloc(): one page more, and what the page table needs to map it.
NextPage(c) == Roundup(c.sz) + Cardinality(c.table.mapped \ Pages(c.sz))
Missing(c) == {-1, NextPage(c) \div LEAF} \ c.table.tables
Uvmalloc(p) ==
  LET c == call[p] need == 1 + Cardinality(Missing(c)) IN
  /\ IsAt(p, "uvmalloc") \/ IsAt(p, "stack")
  /\ NextPage(c) * PGSIZE < c.top
  /\ free >= need
  /\ free' = free - need
  /\ call' = [call EXCEPT ![p].table.mapped = @ \cup {NextPage(c)},
                          ![p].table.tables = @ \cup Missing(c)]
  /\ UNCHANGED <<image, ilocked, panicked>>

\* It gives back the pages, but the page table keeps its own, here the upper one.
UvmallocFails(p) ==
  LET c == call[p]
      got == IF free = 2 /\ Cardinality(Missing(c)) = 2 THEN {-1} ELSE {}
  IN
  /\ IsAt(p, "uvmalloc") \/ IsAt(p, "stack")
  /\ NextPage(c) * PGSIZE < c.top
  /\ free < 1 + Cardinality(Missing(c))
  /\ free' = free + Cardinality(c.table.mapped \ Pages(c.sz)) - Cardinality(got)
  /\ call' = [call EXCEPT ![p] = [c EXCEPT !.pc = "bad", !.table.mapped = @ \cap Pages(c.sz),
                                          !.table.tables = @ \cup got]]
  /\ UNCHANGED <<image, ilocked, panicked>>

\* Mutant: sz is set when the segment is loaded.
LoadsegFirst(p) ==
  LET c == call[p] ph == c.file.segs[c.seg] IN
  /\ IsAt(p, "uvmalloc") /\ NextPage(c) * PGSIZE >= c.top
  /\ panicked' = ~({ph.vaddr \div PGSIZE + k : k \in Pages(ph.filesz)} \subseteq c.table.mapped)
  /\ call' = [call EXCEPT ![p] = IF ph.there < ph.filesz THEN [c EXCEPT !.pc = "bad"]
                                 ELSE [c EXCEPT !.sz = c.top, !.pc = "segment", !.seg = @ + 1]]
  /\ UNCHANGED <<free, image, ilocked>>

\* loadseg() panics if a page is not there; the file may be too short.
Loadseg(p) ==
  LET c == call[p] ph == c.file.segs[c.seg] IN
  /\ IsAt(p, "uvmalloc") /\ NextPage(c) * PGSIZE >= c.top
  /\ panicked' = ~({ph.vaddr \div PGSIZE + k : k \in Pages(ph.filesz)} \subseteq c.table.mapped)
  /\ call' = [call EXCEPT ![p] = IF ph.there < ph.filesz THEN [c EXCEPT !.sz = c.top, !.pc = "bad"]
                                 ELSE [c EXCEPT !.sz = c.top, !.pc = "segment", !.seg = @ + 1]]
  /\ UNCHANGED <<free, image, ilocked>>

\* iunlockput() and end_op(); then two pages for the stack.
Loaded(p) ==
  LET c == call[p] sz == Roundup(c.sz) * PGSIZE IN
  /\ IsAt(p, "segment") /\ c.seg > Len(c.file.segs)
  /\ ilocked' = [ilocked EXCEPT ![c.file] = Nobody]
  /\ call' = [call EXCEPT ![p].pc = "stack", ![p].sz = sz, ![p].top = sz + 2 * PGSIZE]
  /\ UNCHANGED <<free, image, panicked>>

\* uvmclear(): the lower page is the guard of the stack.
Stack(p) ==
  LET c == call[p] IN
  /\ IsAt(p, "stack") /\ NextPage(c) * PGSIZE >= c.top
  /\ call' = [call EXCEPT ![p].pc = "push", ![p].sz = c.top, ![p].sp = c.top,
                          ![p].table.guard = {c.top \div PGSIZE - 2}]
  /\ UNCHANGED <<free, image, ilocked, panicked>>

\* The strings, and at last argv itself, a unit of memory here.
Push(p) ==
  LET c == call[p]
      last == c.argc = Len(c.sizes)
      sp == c.sp - (IF last THEN 1 ELSE c.sizes[c.argc + 1] + 1)
  IN
  /\ IsAt(p, "push")
  /\ call' = [call EXCEPT ![p] =
       IF sp < c.sz - PGSIZE THEN [c EXCEPT !.sp = sp, !.pc = "bad"]
       ELSE IF last THEN [c EXCEPT !.sp = sp, !.pc = "commit"]
       ELSE [c EXCEPT !.sp = sp, !.argc = @ + 1]]
  /\ UNCHANGED <<free, image, ilocked, panicked>>

\* uvmunmap() of what sz says, and freewalk(): it panics at a page that is left, as
\* uvmunmap() does at one that is not there.
FreesExactly(t, sz) == t.mapped = Pages(sz)

Commit(p) ==
  LET c == call[p] old == image[p] IN
  /\ IsAt(p, "commit")
  /\ image' = [image EXCEPT ![p] = [table |-> c.table, sz |-> c.sz]]
  /\ panicked' = ~FreesExactly(old.table, old.sz)
  /\ free' = free + Size(old.table)
  /\ call' = [call EXCEPT ![p] = [Idle EXCEPT !.pc = "free args", !.sizes = c.sizes]]
  /\ UNCHANGED ilocked

Bad(p) ==
  LET c == call[p] IN
  /\ IsAt(p, "bad")
  /\ panicked' = (c.has /\ ~FreesExactly(c.table, c.sz))
  /\ free' = IF c.has THEN free + Size(c.table) ELSE free
  /\ ilocked' = [f \in Program |-> IF ilocked[f] = p THEN Nobody ELSE ilocked[f]]
  /\ call' = [call EXCEPT ![p] = [Idle EXCEPT !.pc = "free args", !.sizes = c.sizes]]
  /\ UNCHANGED image

ExecNext ==
  \E p \in Caller :
    \/ SysExec(p) \/ (\E size \in ArgSizes : Fetch(p, size)) \/ FetchFails(p) \/ Fetched(p) \/ FreeArgs(p)
    \/ (\E f \in Program : OpenFile(p, f)) \/ NoFile(p) \/ ReadHeader(p) \/ Segment(p) \/ Uvmalloc(p) \/ UvmallocFails(p) \/ Loadseg(p)
    \/ Loaded(p) \/ Stack(p) \/ Push(p) \/ Commit(p) \/ Bad(p)

ExecSpec == ExecInit /\ [][ExecNext]_execVars

-----------------------------------------------------------------------------

Holds(p) == Len(call[p].sizes) + (IF call[p].has THEN Size(call[p].table) ELSE 0) + Size(image[p].table)
InUse == UNION {{p} \X (1 .. Holds(p)) : p \in Caller}
Total == NPAGES + Cardinality(Caller) * Size(First.table)

\* Wherever exec() fails, no page is lost and none is freed twice, the inode is not left
\* locked, and the old image is whole; an image has exactly the pages that its size
\* says, with a guard below the page of the stack.
ExecExact ==
  /\ ~panicked
  /\ free + Cardinality(InUse) = Total
  /\ \A p \in Caller :
       /\ FreesExactly(image[p].table, image[p].sz)
       /\ image[p].table.guard = {Roundup(image[p].sz) - 2}
       /\ call[p].pc \in {"idle", "args", "free args"} => \A f \in Program : ilocked[f] # p
       /\ call[p].pc = "commit" => call[p].sp >= call[p].sz - PGSIZE

=============================================================================
