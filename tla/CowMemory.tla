------------------------------- MODULE CowMemory -------------------------------
(***************************************************************************)
(* Physical pages, page tables and copy-on-write fork of XV6-2:            *)
(* kernel/kalloc.c, kernel/vm.c, cowhandler() and the store-fault branch   *)
(* of usertrap() in kernel/trap.c, and the parts of kernel/proc.c that     *)
(* allocate and release memory.                                            *)
(*                                                                         *)
(* Every process runs on its own CPU.  A step is one critical section of   *)
(* kmem.lock or ref_count_lock together with the accesses to the process's *)
(* own page table around it, so two processes that share a page interleave *)
(* between the two critical sections of kfree(), between two pages of      *)
(* uvmcopy(), and between the copy, the release and the remapping of a     *)
(* copy-on-write fault.                                                    *)
(*                                                                         *)
(* A process refers to physical pages through slots: one for each user     *)
(* page (the leaf PTE), one for each page of the page table, one for the   *)
(* trapframe, and the two kernel locals that own a page for a moment.      *)
(* Where the code panics ("not mapped", "page not present") the action is  *)
(* disabled; MappedExactly says that no thread ever stops there.           *)
(***************************************************************************)
EXTENDS Integers, FiniteSets

CONSTANTS
  Proc,         \* entries of the process table
  InitProc,     \* initproc, which may not exit
  Frame,        \* physical pages handed out by kalloc()
  Heads(_),     \* the pages kalloc() may pop when the free list holds a set
  MaxPage,      \* user pages per process, the bound on p->sz
  Root,         \* page-table pages made by proc_pagetable()
  Leaf,         \* page-table pages made by walk() for user pages
  LeafOf,       \* the one that holds the PTE of a user page
  Trapframe,    \* slot: p->trapframe
  Mem,          \* slot: the local `mem' of cowhandler, copyout and uvmalloc
  Pa,           \* slot: the local `pa' of uvmcopy once it has been counted
  InitSz,       \* pages of the first program
  InitFlags,    \* and their flags, set by exec()
  InitPa,       \* and the physical pages of its slots
  InitFree,     \* free lists to start from; pipes hold the rest for good
  Value,        \* contents of a page
  Zero,         \* a zeroed page
  Junk,         \* the fill of kalloc() and kfree()
  None

Page == 0 .. MaxPage - 1
Slot == Page \cup Root \cup Leaf \cup {Trapframe, Mem, Pa}
Flag == {"PTE_W", "PTE_RSW", "PTE_U"}

\* Where a thread is.  "embryo" is an entry that fork() fills, "reaped" one
\* that wait() releases: their locks are held by that other process.
PcLabel == { "unused", "embryo", "user", "zombie", "reaped", "panic",
             "cow_copy", "cow_kfree", "cow_map", "copyout", "copyout_write",
             "allocproc", "uvmcopy", "uvmcopy_map", "uvmcopy_err", "freeproc",
             "uvmalloc", "uvmalloc_map", "uvmdealloc" }

ASSUME ProcAssumption == IsFiniteSet(Proc) /\ InitProc \in Proc /\ None \notin Proc
ASSUME FrameAssumption == None \notin Frame
ASSUME HeadsAssumption ==
  \A S \in SUBSET Frame : Heads(S) \subseteq S /\ (S # {} => Heads(S) # {})
ASSUME ValueAssumption == Zero \in Value /\ None \notin Value \cup {Junk}
ASSUME PageAssumption ==
  /\ MaxPage \in Nat \ {0}
  /\ InitSz \in 1 .. MaxPage
  /\ InitFlags \in [Page -> SUBSET Flag]
ASSUME SlotAssumption ==
  /\ IsFiniteSet(Root) /\ IsFiniteSet(Leaf)
  /\ LeafOf \in [Page -> Leaf]
  /\ Page \cap (Root \cup Leaf \cup {Trapframe, Mem, Pa}) = {}
  /\ (Root \cup Leaf) \cap {Trapframe, Mem, Pa} = {} /\ Root \cap Leaf = {}
  /\ Trapframe # Mem /\ Trapframe # Pa /\ Mem # Pa
ASSUME InitAssumption ==
  /\ InitPa \in [Slot -> Frame \cup {None}]
  /\ \A s, t \in Slot : InitPa[s] = InitPa[t] /\ InitPa[s] # None => s = t
  /\ \A s \in Slot : InitPa[s] # None <=>
       \/ s \in 0 .. InitSz - 1
       \/ s \in Root \cup {Trapframe}
       \/ \E v \in 0 .. InitSz - 1 : s = LeafOf[v]
  /\ \A S \in InitFree : S \subseteq Frame /\ \A s \in Slot : InitPa[s] \notin S

VARIABLES
  freelist,      \* kmem.freelist, as a set
  useReference,  \* kalloc.c's reference counts
  limbo,         \* a page kfree() has counted down and not pushed yet, or None
  mem,           \* contents of the physical pages
  pa,            \* pa[p][s]: the page slot s of p refers to, or None
  flags,         \* flags[p][v]: the flags of the PTE of user page v
  sz,            \* p->sz, in pages
  parent,        \* p->parent
  killed,        \* processes whose own fault has set p->killed
  pc,            \* where p's kernel thread is; "user" is user mode
  loc            \* the locals of p's system call or fault

memory == <<freelist, useReference, limbo, mem>>
vars == <<memory, pa, flags, sz, parent, killed, pc, loc>>

\* cur: the page that a loop has reached, or the page of a fault; lim: where
\* the loop ends; newsz: the size growproc() stores when it returns; np: the
\* child that fork() builds or wait() releases; val: what copyout() stores.
Locals == [cur : 0 .. MaxPage, lim : 0 .. MaxPage, newsz : 0 .. MaxPage,
           np : Proc \cup {None}, val : Value \cup {None}]
NoLocals == [cur |-> 0, lim |-> 0, newsz |-> 0, np |-> None, val |-> None]

-----------------------------------------------------------------------------
(* kalloc.c                                                                *)

\* Mutant: a kalloc() that counts up from what kfree() left behind.
KallocIncrements(q, s, c) ==
  \E f \in Heads(freelist) :
    /\ freelist' = freelist \ {f}
    /\ useReference' = [useReference EXCEPT ![f] = @ + 1]
    /\ mem' = [mem EXCEPT ![f] = c]
    /\ pa' = [pa EXCEPT ![q][s] = f]
    /\ UNCHANGED limbo

\* kalloc() into slot s of process q: pop a page, set its count to 1 and fill
\* it with c (junk, or zeros where the caller clears it at once).
Kalloc(q, s, c) ==
  \E f \in Heads(freelist) :
    /\ freelist' = freelist \ {f}
    /\ useReference' = [useReference EXCEPT ![f] = 1]
    /\ mem' = [mem EXCEPT ![f] = c]
    /\ pa' = [pa EXCEPT ![q][s] = f]
    /\ UNCHANGED limbo

OutOfMemory == freelist = {}

\* Mutant: the page is freed while one reference is left.
FreeAtOne(n) == n <= 1

\* kfree() returns early while the count is positive.
Unreferenced(n) == n <= 0

\* The first critical section of kfree(), run by p on slot s of q: count the
\* page down and forget the reference.
Kfree(p, q, s) ==
  LET f == pa[q][s]
      temp == useReference[f] - 1
  IN  /\ f # None
      /\ useReference' = [useReference EXCEPT ![f] = temp]
      /\ limbo' = [limbo EXCEPT ![p] = IF Unreferenced(temp) THEN f ELSE None]
      /\ pa' = [pa EXCEPT ![q][s] = None]
      /\ UNCHANGED <<freelist, mem>>

\* The second one: fill the page with junk and push it.
KfreePush(p) ==
  /\ limbo[p] # None
  /\ freelist' = freelist \cup {limbo[p]}
  /\ mem' = [mem EXCEPT ![limbo[p]] = Junk]
  /\ limbo' = [limbo EXCEPT ![p] = None]
  /\ UNCHANGED <<useReference, pa, flags, sz, parent, killed, pc, loc>>

\* p's thread is at label l, and not inside a kfree().
At(p, l) == pc[p] = l /\ limbo[p] = None
Goto(p, l) == pc' = [pc EXCEPT ![p] = l]

\* The system call or fault is over and its locals are gone.
Return(p) == Goto(p, "user") /\ loc' = [loc EXCEPT ![p] = NoLocals]

\* p runs user code.  A process that its own fault has killed only gets to
\* exit; kill() by another process is an Exit of the victim at its next trap.
InUser(p) == At(p, "user") /\ p \notin killed

-----------------------------------------------------------------------------
(* Page faults and copyout: trap.c, vm.c                                   *)

Mapped(p, v) == pa[p][v] # None
Writable(p, v) == Mapped(p, v) /\ {"PTE_U", "PTE_W"} \subseteq flags[p][v]

\* A store instruction that the PTE allows.
Store(p, v, x) ==
  /\ InUser(p)
  /\ Writable(p, v)
  /\ mem' = [mem EXCEPT ![pa[p][v]] = x]
  /\ UNCHANGED <<freelist, useReference, limbo, pa, flags, sz, parent, killed, pc, loc>>

\* cowhandler() asks for a mapped copy-on-write page of the user, ...
CowFault(p, v) == Mapped(p, v) /\ {"PTE_RSW", "PTE_U"} \subseteq flags[p][v]

\* Mutant: a copyout() that does not know about copy-on-write.
NeverCow(p, v) == FALSE

\* ... checkcowpage() for one below p->sz.
checkcowpage(p, v) == v < sz[p] /\ Mapped(p, v) /\ "PTE_RSW" \in flags[p][v]

\* usertrap() on a store fault: the kalloc() of cowhandler(), also for a store
\* between p->sz and the end of its page, which has killed p just before, ...
StoreFault(p, v) ==
  /\ InUser(p)
  /\ ~Writable(p, v)
  /\ CowFault(p, v) /\ ~OutOfMemory
  /\ Kalloc(p, Mem, Junk)
  /\ Goto(p, "cow_copy")
  /\ loc' = [loc EXCEPT ![p].cur = v]
  /\ \/ UNCHANGED killed
     \/ v + 1 = sz[p] /\ killed' = killed \cup {p}
  /\ UNCHANGED <<flags, sz, parent>>

\* ... or a page that is not copy-on-write, or no memory: p is killed.
StoreKill(p, v) ==
  /\ InUser(p)
  /\ ~Writable(p, v)
  /\ ~CowFault(p, v) \/ OutOfMemory
  /\ killed' = killed \cup {p}
  /\ UNCHANGED <<memory, pa, flags, sz, parent, pc, loc>>

\* A system call that stores x from page v on: read(), fstat(), pipe(), waitx().
Copyout(p, v, x) ==
  /\ InUser(p)
  /\ Goto(p, "copyout")
  /\ loc' = [loc EXCEPT ![p].cur = v, ![p].val = x]
  /\ UNCHANGED <<memory, pa, flags, sz, parent, killed>>

\* One turn of copyout()'s loop up to its kalloc().  When kalloc() fails p is
\* marked killed, and the store goes to the page it has all the same.
CopyoutPage(p) ==
  LET v == loc[p].cur
      user == Mapped(p, v) /\ "PTE_U" \in flags[p][v]
      cow == checkcowpage(p, v)
  IN  /\ At(p, "copyout") /\ user
      /\ IF cow /\ ~OutOfMemory
         THEN Kalloc(p, Mem, Junk) /\ Goto(p, "cow_copy") /\ UNCHANGED killed
         ELSE /\ killed' = IF cow THEN killed \cup {p} ELSE killed
              /\ Goto(p, "copyout_write")
              /\ UNCHANGED <<memory, pa>>
      /\ UNCHANGED <<flags, sz, parent, loc>>

\* walkaddr() fails: copyout() returns -1, and wait() leaves the child a zombie.
CopyoutFail(p) ==
  LET v == loc[p].cur
  IN  /\ At(p, "copyout")
      /\ ~(Mapped(p, v) /\ "PTE_U" \in flags[p][v])
      /\ pc' = [q \in Proc |-> IF q = p THEN "user"
                               ELSE IF q = loc[p].np THEN "zombie" ELSE pc[q]]
      /\ loc' = [loc EXCEPT ![p] = NoLocals]
      /\ UNCHANGED <<memory, pa, flags, sz, parent, killed>>

\* cowhandler() and copyout(): memmove of the shared page to the new one.
CowCopy(p) ==
  /\ At(p, "cow_copy")
  /\ mem' = [mem EXCEPT ![pa[p][Mem]] = mem[pa[p][loc[p].cur]]]
  /\ Goto(p, "cow_kfree")
  /\ UNCHANGED <<freelist, useReference, limbo, pa, flags, sz, parent, killed, loc>>

\* Mutant: the shared page is not released.
CowNoKfree(p) ==
  /\ At(p, "cow_kfree")
  /\ pa' = [pa EXCEPT ![p][loc[p].cur] = None]
  /\ Goto(p, "cow_map")
  /\ UNCHANGED <<memory, flags, sz, parent, killed, loc>>

\* kfree() of the shared page.  The PTE of cowhandler() keeps the old address
\* until it is overwritten, but nothing reads it: p is in the kernel.
CowKfree(p) ==
  /\ At(p, "cow_kfree")
  /\ Kfree(p, p, loc[p].cur)
  /\ Goto(p, "cow_map")
  /\ UNCHANGED <<flags, sz, parent, killed, loc>>

\* The PTE now refers to the new page, writable and not copy-on-write.
CowFlags(fl) == (fl \cup {"PTE_W"}) \ {"PTE_RSW"}

\* A fault returns to the user, copyout() goes on to its store.
CowMap(p) ==
  LET v == loc[p].cur
  IN  /\ At(p, "cow_map")
      /\ pa' = [pa EXCEPT ![p][v] = pa[p][Mem], ![p][Mem] = None]
      /\ flags' = [flags EXCEPT ![p][v] = CowFlags(@)]
      /\ IF loc[p].val = None
         THEN Return(p)
         ELSE Goto(p, "copyout_write") /\ UNCHANGED loc
      /\ UNCHANGED <<memory, sz, parent, killed>>

\* copyout(): the memmove of the caller's bytes, which may continue in the
\* next page.  At the end wait() goes on to freeproc().
CopyoutWrite(p) ==
  /\ At(p, "copyout_write")
  /\ mem' = [mem EXCEPT ![pa[p][loc[p].cur]] = loc[p].val]
  /\ \/ /\ loc[p].cur + 1 \in Page
        /\ Goto(p, "copyout")
        /\ loc' = [loc EXCEPT ![p].cur = @ + 1]
     \/ /\ loc[p].np = None
        /\ Return(p)
     \/ /\ loc[p].np # None
        /\ Goto(p, "freeproc")
        /\ loc' = [loc EXCEPT ![p].cur = 0, ![p].val = None]
  /\ UNCHANGED <<freelist, useReference, limbo, pa, flags, sz, parent, killed>>

-----------------------------------------------------------------------------
(* fork(): allocproc() and uvmcopy()                                       *)

\* allocproc() has found the unused entry c.
Fork(p, c) ==
  /\ InUser(p)
  /\ pc[c] = "unused"
  /\ pc' = [pc EXCEPT ![p] = "allocproc", ![c] = "embryo"]
  /\ loc' = [loc EXCEPT ![p].np = c]
  /\ UNCHANGED <<memory, pa, flags, sz, parent, killed>>

\* The slots allocproc() has not filled yet, the trapframe before the others.
Missing(c) == {s \in Root \cup {Trapframe} : pa[c][s] = None}

\* One kalloc() of allocproc() and proc_pagetable(), ...
Allocproc(p) ==
  LET c == loc[p].np
  IN  /\ At(p, "allocproc")
      /\ \E s \in Missing(c) : /\ Trapframe \in Missing(c) => s = Trapframe
                               /\ Kalloc(c, s, Junk)
      /\ UNCHANGED <<flags, sz, parent, killed, pc, loc>>

\* ... whose failure ends in freeproc().
AllocprocFail(p) ==
  /\ At(p, "allocproc")
  /\ Missing(loc[p].np) # {} /\ OutOfMemory
  /\ Goto(p, "freeproc")
  /\ UNCHANGED <<memory, pa, flags, sz, parent, killed, loc>>

AllocprocDone(p) ==
  /\ At(p, "allocproc")
  /\ Missing(loc[p].np) = {}
  /\ Goto(p, "uvmcopy")
  /\ UNCHANGED <<memory, pa, flags, sz, parent, killed, loc>>

\* Mutants: PTE_W stays set beside PTE_RSW; the parent's PTE is left alone.
MarkCowWritable(fl) == IF "PTE_W" \in fl THEN fl \cup {"PTE_RSW"} ELSE fl
MarkNothing(fl) == fl

\* A writable page becomes read-only and copy-on-write, for both processes.
MarkCow(fl) == IF "PTE_W" \in fl THEN (fl \ {"PTE_W"}) \cup {"PTE_RSW"} ELSE fl

CountReference(f) == useReference' = [useReference EXCEPT ![f] = @ + 1]

\* uvmcopy() on page cur of the parent: mark the PTE and count the child's
\* reference, which the local `pa' now owns.
UvmcopyRef(p) ==
  LET v == loc[p].cur
      f == pa[p][v]
  IN  /\ At(p, "uvmcopy") /\ v < sz[p]
      /\ Mapped(p, v)
      /\ flags' = [flags EXCEPT ![p][v] = MarkCow(@)]
      /\ CountReference(f)
      /\ pa' = [pa EXCEPT ![p][Pa] = f]
      /\ Goto(p, "uvmcopy_map")
      /\ UNCHANGED <<freelist, limbo, mem, sz, parent, killed, loc>>

\* walk() must first make the page-table page for user page v of q.
NeedsLeaf(q, v) == pa[q][LeafOf[v]] = None

\* mappages() in uvmcopy(): the walk() that makes a page-table page, ...
UvmcopyWalk(p) ==
  LET c == loc[p].np
      v == loc[p].cur
  IN  /\ At(p, "uvmcopy_map")
      /\ NeedsLeaf(c, v) /\ Kalloc(c, LeafOf[v], Zero)
      /\ UNCHANGED <<flags, sz, parent, killed, pc, loc>>

\* ... the PTE of the child, ...
UvmcopyMap(p) ==
  LET c == loc[p].np
      v == loc[p].cur
  IN  /\ At(p, "uvmcopy_map")
      /\ ~NeedsLeaf(c, v)
      /\ pa' = [pa EXCEPT ![c][v] = pa[p][Pa], ![p][Pa] = None]
      /\ flags' = [flags EXCEPT ![c][v] = flags[p][v]]
      /\ loc' = [loc EXCEPT ![p].cur = v + 1]
      /\ Goto(p, "uvmcopy")
      /\ UNCHANGED <<memory, sz, parent, killed>>

\* ... or its failure: `goto err' leaves the reference of this page counted.
UvmcopyFail(p) ==
  /\ At(p, "uvmcopy_map")
  /\ NeedsLeaf(loc[p].np, loc[p].cur) /\ OutOfMemory
  /\ pa' = [pa EXCEPT ![p][Pa] = None]
  /\ loc' = [loc EXCEPT ![p].lim = loc[p].cur, ![p].cur = 0]
  /\ Goto(p, "uvmcopy_err")
  /\ UNCHANGED <<memory, flags, sz, parent, killed>>

\* uvmunmap(): *pte = 0 with the kfree() of page v of q.
Unmap(p, q, v) ==
  /\ Kfree(p, q, v)
  /\ flags' = [flags EXCEPT ![q][v] = {}]

\* err: uvmunmap() of the pages mapped so far, then fork() calls freeproc().
UvmcopyErr(p) ==
  /\ At(p, "uvmcopy_err")
  /\ IF loc[p].cur < loc[p].lim
     THEN /\ Unmap(p, loc[p].np, loc[p].cur)
          /\ loc' = [loc EXCEPT ![p].cur = @ + 1]
          /\ UNCHANGED pc
     ELSE /\ Goto(p, "freeproc")
          /\ loc' = [loc EXCEPT ![p].cur = 0, ![p].lim = 0]
          /\ UNCHANGED <<memory, pa, flags>>
  /\ UNCHANGED <<sz, parent, killed>>

\* The child gets the parent's size and becomes runnable.
ForkDone(p) ==
  LET c == loc[p].np
  IN  /\ At(p, "uvmcopy") /\ loc[p].cur = sz[p]
      /\ sz' = [sz EXCEPT ![c] = sz[p]]
      /\ parent' = [parent EXCEPT ![c] = p]
      /\ pc' = [pc EXCEPT ![p] = "user", ![c] = "user"]
      /\ loc' = [loc EXCEPT ![p] = NoLocals]
      /\ UNCHANGED <<memory, pa, flags, killed>>

-----------------------------------------------------------------------------
(* exit(), wait() and freeproc()                                           *)

\* exit(), called by p or because p was killed: the children go to initproc.
Exit(p) ==
  /\ At(p, "user") /\ p # InitProc
  /\ Goto(p, "zombie")
  /\ parent' = [q \in Proc |-> IF parent[q] = p THEN InitProc ELSE parent[q]]
  /\ UNCHANGED <<memory, pa, flags, sz, killed, loc>>

\* "init exiting": only a fault of initproc's own can bring it there.
InitPanic(p) ==
  /\ At(p, "user") /\ p = InitProc /\ p \in killed
  /\ Goto(p, "panic")
  /\ UNCHANGED <<memory, pa, flags, sz, parent, killed, loc>>

\* wait() finds its zombie c.  wait(0) goes to freeproc() at once, wait(addr)
\* first stores the exit status x in page v.
Wait(p, c) ==
  /\ InUser(p)
  /\ parent[c] = p /\ pc[c] = "zombie"
  /\ \/ /\ pc' = [pc EXCEPT ![p] = "freeproc", ![c] = "reaped"]
        /\ loc' = [loc EXCEPT ![p].np = c]
     \/ \E v \in Page, x \in Value :
          /\ pc' = [pc EXCEPT ![p] = "copyout", ![c] = "reaped"]
          /\ loc' = [loc EXCEPT ![p].np = c, ![p].cur = v, ![p].val = x]
  /\ UNCHANGED <<memory, pa, flags, sz, parent, killed>>

\* Mutant: a freeproc() that frees the page table under the user pages.
FreeTableOnly(c) ==
  IF pa[c][Trapframe] # None THEN {Trapframe}
  ELSE {s \in Root \cup Leaf : pa[c][s] # None}

\* The order of freeproc(): the trapframe, the user pages, then freewalk() from
\* low addresses to high ones.  A page table that proc_pagetable() could not
\* complete is freed before the trapframe.
FreeNext(c) ==
  LET user == {v \in Page : v < sz[c] /\ Mapped(c, v)}
      leaf == {s \in Leaf : pa[c][s] # None}
      inner == {s \in Root : pa[c][s] # None}
  IN  IF pa[c][Trapframe] # None /\ inner \in {{}, Root} THEN {Trapframe}
      ELSE IF user # {} THEN {v \in user : \A w \in user : v <= w}
      ELSE IF leaf # {} THEN leaf ELSE inner

Freeproc(p) ==
  LET c == loc[p].np
  IN  /\ At(p, "freeproc")
      /\ \E s \in FreeNext(c) :
           IF s \in Page THEN Unmap(p, c, s) ELSE Kfree(p, c, s) /\ UNCHANGED flags
      /\ UNCHANGED <<sz, parent, killed, pc, loc>>

FreeprocDone(p) ==
  LET c == loc[p].np
  IN  /\ At(p, "freeproc")
      /\ FreeNext(c) = {}
      /\ sz' = [sz EXCEPT ![c] = 0]
      /\ parent' = [parent EXCEPT ![c] = None]
      /\ killed' = killed \ {c}
      /\ pc' = [pc EXCEPT ![p] = "user", ![c] = "unused"]
      /\ loc' = [loc EXCEPT ![p] = NoLocals]
      /\ UNCHANGED <<memory, pa, flags>>

-----------------------------------------------------------------------------
(* sbrk(): growproc(), uvmalloc(), uvmdealloc()                            *)

Grow(p, n) ==
  /\ InUser(p)
  /\ n > sz[p]
  /\ loc' = [loc EXCEPT ![p].cur = sz[p], ![p].lim = n]
  /\ Goto(p, "uvmalloc")
  /\ UNCHANGED <<memory, pa, flags, sz, parent, killed>>

\* uvmdealloc() of the pages from page `from' up to page `to'.
DeallocFrom(p, from, to) ==
  /\ loc' = [loc EXCEPT ![p].cur = from, ![p].lim = to, ![p].newsz = from]
  /\ Goto(p, "uvmdealloc")

Uvmalloc(p) ==
  /\ At(p, "uvmalloc") /\ loc[p].cur < loc[p].lim
  /\ Kalloc(p, Mem, Zero)
  /\ Goto(p, "uvmalloc_map")
  /\ UNCHANGED <<flags, sz, parent, killed, loc>>

\* uvmalloc() gives up and goes back to the old size.
UvmallocNoMem(p) ==
  /\ At(p, "uvmalloc") /\ loc[p].cur < loc[p].lim
  /\ OutOfMemory
  /\ DeallocFrom(p, sz[p], loc[p].cur)
  /\ UNCHANGED <<memory, pa, flags, sz, parent, killed>>

UvmallocWalk(p) ==
  LET v == loc[p].cur
  IN  /\ At(p, "uvmalloc_map")
      /\ NeedsLeaf(p, v) /\ Kalloc(p, LeafOf[v], Zero)
      /\ UNCHANGED <<flags, sz, parent, killed, pc, loc>>

UvmallocMap(p) ==
  LET v == loc[p].cur
  IN  /\ At(p, "uvmalloc_map")
      /\ ~NeedsLeaf(p, v)
      /\ pa' = [pa EXCEPT ![p][v] = pa[p][Mem], ![p][Mem] = None]
      /\ flags' = [flags EXCEPT ![p][v] = {"PTE_U", "PTE_W"}]
      /\ loc' = [loc EXCEPT ![p].cur = v + 1]
      /\ Goto(p, "uvmalloc")
      /\ UNCHANGED <<memory, sz, parent, killed>>

\* mappages() failed: kfree(mem), then uvmdealloc().
UvmallocFail(p) ==
  /\ At(p, "uvmalloc_map")
  /\ NeedsLeaf(p, loc[p].cur) /\ OutOfMemory
  /\ Kfree(p, p, Mem)
  /\ DeallocFrom(p, sz[p], loc[p].cur)
  /\ UNCHANGED <<flags, sz, parent, killed>>

GrowDone(p) ==
  /\ At(p, "uvmalloc") /\ loc[p].cur = loc[p].lim
  /\ sz' = [sz EXCEPT ![p] = loc[p].lim]
  /\ Return(p)
  /\ UNCHANGED <<memory, pa, flags, parent, killed>>

Shrink(p, n) ==
  /\ InUser(p)
  /\ n < sz[p]
  /\ DeallocFrom(p, n, sz[p])
  /\ UNCHANGED <<memory, pa, flags, sz, parent, killed>>

Uvmdealloc(p) ==
  /\ At(p, "uvmdealloc")
  /\ IF loc[p].cur < loc[p].lim
     THEN /\ Unmap(p, p, loc[p].cur)
          /\ loc' = [loc EXCEPT ![p].cur = @ + 1]
          /\ UNCHANGED <<pc, sz>>
     ELSE /\ sz' = [sz EXCEPT ![p] = loc[p].newsz]
          /\ Return(p)
          /\ UNCHANGED <<memory, pa, flags>>
  /\ UNCHANGED <<parent, killed>>

-----------------------------------------------------------------------------
\* The first process after its exec().  freerange() has counted every free
\* page from 0 down to -1.
Init ==
  /\ freelist \in InitFree
  /\ useReference = [f \in Frame |-> IF f \in freelist THEN -1 ELSE 1]
  /\ limbo = [p \in Proc |-> None]
  /\ mem = [f \in Frame |-> IF f \in freelist THEN Junk ELSE Zero]
  /\ pa = [p \in Proc |-> IF p = InitProc THEN InitPa ELSE [s \in Slot |-> None]]
  /\ flags = [p \in Proc |-> IF p = InitProc THEN InitFlags ELSE [v \in Page |-> {}]]
  /\ sz = [p \in Proc |-> IF p = InitProc THEN InitSz ELSE 0]
  /\ parent = [p \in Proc |-> None]
  /\ killed = {}
  /\ pc = [p \in Proc |-> IF p = InitProc THEN "user" ELSE "unused"]
  /\ loc = [p \in Proc |-> NoLocals]

Fault(p) ==
  \/ \E v \in Page, x \in Value : Store(p, v, x) \/ Copyout(p, v, x)
  \/ \E v \in Page : StoreFault(p, v) \/ StoreKill(p, v)
  \/ CopyoutPage(p) \/ CopyoutFail(p)
  \/ CowCopy(p) \/ CowKfree(p) \/ CowMap(p) \/ CopyoutWrite(p)

ForkStep(p) ==
  \/ \E c \in Proc : Fork(p, c)
  \/ Allocproc(p) \/ AllocprocFail(p) \/ AllocprocDone(p)
  \/ UvmcopyRef(p) \/ UvmcopyWalk(p) \/ UvmcopyMap(p)
  \/ UvmcopyFail(p) \/ UvmcopyErr(p) \/ ForkDone(p)

ExitStep(p) ==
  \/ Exit(p) \/ InitPanic(p)
  \/ \E c \in Proc : Wait(p, c)
  \/ Freeproc(p) \/ FreeprocDone(p)

SbrkStep(p) ==
  \/ \E n \in 0 .. MaxPage : Grow(p, n) \/ Shrink(p, n)
  \/ Uvmalloc(p) \/ UvmallocNoMem(p)
  \/ UvmallocWalk(p) \/ UvmallocMap(p) \/ UvmallocFail(p)
  \/ GrowDone(p) \/ Uvmdealloc(p)

Next == \E p \in Proc : \/ KfreePush(p)
                        \/ Fault(p) \/ ForkStep(p) \/ ExitStep(p) \/ SbrkStep(p)

Spec == Init /\ [][Next]_vars

-----------------------------------------------------------------------------
(* Properties                                                              *)

\* Every variable has its type.
TypeOK ==
  /\ freelist \in SUBSET Frame
  /\ useReference \in [Frame -> Int]
  /\ limbo \in [Proc -> Frame \cup {None}]
  /\ mem \in [Frame -> Value \cup {Junk}]
  /\ pa \in [Proc -> [Slot -> Frame \cup {None}]]
  /\ flags \in [Proc -> [Page -> SUBSET Flag]]
  /\ sz \in [Proc -> 0 .. MaxPage]
  /\ parent \in [Proc -> Proc \cup {None}]
  /\ killed \in SUBSET Proc
  /\ pc \in [Proc -> PcLabel]
  /\ loc \in [Proc -> Locals]

\* The references to a physical page: PTEs, page tables, trapframes and the
\* two locals.
Refs(f) == {r \in Proc \X Slot : pa[r[1]][r[2]] = f}

\* Two references to one physical page are user pages that no PTE lets their
\* process write (or the one uvmcopy() is passing on): a store to a page that
\* fork() shares always faults, and no page is at once a user's and a page
\* table or a trapframe.
SharedReadOnly ==
  \A p, q \in Proc, s, t \in Slot :
    /\ <<p, s>> # <<q, t>>
    /\ pa[p][s] = pa[q][t]
    /\ pa[p][s] # None
    => s \in Page \cup {Pa} /\ (s \in Page => "PTE_W" \notin flags[p][s])

\* A page on the free list, or on its way there between the two critical
\* sections of kfree(), is referred to by nobody, is not on the list twice and
\* is being freed by one process only.
NoUseAfterFree ==
  /\ \A p \in Proc, s \in Slot : pa[p][s] \notin freelist
  /\ \A p, q \in Proc, s \in Slot : limbo[p] # None => pa[q][s] # limbo[p]
  /\ \A p \in Proc : limbo[p] \notin freelist
  /\ \A p, q \in Proc : limbo[p] = limbo[q] /\ limbo[p] # None => p = q

\* useReference never falls below the number of references: kfree() cannot give
\* away a page that some process still maps.
RefCount == \A f \in Frame : Refs(f) # {} => useReference[f] >= Cardinality(Refs(f))

\* The same with equality, and no page lost: what kfree() needs to give every
\* page back (vm.c:310, "frees any allocated pages on failure").
RefExact ==
  \A f \in Frame :
    \/ f \in freelist
    \/ \E p \in Proc : limbo[p] = f
    \/ Refs(f) # {} /\ useReference[f] = Cardinality(Refs(f))

\* Exactly the pages of S are mapped in p's page table.
MapsOnly(p, S) == \A v \in Page : Mapped(p, v) <=> v \in S

\* At every step of every system call the page table maps what the loops of
\* uvmunmap(), uvmcopy() and freewalk() expect: the panics "uvmunmap: not
\* mapped", "uvmcopy: page not present", "mappages: remap" and "freewalk: leaf"
\* are out of reach, also after a failure, and an unused entry holds no page.
MappedExactly ==
  \A p \in Proc :
    LET cur == loc[p].cur
        c == loc[p].np
    IN  /\ pc[p] \in {"user", "zombie", "cow_copy", "cow_kfree", "copyout",
                      "copyout_write", "uvmcopy", "uvmcopy_map"}
             => MapsOnly(p, 0 .. sz[p] - 1)
        /\ pc[p] = "cow_map" => MapsOnly(p, (0 .. sz[p] - 1) \ {cur})
        /\ pc[p] \in {"uvmalloc", "uvmalloc_map"} => MapsOnly(p, 0 .. cur - 1)
        /\ pc[p] = "uvmdealloc"
             => MapsOnly(p, (0 .. loc[p].newsz - 1) \cup (cur .. loc[p].lim - 1))
        /\ pc[p] \in {"uvmcopy", "uvmcopy_map"} => MapsOnly(c, 0 .. cur - 1)
        /\ pc[p] = "uvmcopy_err" => MapsOnly(c, cur .. loc[p].lim - 1)
        /\ pc[p] = "unused" => \A s \in Slot : pa[p][s] = None

\* The page that copyout() of p is about to write.
Target(p) == pa[p][loc[p].cur]

\* No step changes the contents of a page with two or more references, except
\* the last memmove of copyout(), which comes also without a copy: see
\* StoresShared and ReadOnlyConstant.
SharedConstant ==
  [][\A f \in Frame :
       /\ Cardinality(Refs(f)) > 1
       /\ \A p \in Proc : pc[p] = "copyout_write" => Target(p) # f
       => mem'[f] = mem[f]]_vars

\* The contents of a page that two processes share and may not write never
\* change (vm.c:325-326: read-only pages are not marked copy-on-write, because
\* they are never written).
ReadOnlyConstant ==
  [][\A p, q \in Proc, v \in Page :
       /\ p # q /\ Mapped(p, v) /\ pa[p][v] = pa[q][v]
       /\ flags[p][v] \cap {"PTE_W", "PTE_RSW"} = {}
       => mem'[pa[p][v]] = mem[pa[p][v]]]_vars

=============================================================================
