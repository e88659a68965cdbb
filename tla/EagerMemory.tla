------------------------------ MODULE EagerMemory ------------------------------
(***************************************************************************)
(* Physical pages, page tables and fork() of XV6-1, which copies at once:   *)
(* kernel/kalloc.c, kernel/vm.c and the parts of kernel/proc.c that         *)
(* allocate and release memory.  There are no reference counts, so every    *)
(* page has to have one owner, whatever kalloc() fails on the way.          *)
(*                                                                         *)
(* Slots are those of CowMemory: the user pages, the pages of the page      *)
(* table, the trapframe and the local `mem'.  A step is one critical        *)
(* section of kmem.lock with what the process does to its own page table    *)
(* and its own pages around it; where the code panics it is disabled.       *)
(* The page of a saved trapframe is in Alarm.                               *)
(***************************************************************************)
EXTENDS Integers, FiniteSets

CONSTANTS
  Proc, InitProc,
  Frame, Heads(_),   \* physical pages, and those that kalloc() may pop
  MaxPage,           \* bound on p->sz, in pages
  Root, Leaf, LeafOf, Trapframe, Mem,  \* slots, as in CowMemory
  InitSz, InitFlags, InitPa,           \* the first program after its exec()
  InitFree,          \* free lists to start from
  Value, Zero, Junk, None

Page == 0 .. MaxPage - 1
Slot == Page \cup Root \cup Leaf \cup {Trapframe, Mem}

EagerAssumption ==
  /\ InitProc \in Proc /\ None \notin Proc \cup Frame \cup Value \cup {Zero, Junk}
  /\ \A S \in SUBSET Frame : Heads(S) \subseteq S
  /\ MaxPage \in Nat /\ InitSz \in 0 .. MaxPage /\ InitFlags \in [Page -> SUBSET {"PTE_U", "PTE_W"}]
  /\ LeafOf \in [Page -> Leaf]
  /\ Page \cap (Root \cup Leaf \cup {Trapframe, Mem}) = {}
  /\ Mem \notin Root \cup Leaf \cup {Trapframe}
  /\ InitPa \in [Slot -> Frame \cup {None}] /\ InitPa[Mem] = None
  /\ \A s, t \in Slot : InitPa[s] # None /\ InitPa[s] = InitPa[t] => s = t
  /\ \A v \in Page : v < InitSz => InitPa[v] # None
  /\ \A S \in InitFree : S \subseteq Frame /\ \A s \in Slot : InitPa[s] \notin S

ASSUME EagerConstants == EagerAssumption

VARIABLES freelist, mem, pa, flags, sz, parent, pc, loc,
          elsewhere    \* pages that pipes and the kernel hold for good
memory == <<freelist, mem, pa>>
eagerVars == <<freelist, mem, pa, flags, sz, parent, pc, loc, elsewhere>>

\* cur: the page a loop has reached; lim: where it ends; newsz: what growproc() stores;
\* np: the child that is made or released; val: what copyout() stores.
NoLocals == [cur |-> 0, lim |-> 0, newsz |-> 0, np |-> None, val |-> None]
At(p, l) == pc[p] = l
Goto(p, l) == pc' = [pc EXCEPT ![p] = l]
Return(p) == Goto(p, "user") /\ loc' = [loc EXCEPT ![p] = NoLocals]
Advance(p) == loc' = [loc EXCEPT ![p].cur = @ + 1]

-----------------------------------------------------------------------------
(* kalloc.c                                                                *)

OutOfMemory == freelist = {}

\* kalloc() into slot s of q, filled with c.
Kalloc(q, s, c) ==
  \E f \in Heads(freelist) :
    /\ freelist' = freelist \ {f}
    /\ mem' = [mem EXCEPT ![f] = c]
    /\ pa' = [pa EXCEPT ![q][s] = f]

\* kfree(), and the PTE or pointer is forgotten.
Kfree(q, s) ==
  LET f == pa[q][s] IN
    /\ f # None
    /\ freelist' = freelist \cup {f}
    /\ mem' = [mem EXCEPT ![f] = Junk]
    /\ pa' = [pa EXCEPT ![q][s] = None]

-----------------------------------------------------------------------------
(* Stores of the program and of system calls                               *)

Store(p, v, x) ==
  /\ At(p, "user") /\ pa[p][v] # None /\ {"PTE_U", "PTE_W"} \subseteq flags[p][v]
  /\ mem' = [mem EXCEPT ![pa[p][v]] = x]
  /\ UNCHANGED <<freelist, pa, flags, sz, parent, pc, loc>>

\* A system call that stores x from page v on.
Copyout(p, v, x) ==
  /\ At(p, "user")
  /\ Goto(p, "copyout")
  /\ loc' = [loc EXCEPT ![p].cur = v, ![p].val = x]
  /\ UNCHANGED <<memory, flags, sz, parent>>

\* walkaddr().
User(p, v) == v \in Page /\ pa[p][v] # None /\ "PTE_U" \in flags[p][v]

\* One turn of copyout()'s loop; after the last one wait() goes on to freeproc().
CopyoutPage(p) ==
  LET v == loc[p].cur IN
    /\ At(p, "copyout") /\ User(p, v)
    /\ mem' = [mem EXCEPT ![pa[p][v]] = loc[p].val]
    /\ \/ Advance(p) /\ UNCHANGED pc
       \/ loc[p].np = None /\ Return(p)
       \/ /\ loc[p].np # None
          /\ Goto(p, "freeproc")
          /\ loc' = [loc EXCEPT ![p].cur = 0, ![p].val = None]
    /\ UNCHANGED <<freelist, pa, flags, sz, parent>>

\* copyout() fails, and wait() leaves the child a zombie.
CopyoutFail(p) ==
  /\ At(p, "copyout") /\ ~User(p, loc[p].cur)
  /\ pc' = [q \in Proc |-> CASE q = p -> "user" [] q = loc[p].np -> "zombie" [] OTHER -> pc[q]]
  /\ loc' = [loc EXCEPT ![p] = NoLocals]
  /\ UNCHANGED <<memory, flags, sz, parent>>

-----------------------------------------------------------------------------
(* mappages() of the page in `mem' at page cur of q                         *)

NeedsLeaf(q, p) == pa[q][LeafOf[loc[p].cur]] = None

\* walk() makes a page of the page table, or cannot.
Walk(p, q) == NeedsLeaf(q, p) /\ Kalloc(q, LeafOf[loc[p].cur], Zero)
WalkFails(p, q) == NeedsLeaf(q, p) /\ OutOfMemory

\* The PTE; the loop of the caller goes on.
Map(p, q, perm) ==
  /\ ~NeedsLeaf(q, p) /\ pa[q][loc[p].cur] = None
  /\ pa' = [[pa EXCEPT ![p][Mem] = None] EXCEPT ![q][loc[p].cur] = pa[p][Mem]]
  /\ flags' = [flags EXCEPT ![q][loc[p].cur] = perm]
  /\ Advance(p)
  /\ UNCHANGED <<freelist, mem>>

\* uvmunmap() of page cur of q.
Unmap(p, q) ==
  /\ Kfree(q, loc[p].cur)
  /\ flags' = [flags EXCEPT ![q][loc[p].cur] = {}]

-----------------------------------------------------------------------------
(* fork()                                                                  *)

Fork(p, c) ==
  /\ At(p, "user") /\ At(c, "unused")
  /\ pc' = [pc EXCEPT ![p] = "allocproc", ![c] = "embryo"]
  /\ loc' = [loc EXCEPT ![p].np = c]
  /\ UNCHANGED <<memory, flags, sz, parent>>

Missing(c) == {s \in Root \cup {Trapframe} : pa[c][s] = None}

Allocproc(p) ==
  LET c == loc[p].np IN
    /\ At(p, "allocproc")
    /\ \E s \in Missing(c) : (Trapframe \in Missing(c) => s = Trapframe) /\ Kalloc(c, s, Junk)
    /\ UNCHANGED <<flags, sz, parent, pc, loc>>

AllocprocFail(p) ==
  /\ At(p, "allocproc") /\ Missing(loc[p].np) # {} /\ OutOfMemory
  /\ Goto(p, "freeproc")
  /\ UNCHANGED <<memory, flags, sz, parent, loc>>

AllocprocDone(p) ==
  /\ At(p, "allocproc") /\ Missing(loc[p].np) = {}
  /\ Goto(p, "uvmcopy")
  /\ UNCHANGED <<memory, flags, sz, parent, loc>>

\* uvmcopy() on page cur: kalloc() and memmove(), ...
UvmcopyPage(p) ==
  /\ At(p, "uvmcopy") /\ loc[p].cur < sz[p] /\ pa[p][loc[p].cur] # None
  /\ Kalloc(p, Mem, mem[pa[p][loc[p].cur]])
  /\ Goto(p, "uvmcopy_map")
  /\ UNCHANGED <<flags, sz, parent, loc>>

\* ... mappages() ...
UvmcopyMap(p) ==
  /\ At(p, "uvmcopy_map")
  /\ \/ Walk(p, loc[p].np) /\ UNCHANGED <<flags, pc, loc>>
     \/ Map(p, loc[p].np, flags[p][loc[p].cur]) /\ Goto(p, "uvmcopy")
  /\ UNCHANGED <<sz, parent>>

\* ... or `goto err', from the first kalloc() or, after kfree(mem), from walk().
GotoErr(p) == Goto(p, "uvmcopy_err") /\ loc' = [loc EXCEPT ![p].lim = loc[p].cur, ![p].cur = 0]

UvmcopyNoMem(p) ==
  /\ At(p, "uvmcopy") /\ loc[p].cur < sz[p] /\ OutOfMemory
  /\ GotoErr(p)
  /\ UNCHANGED <<memory, flags, sz, parent>>

\* Mutant: without kfree(mem).
UvmcopyKeepsMem(p) ==
  /\ At(p, "uvmcopy_map") /\ WalkFails(p, loc[p].np)
  /\ GotoErr(p)
  /\ pa' = [pa EXCEPT ![p][Mem] = None]
  /\ UNCHANGED <<freelist, mem, flags, sz, parent>>

UvmcopyFail(p) ==
  /\ At(p, "uvmcopy_map") /\ WalkFails(p, loc[p].np)
  /\ Kfree(p, Mem)
  /\ GotoErr(p)
  /\ UNCHANGED <<flags, sz, parent>>

\* err: the pages so far are unmapped, and fork() calls freeproc().
UvmcopyErr(p) ==
  /\ At(p, "uvmcopy_err")
  /\ IF loc[p].cur < loc[p].lim
     THEN Unmap(p, loc[p].np) /\ Advance(p) /\ UNCHANGED pc
     ELSE /\ Goto(p, "freeproc")
          /\ loc' = [loc EXCEPT ![p].cur = 0, ![p].lim = 0]
          /\ UNCHANGED <<memory, flags>>
  /\ UNCHANGED <<sz, parent>>

ForkDone(p) ==
  LET c == loc[p].np IN
    /\ At(p, "uvmcopy") /\ loc[p].cur = sz[p]
    /\ sz' = [sz EXCEPT ![c] = sz[p]]
    /\ parent' = [parent EXCEPT ![c] = p]
    /\ pc' = [pc EXCEPT ![p] = "user", ![c] = "user"]
    /\ loc' = [loc EXCEPT ![p] = NoLocals]
    /\ UNCHANGED <<memory, flags>>

-----------------------------------------------------------------------------
(* exit(), wait() and freeproc()                                           *)

\* exit(), called by p, after kill(), or after a store that no PTE allows.
Exit(p) ==
  /\ At(p, "user")
  /\ Goto(p, IF p = InitProc THEN "panic" ELSE "zombie")
  /\ parent' = [q \in Proc |-> IF parent[q] = p /\ p # InitProc THEN InitProc ELSE parent[q]]
  /\ UNCHANGED <<memory, flags, sz, loc>>

\* wait(0), or wait(addr) with addr in page v.
Wait(p, c) ==
  /\ At(p, "user") /\ parent[c] = p /\ At(c, "zombie")
  /\ \/ /\ pc' = [pc EXCEPT ![p] = "freeproc", ![c] = "reaped"]
        /\ loc' = [loc EXCEPT ![p].np = c]
     \/ \E v \in Page, x \in Value :
          /\ pc' = [pc EXCEPT ![p] = "copyout", ![c] = "reaped"]
          /\ loc' = [loc EXCEPT ![p].np = c, ![p].cur = v, ![p].val = x]
  /\ UNCHANGED <<memory, flags, sz, parent>>

\* freeproc(): the trapframe, user pages, then freewalk(); a page table that
\* proc_pagetable() could not complete goes before the trapframe.
FreeNext(c) ==
  LET user == {v \in Page : v < sz[c] /\ pa[c][v] # None}
      leaf == {s \in Leaf : pa[c][s] # None}
      inner == {s \in Root : pa[c][s] # None}
  IN  IF pa[c][Trapframe] # None /\ inner \in {{}, Root} THEN {Trapframe}
      ELSE IF user # {} THEN {v \in user : \A w \in user : v <= w}
      ELSE IF leaf # {} THEN leaf ELSE inner

Freeproc(p) ==
  LET c == loc[p].np IN
    /\ At(p, "freeproc")
    /\ \E s \in FreeNext(c) :
         /\ Kfree(c, s)
         /\ flags' = IF s \in Page THEN [flags EXCEPT ![c][s] = {}] ELSE flags
    /\ UNCHANGED <<sz, parent, pc, loc>>

FreeprocDone(p) ==
  LET c == loc[p].np IN
    /\ At(p, "freeproc") /\ FreeNext(c) = {}
    /\ sz' = [sz EXCEPT ![c] = 0]
    /\ parent' = [parent EXCEPT ![c] = None]
    /\ pc' = [pc EXCEPT ![p] = "user", ![c] = "unused"]
    /\ loc' = [loc EXCEPT ![p] = NoLocals]
    /\ UNCHANGED <<memory, flags>>

-----------------------------------------------------------------------------
(* sbrk()                                                                  *)

Grow(p, n) ==
  /\ At(p, "user") /\ n > sz[p]
  /\ loc' = [loc EXCEPT ![p].cur = sz[p], ![p].lim = n]
  /\ Goto(p, "uvmalloc")
  /\ UNCHANGED <<memory, flags, sz, parent>>

\* Mutant: the page is not cleared.
UvmallocUncleared(p) ==
  /\ At(p, "uvmalloc") /\ loc[p].cur < loc[p].lim
  /\ Kalloc(p, Mem, Junk)
  /\ Goto(p, "uvmalloc_map")
  /\ UNCHANGED <<flags, sz, parent, loc>>

UvmallocPage(p) ==
  /\ At(p, "uvmalloc") /\ loc[p].cur < loc[p].lim
  /\ Kalloc(p, Mem, Zero)
  /\ Goto(p, "uvmalloc_map")
  /\ UNCHANGED <<flags, sz, parent, loc>>

UvmallocMap(p) ==
  /\ At(p, "uvmalloc_map")
  /\ \/ Walk(p, p) /\ UNCHANGED <<flags, pc, loc>>
     \/ Map(p, p, {"PTE_U", "PTE_W"}) /\ Goto(p, "uvmalloc")
  /\ UNCHANGED <<sz, parent>>

\* uvmdealloc() of the pages from `to' up to `from', growproc() storing `to'.
DeallocFrom(p, from, to) ==
  /\ loc' = [loc EXCEPT ![p].cur = to, ![p].lim = from, ![p].newsz = to]
  /\ Goto(p, "uvmdealloc")

UvmallocNoMem(p) ==
  /\ At(p, "uvmalloc") /\ loc[p].cur < loc[p].lim /\ OutOfMemory
  /\ DeallocFrom(p, loc[p].cur, sz[p])
  /\ UNCHANGED <<memory, flags, sz, parent>>

UvmallocFail(p) ==
  /\ At(p, "uvmalloc_map") /\ WalkFails(p, p)
  /\ Kfree(p, Mem)
  /\ DeallocFrom(p, loc[p].cur, sz[p])
  /\ UNCHANGED <<flags, sz, parent>>

GrowDone(p) ==
  /\ At(p, "uvmalloc") /\ loc[p].cur = loc[p].lim
  /\ sz' = [sz EXCEPT ![p] = loc[p].lim]
  /\ Return(p)
  /\ UNCHANGED <<memory, flags, parent>>

Shrink(p, n) ==
  /\ At(p, "user") /\ n < sz[p]
  /\ DeallocFrom(p, sz[p], n)
  /\ UNCHANGED <<memory, flags, sz, parent>>

Uvmdealloc(p) ==
  /\ At(p, "uvmdealloc")
  /\ IF loc[p].cur < loc[p].lim
     THEN Unmap(p, p) /\ Advance(p) /\ UNCHANGED <<pc, sz>>
     ELSE sz' = [sz EXCEPT ![p] = loc[p].newsz] /\ Return(p) /\ UNCHANGED <<memory, flags>>
  /\ UNCHANGED parent

-----------------------------------------------------------------------------

EagerInit ==
  /\ freelist \in InitFree
  /\ elsewhere = Frame \ (freelist \cup {InitPa[s] : s \in Slot})
  /\ mem = [f \in Frame |-> IF f \in freelist THEN Junk ELSE Zero]
  /\ pa = [p \in Proc |-> [s \in Slot |-> IF p = InitProc THEN InitPa[s] ELSE None]]
  /\ flags = [p \in Proc |-> IF p = InitProc THEN InitFlags ELSE [v \in Page |-> {}]]
  /\ sz = [p \in Proc |-> IF p = InitProc THEN InitSz ELSE 0]
  /\ parent = [p \in Proc |-> None]
  /\ pc = [p \in Proc |-> IF p = InitProc THEN "user" ELSE "unused"]
  /\ loc = [p \in Proc |-> NoLocals]

EagerNext ==
  /\ UNCHANGED elsewhere
  /\ \E p \in Proc :
      \/ \E v \in Page, x \in Value : Store(p, v, x) \/ Copyout(p, v, x)
      \/ CopyoutPage(p) \/ CopyoutFail(p)
      \/ \E c \in Proc : Fork(p, c) \/ Wait(p, c)
      \/ Allocproc(p) \/ AllocprocFail(p) \/ AllocprocDone(p)
      \/ UvmcopyPage(p) \/ UvmcopyMap(p) \/ UvmcopyNoMem(p) \/ UvmcopyFail(p) \/ UvmcopyErr(p)
      \/ ForkDone(p)
      \/ Exit(p) \/ Freeproc(p) \/ FreeprocDone(p)
      \/ \E n \in 0 .. MaxPage : Grow(p, n) \/ Shrink(p, n)
      \/ UvmallocPage(p) \/ UvmallocMap(p) \/ UvmallocNoMem(p) \/ UvmallocFail(p)
      \/ GrowDone(p) \/ Uvmdealloc(p)

EagerSpec == EagerInit /\ [][EagerNext]_eagerVars

-----------------------------------------------------------------------------

\* Every physical page is free, or has one owner, at each step and after every failure
\* too: none is lost, freed twice or in two address spaces.
OwnedOnce ==
  /\ \A p, q \in Proc, s, t \in Slot :
       pa[p][s] # None /\ pa[p][s] = pa[q][t] => p = q /\ s = t
  /\ \A p \in Proc, s \in Slot : pa[p][s] \notin freelist \cup elsewhere
  /\ \A f \in Frame \ (freelist \cup elsewhere) : \E p \in Proc, s \in Slot : pa[p][s] = f

\* What the programs read: pages that sbrk() adds or takes are there or gone at once.
Running == {p \in Proc : pc[p] \notin {"unused", "embryo", "zombie", "reaped", "panic"}}
VisibleSize(p) == IF At(p, "uvmdealloc") THEN loc[p].newsz ELSE sz[p]
View(p, v) == IF p \in Running /\ v < VisibleSize(p) THEN mem[pa[p][v]] ELSE None

Views == [p \in Proc |-> [v \in Page |-> View(p, v)]]

\* The kernel implements PrivateMemory, whatever kalloc() fails: its step need not be
\* looked for when no variable of the memory changes.
Private == INSTANCE PrivateMemory WITH alive <- Running, view <- Views
EagerPrivate ==
  Private!Init /\ [][eagerVars' # eagerVars => Private!Next]_<<Running, Views>>

=============================================================================
