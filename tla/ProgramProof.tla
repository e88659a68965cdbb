--------------------------- MODULE ProgramProof ----------------------------
(***************************************************************************)
(* Proofs that programs are kept apart.                                     *)
(*   Their memory, in EagerMemory, for any number of processes, pages and   *)
(* frames, any list of free pages to start from and any order in which      *)
(* kalloc() takes them: every page has one owner, and fork() by copying     *)
(* keeps the memories of the programs apart, whatever kalloc() fails.       *)
(*   Their registers, in Trap, for any number of processes and harts: what  *)
(* a trap interrupts goes on with its own.                                  *)
(***************************************************************************)
EXTENDS EagerMemory, Trap, TLAPS

Content == Value \cup {Zero, Junk}
PcLabel == {"user", "copyout", "unused", "embryo", "allocproc", "uvmcopy", "uvmcopy_map",
            "uvmcopy_err", "uvmalloc", "uvmalloc_map", "uvmdealloc", "freeproc", "zombie",
            "reaped", "panic"}
Locals == [cur : 0 .. MaxPage, lim : 0 .. MaxPage, newsz : 0 .. MaxPage,
           np : Proc \cup {None}, val : Value \cup {None}]

\* Labels at which np is the child that fork() builds or wait() releases; labels
\* between two operations, or of entries that run none; labels with a page in `mem'.
Building == {"allocproc", "uvmcopy", "uvmcopy_map", "uvmcopy_err", "freeproc"}
Idle == {"user", "unused", "embryo", "zombie", "reaped", "panic"}
Mapping == {"uvmcopy_map", "uvmalloc_map"}

TypeOK ==
  /\ freelist \in SUBSET Frame /\ elsewhere \in SUBSET Frame
  /\ mem \in [Frame -> Content]
  /\ pa \in [Proc -> [Slot -> Frame \cup {None}]]
  /\ sz \in [Proc -> 0 .. MaxPage]
  /\ pc \in [Proc -> PcLabel]
  /\ loc \in [Proc -> Locals]

\* An entry that is made or released is so by one process, the one whose np it is.
OwnerOK ==
  /\ \A p \in Proc : loc[p].np # None => pc[loc[p].np] \in {"embryo", "reaped"}
  /\ \A p, q \in Proc : loc[p].np = loc[q].np /\ loc[p].np # None => p = q
  /\ \A p \in Proc : pc[p] \in Building => loc[p].np # None

\* What a slot shows to whoever reads through it: the contents of its page.
contents == [p \in Proc |-> [s \in Slot |-> IF pa[p][s] = None THEN None ELSE mem[pa[p][s]]]]

\* How far a thread has come with its own pages, and with those of its child.
LocalOK(p) ==
  /\ pc[p] \in Idle => loc[p] = NoLocals
  /\ pc[p] = "copyout" => loc[p].val \in Value
  /\ pc[p] \in {"allocproc", "freeproc"} => loc[p].cur = 0
  /\ pc[p] \in Mapping => loc[p].cur \in Page
  /\ pc[p] \in {"uvmalloc", "uvmalloc_map", "uvmdealloc"} => loc[p].np = None
  /\ pc[p] \notin Mapping => contents[p][Mem] = None
  /\ pc[p] = "uvmdealloc" => loc[p].newsz <= loc[p].cur
  /\ pc[p] \in {"uvmalloc", "uvmalloc_map"} =>
       /\ sz[p] <= loc[p].cur /\ loc[p].cur <= loc[p].lim
       /\ \A v \in Page : sz[p] <= v /\ v < loc[p].cur => contents[p][v] = Zero
  /\ pc[p] = "uvmalloc_map" => loc[p].cur < loc[p].lim /\ contents[p][Mem] = Zero
  /\ pc[p] \in {"uvmcopy", "uvmcopy_map"} =>
       /\ loc[p].cur <= sz[p]
       /\ \A v \in Page : v < loc[p].cur => contents[loc[p].np][v] = contents[p][v]
  /\ pc[p] = "uvmcopy_map" =>
       loc[p].cur < sz[p] /\ contents[p][Mem] = contents[p][loc[p].cur]

\* A program can read every page below its size.
MappedOK(p) ==
  p \in Running => \A v \in Page : v < VisibleSize(p) => contents[p][v] # None

\* What the kernel holds for good is not free either.
OwnedOK == OwnedOnce /\ freelist \cap elsewhere = {}

IInv == TypeOK /\ OwnerOK /\ OwnedOK /\ \A p \in Proc : LocalOK(p) /\ MappedOK(p)

\* What the programs see: Private's view, read off the contents of the slots.
Seen(p, v) == IF p \in Running /\ v < VisibleSize(p) THEN contents[p][v] ELSE None
Quiet == Running' = Running /\ \A q \in Proc, v \in Page : Seen(q, v)' = Seen(q, v)

-----------------------------------------------------------------------------
(* Slots, locals and what the slots show                                   *)

LEMMA Slots ==
  ASSUME EagerAssumption
  PROVE  /\ Page \subseteq Slot /\ Leaf \subseteq Slot /\ Root \subseteq Slot
         /\ Trapframe \in Slot /\ Mem \in Slot
         /\ Mem \notin Page /\ Mem \notin Leaf /\ Mem \notin Root /\ Mem # Trapframe
         /\ Page \cap Leaf = {} /\ Page \cap Root = {} /\ Trapframe \notin Page
         /\ \A v \in Page : LeafOf[v] \in Leaf
  BY DEF EagerAssumption, Slot

LEMMA Pages ==
  ASSUME EagerAssumption
  PROVE  /\ MaxPage \in Nat /\ 0 \in 0 .. MaxPage
         /\ \A n \in 0 .. MaxPage : n \in Int /\ n >= 0 /\ n <= MaxPage
         /\ \A v \in Page : v \in 0 .. MaxPage /\ v + 1 \in 0 .. MaxPage
         /\ \A n, m \in 0 .. MaxPage : n < m => n \in Page
  BY DEF EagerAssumption, Page

LEMMA LocFields ==
  ASSUME TypeOK, NEW p \in Proc
  PROVE  /\ loc[p].cur \in 0 .. MaxPage /\ loc[p].lim \in 0 .. MaxPage
         /\ loc[p].newsz \in 0 .. MaxPage /\ loc[p].np \in Proc \cup {None}
         /\ loc[p].val \in Value \cup {None}
  BY DEF TypeOK, Locals

LEMMA NoLocalsType ==
  ASSUME EagerAssumption
  PROVE  /\ NoLocals \in Locals /\ NoLocals.np = None /\ NoLocals.cur = 0
         /\ NoLocals.lim = 0 /\ NoLocals.newsz = 0 /\ NoLocals.val = None
  BY Pages DEF NoLocals, Locals

LEMMA AdvanceEffect ==
  ASSUME EagerAssumption, TypeOK, NEW p \in Proc, loc[p].cur \in Page, Advance(p)
  PROVE  /\ loc' \in [Proc -> Locals]
         /\ \A q \in Proc \ {p} : loc'[q] = loc[q]
         /\ loc'[p].cur = loc[p].cur + 1 /\ loc'[p].lim = loc[p].lim
         /\ loc'[p].newsz = loc[p].newsz /\ loc'[p].np = loc[p].np /\ loc'[p].val = loc[p].val
<1>1. loc[p].cur + 1 \in 0 .. MaxPage /\ loc \in [Proc -> Locals]
  BY Pages DEF TypeOK
<1> QED
  BY <1>1 DEF Locals, Advance

LEMMA ReturnEffect ==
  ASSUME EagerAssumption, TypeOK, NEW p \in Proc, Return(p)
  PROVE  /\ loc' \in [Proc -> Locals] /\ loc'[p] = NoLocals
         /\ \A q \in Proc \ {p} : loc'[q] = loc[q] /\ pc'[q] = pc[q]
         /\ pc' \in [Proc -> PcLabel] /\ pc'[p] = "user"
  BY NoLocalsType DEF TypeOK, Return, Goto, PcLabel

LEMMA GotoEffect ==
  ASSUME TypeOK, NEW p \in Proc, NEW l \in PcLabel, Goto(p, l)
  PROVE  /\ pc' \in [Proc -> PcLabel] /\ pc'[p] = l
         /\ \A q \in Proc \ {p} : pc'[q] = pc[q]
  BY DEF TypeOK, Goto

LEMMA Contents ==
  ASSUME EagerAssumption, TypeOK
  PROVE  /\ contents \in [Proc -> [Slot -> Content \cup {None}]]
         /\ \A p \in Proc, s \in Slot :
              /\ pa[p][s] = None <=> contents[p][s] = None
              /\ pa[p][s] # None => pa[p][s] \in Frame /\ contents[p][s] = mem[pa[p][s]]
  BY DEF EagerAssumption, TypeOK, contents, Content

\* Types of what memory is made of.
MemType ==
  /\ freelist \in SUBSET Frame /\ elsewhere \in SUBSET Frame
  /\ mem \in [Frame -> Content]
  /\ pa \in [Proc -> [Slot -> Frame \cup {None}]]

\* A step that leaves memory alone.
LEMMA Untouched ==
  ASSUME TypeOK, OwnedOK, UNCHANGED <<memory, elsewhere>>
  PROVE  MemType' /\ OwnedOK' /\ contents' = contents
<1>1. freelist' = freelist /\ mem' = mem /\ pa' = pa /\ elsewhere' = elsewhere
  BY DEF memory
<1>2. contents' = contents
  BY <1>1 DEF contents
<1> QED
  BY <1>1, <1>2 DEF MemType, TypeOK, OwnedOnce, OwnedOK

\* kalloc() gives an empty slot a page that nobody else has.
LEMMA KallocEffect ==
  ASSUME EagerAssumption, TypeOK, OwnedOK, UNCHANGED elsewhere,
         NEW q \in Proc, NEW s \in Slot, NEW c \in Content, pa[q][s] = None, Kalloc(q, s, c)
  PROVE  MemType' /\ OwnedOK' /\ contents' = [contents EXCEPT ![q][s] = c]
<1>1. PICK f \in freelist :
        /\ freelist' = freelist \ {f} /\ f \in Frame /\ f # None
        /\ mem' = [mem EXCEPT ![f] = c]
        /\ pa' = [pa EXCEPT ![q][s] = f]
  <2>1. PICK f \in Heads(freelist) :
          /\ freelist' = freelist \ {f}
          /\ mem' = [mem EXCEPT ![f] = c]
          /\ pa' = [pa EXCEPT ![q][s] = f]
    BY DEF Kalloc
  <2>2. f \in freelist
    BY DEF EagerAssumption, TypeOK
  <2>3. f \in Frame /\ f # None
    BY <2>2 DEF EagerAssumption, TypeOK
  <2> QED
    BY <2>1, <2>2, <2>3
<1>2. MemType'
  BY <1>1 DEF MemType, TypeOK
<1>3. \A r \in Proc, t \in Slot :
        pa'[r][t] = IF r = q /\ t = s THEN f ELSE pa[r][t]
  BY <1>1 DEF TypeOK
<1>4. \A r \in Proc, t \in Slot : pa[r][t] # f
  BY <1>1 DEF OwnedOnce, OwnedOK
<1>5. OwnedOK'
  <2>1. \A r, r2 \in Proc, t, t2 \in Slot :
          pa'[r][t] # None /\ pa'[r][t] = pa'[r2][t2] => r = r2 /\ t = t2
    BY <1>3, <1>4 DEF OwnedOnce, OwnedOK
  <2>2. f \notin elsewhere
    BY <1>1 DEF OwnedOK
  <2>3. \A r \in Proc, t \in Slot : pa'[r][t] \notin freelist' \cup elsewhere'
    BY <1>1, <1>3, <2>2 DEF OwnedOnce, OwnedOK
  <2>4. \A g \in Frame \ (freelist' \cup elsewhere') :
          \E r \in Proc, t \in Slot : pa'[r][t] = g
    BY <1>1, <1>3 DEF OwnedOnce, OwnedOK, EagerAssumption
  <2> QED
    BY <1>1, <2>1, <2>3, <2>4 DEF OwnedOnce, OwnedOK
<1>6. ASSUME NEW r \in Proc, NEW t \in Slot
      PROVE  contents'[r][t] = IF r = q /\ t = s THEN c ELSE contents[r][t]
  BY <1>1, <1>3, <1>4 DEF contents, TypeOK
<1>7. contents' = [contents EXCEPT ![q][s] = c]
  <2>1. contents' = [p \in Proc |-> [t \in Slot |-> contents'[p][t]]]
    BY DEF contents
  <2>2. contents = [p \in Proc |-> [t \in Slot |-> contents[p][t]]]
    BY DEF contents
  <2> QED
    BY <1>6, <2>1, <2>2
<1> QED
  BY <1>2, <1>5, <1>7

\* kfree() takes the page of a slot, and nobody else has had it.
LEMMA KfreeEffect ==
  ASSUME EagerAssumption, TypeOK, OwnedOK, UNCHANGED elsewhere,
         NEW q \in Proc, NEW s \in Slot, Kfree(q, s)
  PROVE  MemType' /\ OwnedOK' /\ contents' = [contents EXCEPT ![q][s] = None]
<1> DEFINE f == pa[q][s]
<1>1. /\ freelist' = freelist \cup {f} /\ f \in Frame /\ f # None
      /\ mem' = [mem EXCEPT ![f] = Junk]
      /\ pa' = [pa EXCEPT ![q][s] = None]
  BY DEF Kfree, TypeOK
<1>2. MemType'
  BY <1>1 DEF MemType, TypeOK, Content
<1>3. \A r \in Proc, t \in Slot :
        pa'[r][t] = IF r = q /\ t = s THEN None ELSE pa[r][t]
  BY <1>1 DEF TypeOK
<1>4. \A r \in Proc, t \in Slot : pa[r][t] = f => r = q /\ t = s
  BY <1>1 DEF OwnedOnce, OwnedOK
<1>5. OwnedOK'
  <2>1. \A r, r2 \in Proc, t, t2 \in Slot :
          pa'[r][t] # None /\ pa'[r][t] = pa'[r2][t2] => r = r2 /\ t = t2
    BY <1>3 DEF OwnedOnce, OwnedOK
  <2>2. f \notin elsewhere /\ freelist' \cap elsewhere' = {}
    BY <1>1 DEF OwnedOnce, OwnedOK
  <2>3. \A r \in Proc, t \in Slot : pa'[r][t] \notin freelist' \cup elsewhere'
    <3>1. None \notin freelist' \cup elsewhere'
      BY <1>2 DEF MemType, EagerAssumption
    <3> QED
      BY <1>1, <1>3, <1>4, <3>1 DEF OwnedOnce, OwnedOK
  <2>4. \A g \in Frame \ (freelist' \cup elsewhere') :
          \E r \in Proc, t \in Slot : pa'[r][t] = g
    BY <1>1, <1>3 DEF OwnedOnce, OwnedOK
  <2> QED
    BY <2>1, <2>2, <2>3, <2>4 DEF OwnedOnce, OwnedOK
<1>6. ASSUME NEW r \in Proc, NEW t \in Slot
      PROVE  contents'[r][t] = IF r = q /\ t = s THEN None ELSE contents[r][t]
  BY <1>1, <1>3, <1>4 DEF contents, TypeOK
<1>7. contents' = [contents EXCEPT ![q][s] = None]
  <2>1. contents' = [p \in Proc |-> [t \in Slot |-> contents'[p][t]]]
    BY DEF contents
  <2>2. contents = [p \in Proc |-> [t \in Slot |-> contents[p][t]]]
    BY DEF contents
  <2> QED
    BY <1>6, <2>1, <2>2
<1> QED
  BY <1>2, <1>5, <1>7

\* A store is seen through its own slot only.
Stored(q, s, c) ==
  /\ pa[q][s] # None /\ mem' = [mem EXCEPT ![pa[q][s]] = c]
  /\ UNCHANGED <<freelist, pa, elsewhere>>

LEMMA WriteEffect ==
  ASSUME EagerAssumption, TypeOK, OwnedOK,
         NEW q \in Proc, NEW s \in Slot, NEW c \in Content, Stored(q, s, c)
  PROVE  MemType' /\ OwnedOK' /\ contents' = [contents EXCEPT ![q][s] = c]
<1>0. /\ pa[q][s] # None /\ mem' = [mem EXCEPT ![pa[q][s]] = c]
      /\ freelist' = freelist /\ pa' = pa /\ elsewhere' = elsewhere
  BY DEF Stored
<1>1. MemType' /\ OwnedOK'
  BY <1>0 DEF MemType, TypeOK, OwnedOK, OwnedOnce
<1>2. \A r \in Proc, t \in Slot : pa[r][t] = pa[q][s] => r = q /\ t = s
  BY <1>0 DEF OwnedOnce, OwnedOK
<1>3. ASSUME NEW r \in Proc, NEW t \in Slot
      PROVE  contents'[r][t] = IF r = q /\ t = s THEN c ELSE contents[r][t]
  BY <1>0, <1>2 DEF contents, TypeOK
<1>4. contents' = [contents EXCEPT ![q][s] = c]
  <2>1. contents' = [p \in Proc |-> [t \in Slot |-> contents'[p][t]]]
    BY DEF contents
  <2>2. contents = [p \in Proc |-> [t \in Slot |-> contents[p][t]]]
    BY DEF contents
  <2> QED
    BY <1>3, <2>1, <2>2
<1> QED
  BY <1>1, <1>4

\* mappages() moves a page from `mem' to an empty slot.
Move(p, s, q, t) ==
  /\ UNCHANGED <<freelist, mem, elsewhere>>
  /\ pa' = [[pa EXCEPT ![p][s] = None] EXCEPT ![q][t] = pa[p][s]]

LEMMA MoveEffect ==
  ASSUME EagerAssumption, TypeOK, OwnedOK,
         NEW p \in Proc, NEW s \in Slot, NEW q \in Proc, NEW t \in Slot,
         pa[q][t] = None, s # t, Move(p, s, q, t)
  PROVE  /\ MemType' /\ OwnedOK'
         /\ \A r \in Proc \ {p, q} : contents'[r] = contents[r]
         /\ \A r \in Proc, u \in Slot :
              contents'[r][u] = IF r = q /\ u = t THEN contents[p][s]
                                ELSE IF r = p /\ u = s THEN None ELSE contents[r][u]
<1>0. /\ freelist' = freelist /\ mem' = mem /\ elsewhere' = elsewhere /\ None \notin Frame
      /\ pa' = [[pa EXCEPT ![p][s] = None] EXCEPT ![q][t] = pa[p][s]]
  BY DEF EagerAssumption, Move
<1>1. /\ pa'[q][t] = pa[p][s] /\ pa'[p][s] = None
      /\ \A r \in Proc, u \in Slot :
           ~(r = q /\ u = t) /\ ~(r = p /\ u = s) => pa'[r][u] = pa[r][u]
      /\ \A r \in Proc \ {p, q} : pa'[r] = pa[r]
  BY <1>0 DEF TypeOK
<1>2. MemType'
  <2>1. [pa EXCEPT ![p][s] = None] \in [Proc -> [Slot -> Frame \cup {None}]]
    BY DEF TypeOK
  <2>2. pa[p][s] \in Frame \cup {None}
    BY DEF TypeOK
  <2>3. pa' \in [Proc -> [Slot -> Frame \cup {None}]]
    BY <1>0, <2>1, <2>2
  <2> QED
    BY <1>0, <2>3 DEF MemType, TypeOK
<1>3. OwnedOK'
  <2>0. \A r \in Proc, u \in Slot : pa'[r][u] # None =>
          \/ r = q /\ u = t /\ pa'[r][u] = pa[p][s]
          \/ ~(r = q /\ u = t) /\ ~(r = p /\ u = s) /\ pa'[r][u] = pa[r][u]
    BY <1>1
  <2>1. ASSUME NEW r \in Proc, NEW r2 \in Proc, NEW u \in Slot, NEW u2 \in Slot,
               pa'[r][u] # None, pa'[r][u] = pa'[r2][u2]
        PROVE  r = r2 /\ u = u2
    <3>1. \A r3, r4 \in Proc, u3, u4 \in Slot :
            pa[r3][u3] # None /\ pa[r3][u3] = pa[r4][u4] => r3 = r4 /\ u3 = u4
      BY DEF OwnedOnce, OwnedOK
    <3> QED
      BY <2>0, <2>1, <3>1
  <2>2. \A r \in Proc, u \in Slot : pa'[r][u] \notin freelist' \cup elsewhere'
    <3>1. None \notin freelist \cup elsewhere
      BY <1>0 DEF TypeOK
    <3>2. \A r \in Proc, u \in Slot : pa[r][u] \notin freelist \cup elsewhere
      BY DEF OwnedOnce, OwnedOK
    <3>3. TAKE r \in Proc, u \in Slot
    <3>4. CASE pa'[r][u] = None
      BY <1>0, <3>1, <3>4
    <3>5. CASE pa'[r][u] # None
      <4>1. pa'[r][u] = pa[p][s] \/ pa'[r][u] = pa[r][u]
        BY <2>0, <3>5
      <4> QED
        BY <1>0, <3>2, <4>1
    <3> QED
      BY <3>4, <3>5
  <2>3. ASSUME NEW g \in Frame \ (freelist' \cup elsewhere')
        PROVE  \E r \in Proc, u \in Slot : pa'[r][u] = g
    <3>1. PICK r \in Proc, u \in Slot : pa[r][u] = g
      BY <1>0 DEF OwnedOnce, OwnedOK
    <3>2. CASE r = p /\ u = s
      BY <1>1, <3>1, <3>2
    <3>3. CASE ~(r = p /\ u = s)
      BY <1>0, <1>1, <3>1, <3>3
    <3> QED
      BY <3>2, <3>3
  <2>4. OwnedOnce'
    <3>1. \A r, r2 \in Proc, u, u2 \in Slot :
            pa'[r][u] # None /\ pa'[r][u] = pa'[r2][u2] => r = r2 /\ u = u2
      BY <2>1
    <3>2. \A g \in Frame \ (freelist' \cup elsewhere') :
            \E r \in Proc, u \in Slot : pa'[r][u] = g
      BY <2>3
    <3> QED
      BY <2>2, <3>1, <3>2 DEF OwnedOnce
  <2>5. freelist' \cap elsewhere' = {}
    BY <1>0 DEF OwnedOK
  <2> QED
    BY <2>4, <2>5 DEF OwnedOK
<1>4. ASSUME NEW r \in Proc, NEW u \in Slot
      PROVE  contents'[r][u] = IF r = q /\ u = t THEN contents[p][s]
                               ELSE IF r = p /\ u = s THEN None ELSE contents[r][u]
  <2>1. /\ contents'[r][u] = IF pa'[r][u] = None THEN None ELSE mem[pa'[r][u]]
        /\ contents[r][u] = IF pa[r][u] = None THEN None ELSE mem[pa[r][u]]
        /\ contents[p][s] = IF pa[p][s] = None THEN None ELSE mem[pa[p][s]]
    BY <1>0 DEF contents
  <2> QED
    BY <1>1, <2>1
<1>5. ASSUME NEW r \in Proc \ {p, q}
      PROVE  contents'[r] = contents[r]
  <2>1. /\ contents'[r] = [u \in Slot |-> contents'[r][u]]
        /\ contents[r] = [u \in Slot |-> contents[r][u]]
    BY DEF contents
  <2>2. \A u \in Slot : contents'[r][u] = contents[r][u]
    BY <1>4
  <2> QED
    BY <2>1, <2>2
<1> QED
  BY <1>2, <1>3, <1>4, <1>5

-----------------------------------------------------------------------------
(* Who makes or releases which entry                                       *)

LEMMA Child ==
  ASSUME EagerAssumption, TypeOK, OwnerOK, NEW p \in Proc, loc[p].np # None
  PROVE  /\ loc[p].np \in Proc /\ pc[loc[p].np] \in {"embryo", "reaped"}
         /\ pc[p] \notin {"embryo", "reaped"} => loc[p].np # p
  BY LocFields DEF OwnerOK

\* One thread moves on and keeps its child; ...
LEMMA OwnerKeep ==
  ASSUME EagerAssumption, TypeOK, OwnerOK, NEW p \in Proc,
         \A q \in Proc : loc'[q].np = loc[q].np,
         \A q \in Proc \ {p} : pc'[q] = pc[q],
         pc[p] \notin {"embryo", "reaped"},
         pc'[p] \in Building => loc[p].np # None
  PROVE  OwnerOK'
  BY LocFields DEF OwnerOK, EagerAssumption

\* ... or lets go of it, whatever becomes of it; ...
LEMMA OwnerDrop ==
  ASSUME EagerAssumption, TypeOK, OwnerOK, NEW p \in Proc,
         \A q \in Proc \ {p} : loc'[q].np = loc[q].np,
         loc'[p].np = None,
         pc[p] \notin {"embryo", "reaped"},
         \A q \in Proc \ {p} : q # loc[p].np => pc'[q] = pc[q],
         pc'[p] \notin Building,
         \A q \in Proc : pc'[q] # pc[q] => pc'[q] \notin Building
  PROVE  OwnerOK'
  BY LocFields DEF OwnerOK, EagerAssumption

\* ... or takes a new one that nobody has.
LEMMA OwnerTake ==
  ASSUME EagerAssumption, TypeOK, OwnerOK, NEW p \in Proc, NEW c \in Proc,
         \A q \in Proc \ {p} : loc'[q].np = loc[q].np,
         loc'[p].np = c,
         pc[p] \notin {"embryo", "reaped"},
         pc[c] \notin {"embryo", "reaped"}, pc'[c] \in {"embryo", "reaped"},
         \A q \in Proc \ {p, c} : pc'[q] = pc[q]
  PROVE  OwnerOK'
  BY LocFields DEF OwnerOK, EagerAssumption, Building

-----------------------------------------------------------------------------
(* A step of p, and perhaps of its child c, leaves the other threads alone *)

Alone(p, c) ==
  \A q \in Proc \ {p, c} :
    pc'[q] = pc[q] /\ loc'[q] = loc[q] /\ sz'[q] = sz[q] /\ contents'[q] = contents[q]

\* c is the child of p, or one to become, or there is none.
MayTouch(p, c) ==
  /\ pc[p] \notin {"embryo", "reaped"}
  /\ c \in {None, loc[p].np} \/ pc[c] \notin {"embryo", "reaped"}

LEMMA OthersLocal ==
  ASSUME EagerAssumption, IInv, NEW p \in Proc, NEW c \in Proc \cup {None},
         MayTouch(p, c), Alone(p, c), NEW q \in Proc \ {p, c}
  PROVE  LocalOK(q)' /\ MappedOK(q)' /\ \A v \in Page : Seen(q, v)' = Seen(q, v)
<1>1. LocalOK(q) /\ MappedOK(q)
  BY DEF IInv
<1>2. pc'[q] = pc[q] /\ loc'[q] = loc[q] /\ sz'[q] = sz[q] /\ contents'[q] = contents[q]
  BY DEF Alone
<1>3. ASSUME pc[q] \in {"uvmcopy", "uvmcopy_map"}
      PROVE  contents'[loc[q].np] = contents[loc[q].np]
  <2>1. loc[q].np # None
    BY <1>3 DEF IInv, OwnerOK, Building
  <2>2. loc[q].np \in Proc /\ pc[loc[q].np] \in {"embryo", "reaped"}
    BY <2>1, Child DEF IInv
  <2>3. loc[q].np \notin {p, c}
    BY <2>1, <2>2 DEF IInv, OwnerOK, MayTouch
  <2> QED
    BY <2>2, <2>3 DEF Alone
<1>4. LocalOK(q)'
  BY <1>1, <1>2, <1>3 DEF LocalOK
<1>5. (q \in Running)' = (q \in Running) /\ VisibleSize(q)' = VisibleSize(q)
  BY <1>2 DEF Running, VisibleSize, At
<1> QED
  BY <1>1, <1>2, <1>4, <1>5 DEF MappedOK, Seen

\* A step that changes nothing that a program sees.
LEMMA QuietStep ==
  ASSUME EagerAssumption, IInv, NEW p \in Proc, NEW c \in Proc \cup {None},
         MayTouch(p, c), Alone(p, c), c # p,
         TypeOK', OwnerOK', OwnedOK', LocalOK(p)',
         p \in Running, p \in Running', VisibleSize(p)' = VisibleSize(p),
         \A v \in Page : v < VisibleSize(p) => contents'[p][v] = contents[p][v],
         c \in Proc => c \notin Running /\ c \notin Running' /\ LocalOK(c)'
  PROVE  IInv' /\ Quiet
<1>1. MappedOK(p)' /\ \A v \in Page : Seen(p, v)' = Seen(p, v)
  BY DEF IInv, MappedOK, Seen
<1>2. c \in Proc => MappedOK(c)' /\ \A v \in Page : Seen(c, v)' = Seen(c, v)
  BY DEF MappedOK, Seen
<1>3. \A q \in Proc : LocalOK(q)' /\ MappedOK(q)' /\ \A v \in Page : Seen(q, v)' = Seen(q, v)
  BY <1>1, <1>2, OthersLocal
<1>4. Running' = Running
  <2>1. \A q \in Proc \ {p, c} : q \in Running' <=> q \in Running
    BY DEF Running, Alone
  <2> QED
    BY <2>1 DEF Running
<1> QED
  BY <1>3, <1>4 DEF IInv, Quiet

\* Where a thread is busy with itself: no other thread's fields change.
LEMMA RunningPc ==
  ASSUME NEW p \in Proc
  PROVE  p \in Running <=> pc[p] \notin {"unused", "embryo", "zombie", "reaped", "panic"}
  BY DEF Running

\* A step of p with its own page table and locals, ...
LEMMA OwnStep ==
  ASSUME EagerAssumption, IInv, NEW p \in Proc,
         MemType', OwnedOK', sz' \in [Proc -> 0 .. MaxPage],
         pc' \in [Proc -> PcLabel], loc' \in [Proc -> Locals],
         \A q \in Proc \ {p} : /\ pc'[q] = pc[q] /\ loc'[q] = loc[q]
                               /\ sz'[q] = sz[q] /\ contents'[q] = contents[q],
         p \in Running, p \in Running',
         loc'[p].np = loc[p].np, pc'[p] \in Building => loc[p].np # None,
         VisibleSize(p)' = VisibleSize(p),
         \A v \in Page : v < VisibleSize(p) => contents'[p][v] = contents[p][v],
         LocalOK(p)'
  PROVE  IInv' /\ Quiet
<1>1. TypeOK' /\ TypeOK /\ OwnerOK
  BY DEF TypeOK, MemType, IInv
<1>2. pc[p] \notin {"embryo", "reaped"}
  BY DEF Running
<1>3. \A q \in Proc : loc'[q].np = loc[q].np
  OBVIOUS
<1>4. OwnerOK'
  BY <1>1, <1>2, <1>3, OwnerKeep
<1>5. Alone(p, None) /\ MayTouch(p, None) /\ None \in Proc \cup {None}
      /\ None # p /\ None \notin Proc
  BY <1>2 DEF Alone, MayTouch, EagerAssumption
<1> QED
  BY <1>1, <1>4, <1>5, QuietStep

\* ... and one that reaches into the page table of the child.
LEMMA ChildStep ==
  ASSUME EagerAssumption, IInv, NEW p \in Proc, pc[p] \in Building,
         MemType', OwnedOK', UNCHANGED sz,
         pc' \in [Proc -> PcLabel], loc' \in [Proc -> Locals],
         \A q \in Proc \ {p} : pc'[q] = pc[q] /\ loc'[q] = loc[q],
         \A q \in Proc \ {p, loc[p].np} : contents'[q] = contents[q],
         contents'[loc[p].np][Mem] = contents[loc[p].np][Mem],
         pc'[p] \in Building, loc'[p].np = loc[p].np,
         \A v \in Page : contents'[p][v] = contents[p][v],
         LocalOK(p)'
  PROVE  IInv' /\ Quiet
<1> DEFINE c == loc[p].np
<1>1. TypeOK' /\ TypeOK /\ OwnerOK
  BY DEF TypeOK, MemType, IInv
<1>2. pc[p] \notin {"embryo", "reaped"} /\ p \in Running /\ p \in Running'
  BY DEF Running, Building
<1>3. c \in Proc /\ c # p /\ pc[c] \in {"embryo", "reaped"}
  BY <1>1, <1>2, Child DEF OwnerOK
<1>4. OwnerOK'
  BY <1>1, <1>2, <1>3, OwnerKeep, LocFields DEF EagerAssumption
<1>5. Alone(p, c) /\ MayTouch(p, c)
  BY <1>2 DEF Alone, MayTouch
<1>6. VisibleSize(p)' = VisibleSize(p)
  BY DEF VisibleSize, At, Building
<1>7. c \notin Running /\ c \notin Running'
  BY <1>3 DEF Running
<1>8. LocalOK(c)'
  <2>1. LocalOK(c)
    BY <1>3 DEF IInv
  <2>2. pc'[c] = pc[c] /\ loc'[c] = loc[c]
    BY <1>3
  <2> QED
    BY <1>3, <2>1, <2>2 DEF LocalOK, Idle, Mapping
<1> QED
  BY <1>1, <1>2, <1>3, <1>4, <1>5, <1>6, <1>7, <1>8, QuietStep

-----------------------------------------------------------------------------
(* Steps that a program does not see                                       *)

LEMMA AllocprocFailStep ==
  ASSUME EagerAssumption, IInv, UNCHANGED elsewhere, NEW p \in Proc, AllocprocFail(p)
  PROVE  IInv' /\ Quiet
<1>1. /\ UNCHANGED <<memory, sz, loc>> /\ pc[p] = "allocproc" /\ Goto(p, "freeproc")
  BY DEF AllocprocFail, At
<1>2. TypeOK /\ OwnerOK /\ OwnedOK /\ LocalOK(p)
  BY DEF IInv
<1>3. MemType' /\ OwnedOK' /\ contents' = contents
  BY <1>1, <1>2, Untouched
<1>4. pc' \in [Proc -> PcLabel] /\ pc'[p] = "freeproc" /\ \A q \in Proc \ {p} : pc'[q] = pc[q]
  BY <1>1, <1>2, GotoEffect DEF PcLabel
<1>5. LocalOK(p)'
  BY <1>1, <1>2, <1>3, <1>4 DEF LocalOK, Idle, Mapping
<1>6. p \in Running /\ p \in Running' /\ VisibleSize(p)' = VisibleSize(p)
      /\ loc[p].np # None
  BY <1>1, <1>2, <1>4 DEF Running, VisibleSize, At, OwnerOK, Building
<1> QED
  BY <1>1, <1>2, <1>3, <1>4, <1>5, <1>6, OwnStep DEF TypeOK

LEMMA AllocprocDoneStep ==
  ASSUME EagerAssumption, IInv, UNCHANGED elsewhere, NEW p \in Proc, AllocprocDone(p)
  PROVE  IInv' /\ Quiet
<1>1. /\ UNCHANGED <<memory, sz, loc>> /\ pc[p] = "allocproc" /\ Goto(p, "uvmcopy")
  BY DEF AllocprocDone, At
<1>2. TypeOK /\ OwnerOK /\ OwnedOK /\ LocalOK(p)
  BY DEF IInv
<1>3. MemType' /\ OwnedOK' /\ contents' = contents
  BY <1>1, <1>2, Untouched
<1>4. pc' \in [Proc -> PcLabel] /\ pc'[p] = "uvmcopy" /\ \A q \in Proc \ {p} : pc'[q] = pc[q]
  BY <1>1, <1>2, GotoEffect DEF PcLabel
<1>5. LocalOK(p)'
  <2>1. sz[p] \in 0 .. MaxPage /\ \A v \in Page : ~(v < 0)
    BY <1>2 DEF TypeOK, Page
  <2> QED
    BY <1>1, <1>2, <1>3, <1>4, <2>1, Pages DEF LocalOK, Idle, Mapping
<1>6. p \in Running /\ p \in Running' /\ VisibleSize(p)' = VisibleSize(p)
      /\ loc[p].np # None
  BY <1>1, <1>2, <1>4 DEF Running, VisibleSize, At, OwnerOK, Building
<1> QED
  BY <1>1, <1>2, <1>3, <1>4, <1>5, <1>6, OwnStep DEF TypeOK

LEMMA CopyoutStep ==
  ASSUME EagerAssumption, IInv, UNCHANGED elsewhere, NEW p \in Proc,
         NEW v \in Page, NEW x \in Value, Copyout(p, v, x)
  PROVE  IInv' /\ Quiet
<1>1. /\ UNCHANGED <<memory, sz>> /\ pc[p] = "user" /\ Goto(p, "copyout")
      /\ loc' = [loc EXCEPT ![p].cur = v, ![p].val = x]
  BY DEF Copyout, At
<1>2. TypeOK /\ OwnerOK /\ OwnedOK /\ LocalOK(p)
  BY DEF IInv
<1>3. MemType' /\ OwnedOK' /\ contents' = contents
  BY <1>1, <1>2, Untouched
<1>4. pc' \in [Proc -> PcLabel] /\ pc'[p] = "copyout" /\ \A q \in Proc \ {p} : pc'[q] = pc[q]
  BY <1>1, <1>2, GotoEffect DEF PcLabel
<1>5. /\ loc' \in [Proc -> Locals] /\ \A q \in Proc \ {p} : loc'[q] = loc[q]
      /\ loc'[p].np = loc[p].np /\ loc'[p].val = x
  <2>1. loc \in [Proc -> Locals] /\ v \in 0 .. MaxPage /\ x \in Value \cup {None}
    BY <1>2, Pages DEF TypeOK
  <2> QED
    BY <1>1, <2>1 DEF Locals
<1>6. LocalOK(p)'
  BY <1>1, <1>2, <1>3, <1>4, <1>5 DEF LocalOK, Idle, Mapping
<1>7. p \in Running /\ p \in Running' /\ VisibleSize(p)' = VisibleSize(p)
  BY <1>1, <1>4 DEF Running, VisibleSize, At
<1> QED
  BY <1>1, <1>2, <1>3, <1>4, <1>5, <1>6, <1>7, OwnStep DEF TypeOK, Building

LEMMA GrowStep ==
  ASSUME EagerAssumption, IInv, UNCHANGED elsewhere, NEW p \in Proc,
         NEW n \in 0 .. MaxPage, Grow(p, n)
  PROVE  IInv' /\ Quiet
<1>1. /\ UNCHANGED <<memory, sz>> /\ pc[p] = "user" /\ Goto(p, "uvmalloc") /\ n > sz[p]
      /\ loc' = [loc EXCEPT ![p].cur = sz[p], ![p].lim = n]
  BY DEF Grow, At
<1>2. TypeOK /\ OwnerOK /\ OwnedOK /\ LocalOK(p)
  BY DEF IInv
<1>3. MemType' /\ OwnedOK' /\ contents' = contents
  BY <1>1, <1>2, Untouched
<1>4. pc' \in [Proc -> PcLabel] /\ pc'[p] = "uvmalloc" /\ \A q \in Proc \ {p} : pc'[q] = pc[q]
  BY <1>1, <1>2, GotoEffect DEF PcLabel
<1>5. /\ loc' \in [Proc -> Locals] /\ \A q \in Proc \ {p} : loc'[q] = loc[q]
      /\ loc'[p].np = loc[p].np /\ loc'[p].cur = sz[p] /\ loc'[p].lim = n
  <2>1. loc \in [Proc -> Locals] /\ sz[p] \in 0 .. MaxPage
    BY <1>2 DEF TypeOK
  <2> QED
    BY <1>1, <2>1 DEF Locals
<1>6. LocalOK(p)'
  <2>1. sz[p] \in Int /\ n \in Int /\ \A v \in Page : v \in Int
    BY <1>2, Pages DEF TypeOK
  <2>2. sz[p] <= sz[p] /\ sz[p] <= n /\ \A v \in Page : ~(sz[p] <= v /\ v < sz[p])
    BY <1>1, <2>1
  <2> QED
    BY <1>1, <1>2, <1>3, <1>4, <1>5, <2>2, NoLocalsType DEF LocalOK, Idle, Mapping
<1>7. p \in Running /\ p \in Running' /\ VisibleSize(p)' = VisibleSize(p)
  BY <1>1, <1>4 DEF Running, VisibleSize, At
<1> QED
  BY <1>1, <1>2, <1>3, <1>4, <1>5, <1>6, <1>7, OwnStep DEF TypeOK, Building

\* A kalloc() into `mem'.
LEMMA KallocMem ==
  ASSUME EagerAssumption, IInv, UNCHANGED elsewhere, NEW p \in Proc, NEW c \in Content,
         pc[p] \notin Mapping, Kalloc(p, Mem, c)
  PROVE  /\ MemType' /\ OwnedOK' /\ contents' = [contents EXCEPT ![p][Mem] = c]
         /\ \A q \in Proc \ {p} : contents'[q] = contents[q]
         /\ \A s \in Slot \ {Mem} : contents'[p][s] = contents[p][s]
         /\ contents'[p][Mem] = c
<1>1. TypeOK /\ OwnedOK /\ LocalOK(p) /\ Mem \in Slot
  BY Slots DEF IInv
<1>2. pa[p][Mem] = None
  BY <1>1, Contents DEF LocalOK
<1>3. MemType' /\ OwnedOK' /\ contents' = [contents EXCEPT ![p][Mem] = c]
  BY <1>1, <1>2, KallocEffect
<1>4. contents \in [Proc -> [Slot -> Content \cup {None}]]
  BY <1>1, Contents
<1> QED
  BY <1>1, <1>3, <1>4

\* The kfree() of `mem' on the error paths.
LEMMA KfreeMem ==
  ASSUME EagerAssumption, IInv, UNCHANGED elsewhere, NEW p \in Proc, Kfree(p, Mem)
  PROVE  /\ MemType' /\ OwnedOK'
         /\ \A q \in Proc \ {p} : contents'[q] = contents[q]
         /\ \A s \in Slot \ {Mem} : contents'[p][s] = contents[p][s]
         /\ contents'[p][Mem] = None
<1>1. TypeOK /\ OwnedOK /\ Mem \in Slot
  BY Slots DEF IInv
<1>2. MemType' /\ OwnedOK' /\ contents' = [contents EXCEPT ![p][Mem] = None]
  BY <1>1, KfreeEffect
<1>3. contents \in [Proc -> [Slot -> Content \cup {None}]]
  BY <1>1, Contents
<1> QED
  BY <1>1, <1>2, <1>3

LEMMA UvmcopyPageStep ==
  ASSUME EagerAssumption, IInv, UNCHANGED elsewhere, NEW p \in Proc, UvmcopyPage(p)
  PROVE  IInv' /\ Quiet
<1> DEFINE v == loc[p].cur
<1>1. /\ UNCHANGED <<sz, loc>> /\ pc[p] = "uvmcopy" /\ Goto(p, "uvmcopy_map")
      /\ v < sz[p] /\ pa[p][v] # None /\ Kalloc(p, Mem, mem[pa[p][v]])
  BY DEF UvmcopyPage, At
<1>2. TypeOK /\ OwnerOK /\ OwnedOK /\ LocalOK(p)
  BY DEF IInv
<1>3. v \in Page /\ v \in Slot
  BY <1>1, <1>2, LocFields, Pages, Slots DEF TypeOK
<1>4. contents[p][v] \in Content /\ contents[p][v] = mem[pa[p][v]]
  BY <1>1, <1>2, <1>3, Contents DEF EagerAssumption, TypeOK
<1>5. /\ MemType' /\ OwnedOK'
      /\ \A q \in Proc \ {p} : contents'[q] = contents[q]
      /\ \A s \in Slot \ {Mem} : contents'[p][s] = contents[p][s]
      /\ contents'[p][Mem] = contents[p][v]
  BY <1>1, <1>4, KallocMem DEF Mapping
<1>6. /\ pc' \in [Proc -> PcLabel] /\ pc'[p] = "uvmcopy_map"
      /\ \A q \in Proc \ {p} : pc'[q] = pc[q]
  BY <1>1, <1>2, GotoEffect DEF PcLabel
<1>7. loc[p].np \in Proc \ {p}
  BY <1>1, <1>2, Child DEF OwnerOK, Building
<1>8. \A w \in Page : contents'[p][w] = contents[p][w]
  BY <1>5, Slots
<1>9. LocalOK(p)'
  BY <1>1, <1>2, <1>3, <1>5, <1>6, <1>7, <1>8 DEF LocalOK, Idle, Mapping
<1>10. p \in Running /\ p \in Running' /\ VisibleSize(p)' = VisibleSize(p)
  BY <1>1, <1>6 DEF Running, VisibleSize, At
<1>11. loc[p].np # None
  BY <1>7 DEF EagerAssumption
<1> QED
  BY <1>1, <1>2, <1>5, <1>6, <1>8, <1>9, <1>10, <1>11, OwnStep DEF TypeOK

LEMMA UvmallocPageStep ==
  ASSUME EagerAssumption, IInv, UNCHANGED elsewhere, NEW p \in Proc, UvmallocPage(p)
  PROVE  IInv' /\ Quiet
<1> DEFINE v == loc[p].cur
<1>1. /\ UNCHANGED <<sz, loc>> /\ pc[p] = "uvmalloc" /\ Goto(p, "uvmalloc_map")
      /\ v < loc[p].lim /\ Kalloc(p, Mem, Zero)
  BY DEF UvmallocPage, At
<1>2. TypeOK /\ OwnerOK /\ OwnedOK /\ LocalOK(p)
  BY DEF IInv
<1>3. v \in Page
  BY <1>1, <1>2, LocFields, Pages
<1>4. /\ MemType' /\ OwnedOK'
      /\ \A q \in Proc \ {p} : contents'[q] = contents[q]
      /\ \A s \in Slot \ {Mem} : contents'[p][s] = contents[p][s]
      /\ contents'[p][Mem] = Zero
  BY <1>1, KallocMem DEF Mapping, Content
<1>5. /\ pc' \in [Proc -> PcLabel] /\ pc'[p] = "uvmalloc_map"
      /\ \A q \in Proc \ {p} : pc'[q] = pc[q]
  BY <1>1, <1>2, GotoEffect DEF PcLabel
<1>6. \A w \in Page : contents'[p][w] = contents[p][w]
  BY <1>4, Slots
<1>7. LocalOK(p)'
  BY <1>1, <1>2, <1>3, <1>4, <1>5, <1>6 DEF LocalOK, Idle, Mapping
<1>8. p \in Running /\ p \in Running' /\ VisibleSize(p)' = VisibleSize(p)
  BY <1>1, <1>5 DEF Running, VisibleSize, At
<1> QED
  BY <1>1, <1>2, <1>4, <1>5, <1>6, <1>7, <1>8, OwnStep DEF TypeOK, Building

\* `goto err' of uvmcopy().
LEMMA GotoErrEffect ==
  ASSUME EagerAssumption, TypeOK, NEW p \in Proc, GotoErr(p)
  PROVE  /\ pc' \in [Proc -> PcLabel] /\ pc'[p] = "uvmcopy_err"
         /\ \A q \in Proc \ {p} : pc'[q] = pc[q] /\ loc'[q] = loc[q]
         /\ loc' \in [Proc -> Locals] /\ loc'[p].np = loc[p].np
<1>1. /\ pc' \in [Proc -> PcLabel] /\ pc'[p] = "uvmcopy_err"
      /\ \A q \in Proc \ {p} : pc'[q] = pc[q]
  BY GotoEffect DEF GotoErr, PcLabel
<1>2. loc \in [Proc -> Locals] /\ loc[p].cur \in 0 .. MaxPage /\ 0 \in 0 .. MaxPage
  BY LocFields, Pages DEF TypeOK
<1>3. loc' = [loc EXCEPT ![p].lim = loc[p].cur, ![p].cur = 0]
  BY DEF GotoErr
<1>4. /\ loc' \in [Proc -> Locals] /\ \A q \in Proc \ {p} : loc'[q] = loc[q]
      /\ loc'[p].np = loc[p].np
  BY <1>2, <1>3 DEF Locals
<1> QED
  BY <1>1, <1>4

LEMMA UvmcopyNoMemStep ==
  ASSUME EagerAssumption, IInv, UNCHANGED elsewhere, NEW p \in Proc, UvmcopyNoMem(p)
  PROVE  IInv' /\ Quiet
<1>1. UNCHANGED <<memory, sz>> /\ pc[p] = "uvmcopy" /\ GotoErr(p)
  BY DEF UvmcopyNoMem, At
<1>2. TypeOK /\ OwnerOK /\ OwnedOK /\ LocalOK(p)
  BY DEF IInv
<1>3. MemType' /\ OwnedOK' /\ contents' = contents
  BY <1>1, <1>2, Untouched
<1>4. /\ pc' \in [Proc -> PcLabel] /\ pc'[p] = "uvmcopy_err"
      /\ \A q \in Proc \ {p} : pc'[q] = pc[q] /\ loc'[q] = loc[q]
      /\ loc' \in [Proc -> Locals] /\ loc'[p].np = loc[p].np
  BY <1>1, <1>2, GotoErrEffect
<1>5. LocalOK(p)'
  BY <1>1, <1>2, <1>3, <1>4 DEF LocalOK, Idle, Mapping
<1>6. p \in Running /\ p \in Running' /\ VisibleSize(p)' = VisibleSize(p)
      /\ loc[p].np # None
  BY <1>1, <1>2, <1>4 DEF Running, VisibleSize, At, OwnerOK, Building
<1> QED
  BY <1>1, <1>2, <1>3, <1>4, <1>5, <1>6, OwnStep DEF TypeOK

LEMMA UvmcopyFailStep ==
  ASSUME EagerAssumption, IInv, UNCHANGED elsewhere, NEW p \in Proc, UvmcopyFail(p)
  PROVE  IInv' /\ Quiet
<1>1. UNCHANGED sz /\ pc[p] = "uvmcopy_map" /\ GotoErr(p) /\ Kfree(p, Mem)
  BY DEF UvmcopyFail, At
<1>2. TypeOK /\ OwnerOK /\ OwnedOK /\ LocalOK(p)
  BY DEF IInv
<1>3. /\ MemType' /\ OwnedOK'
      /\ \A q \in Proc \ {p} : contents'[q] = contents[q]
      /\ \A v \in Page : contents'[p][v] = contents[p][v]
      /\ contents'[p][Mem] = None
  BY <1>1, KfreeMem, Slots
<1>4. /\ pc' \in [Proc -> PcLabel] /\ pc'[p] = "uvmcopy_err"
      /\ \A q \in Proc \ {p} : pc'[q] = pc[q] /\ loc'[q] = loc[q]
      /\ loc' \in [Proc -> Locals] /\ loc'[p].np = loc[p].np
  BY <1>1, <1>2, GotoErrEffect
<1>5. LocalOK(p)'
  BY <1>1, <1>2, <1>3, <1>4 DEF LocalOK, Idle, Mapping
<1>6. p \in Running /\ p \in Running' /\ VisibleSize(p)' = VisibleSize(p)
      /\ loc[p].np # None
  BY <1>1, <1>2, <1>4 DEF Running, VisibleSize, At, OwnerOK, Building
<1> QED
  BY <1>1, <1>2, <1>3, <1>4, <1>5, <1>6, OwnStep DEF TypeOK

\* uvmdealloc() starts.
LEMMA DeallocEffect ==
  ASSUME EagerAssumption, TypeOK, NEW p \in Proc, NEW from \in 0 .. MaxPage,
         NEW to \in 0 .. MaxPage, DeallocFrom(p, from, to)
  PROVE  /\ pc' \in [Proc -> PcLabel] /\ pc'[p] = "uvmdealloc"
         /\ \A q \in Proc \ {p} : pc'[q] = pc[q] /\ loc'[q] = loc[q]
         /\ loc' \in [Proc -> Locals] /\ loc'[p].np = loc[p].np
         /\ loc'[p].cur = to /\ loc'[p].lim = from /\ loc'[p].newsz = to
<1>1. /\ pc' \in [Proc -> PcLabel] /\ pc'[p] = "uvmdealloc"
      /\ \A q \in Proc \ {p} : pc'[q] = pc[q]
  BY GotoEffect DEF DeallocFrom, PcLabel
<1>2. loc \in [Proc -> Locals]
  BY DEF TypeOK
<1>3. loc' = [loc EXCEPT ![p].cur = to, ![p].lim = from, ![p].newsz = to]
  BY DEF DeallocFrom
<1>4. /\ loc' \in [Proc -> Locals] /\ \A q \in Proc \ {p} : loc'[q] = loc[q]
      /\ loc'[p].np = loc[p].np
      /\ loc'[p].cur = to /\ loc'[p].lim = from /\ loc'[p].newsz = to
  BY <1>2, <1>3 DEF Locals
<1> QED
  BY <1>1, <1>4

LEMMA UvmallocNoMemStep ==
  ASSUME EagerAssumption, IInv, UNCHANGED elsewhere, NEW p \in Proc, UvmallocNoMem(p)
  PROVE  IInv' /\ Quiet
<1>1. UNCHANGED <<memory, sz>> /\ pc[p] = "uvmalloc" /\ DeallocFrom(p, loc[p].cur, sz[p])
  BY DEF UvmallocNoMem, At
<1>2. TypeOK /\ OwnerOK /\ OwnedOK /\ LocalOK(p)
  BY DEF IInv
<1>3. MemType' /\ OwnedOK' /\ contents' = contents
  BY <1>1, <1>2, Untouched
<1>4. /\ pc' \in [Proc -> PcLabel] /\ pc'[p] = "uvmdealloc"
      /\ \A q \in Proc \ {p} : pc'[q] = pc[q] /\ loc'[q] = loc[q]
      /\ loc' \in [Proc -> Locals] /\ loc'[p].np = loc[p].np
      /\ loc'[p].cur = sz[p] /\ loc'[p].newsz = sz[p] /\ sz[p] <= sz[p]
  <2>1. loc[p].cur \in 0 .. MaxPage /\ sz[p] \in 0 .. MaxPage
    BY <1>2, LocFields DEF TypeOK
  <2> QED
    BY <1>1, <1>2, <2>1, DeallocEffect
<1>5. LocalOK(p)'
  BY <1>1, <1>2, <1>3, <1>4 DEF LocalOK, Idle, Mapping
<1>6. p \in Running /\ p \in Running' /\ VisibleSize(p)' = VisibleSize(p)
  BY <1>1, <1>4 DEF Running, VisibleSize, At
<1> QED
  BY <1>1, <1>2, <1>3, <1>4, <1>5, <1>6, OwnStep DEF TypeOK, Building

LEMMA UvmallocFailStep ==
  ASSUME EagerAssumption, IInv, UNCHANGED elsewhere, NEW p \in Proc, UvmallocFail(p)
  PROVE  IInv' /\ Quiet
<1>1. /\ UNCHANGED sz /\ pc[p] = "uvmalloc_map" /\ Kfree(p, Mem)
      /\ DeallocFrom(p, loc[p].cur, sz[p])
  BY DEF UvmallocFail, At
<1>2. TypeOK /\ OwnerOK /\ OwnedOK /\ LocalOK(p)
  BY DEF IInv
<1>3. /\ MemType' /\ OwnedOK'
      /\ \A q \in Proc \ {p} : contents'[q] = contents[q]
      /\ \A v \in Page : contents'[p][v] = contents[p][v]
      /\ contents'[p][Mem] = None
  BY <1>1, KfreeMem, Slots
<1>4. /\ pc' \in [Proc -> PcLabel] /\ pc'[p] = "uvmdealloc"
      /\ \A q \in Proc \ {p} : pc'[q] = pc[q] /\ loc'[q] = loc[q]
      /\ loc' \in [Proc -> Locals] /\ loc'[p].np = loc[p].np
      /\ loc'[p].cur = sz[p] /\ loc'[p].newsz = sz[p] /\ sz[p] <= sz[p]
  <2>1. loc[p].cur \in 0 .. MaxPage /\ sz[p] \in 0 .. MaxPage
    BY <1>2, LocFields DEF TypeOK
  <2> QED
    BY <1>1, <1>2, <2>1, DeallocEffect
<1>5. LocalOK(p)'
  BY <1>1, <1>2, <1>3, <1>4 DEF LocalOK, Idle, Mapping
<1>6. p \in Running /\ p \in Running' /\ VisibleSize(p)' = VisibleSize(p)
  BY <1>1, <1>4 DEF Running, VisibleSize, At
<1> QED
  BY <1>1, <1>2, <1>3, <1>4, <1>5, <1>6, OwnStep DEF TypeOK, Building

\* The child whose page table a thread at a Building label works on.
LEMMA BuildingChild ==
  ASSUME EagerAssumption, IInv, NEW p \in Proc, pc[p] \in Building
  PROVE  /\ loc[p].np \in Proc \ {p} /\ loc[p].np # None
         /\ p \in Running /\ pc[p] \notin Idle
  BY Child DEF IInv, OwnerOK, Building, Running, Idle

\* A kalloc() into the page table or the trapframe of q.
LEMMA KallocOther ==
  ASSUME EagerAssumption, IInv, UNCHANGED elsewhere, NEW q \in Proc, NEW c \in Content,
         NEW s \in Slot \ (Page \cup {Mem}), pa[q][s] = None, Kalloc(q, s, c)
  PROVE  /\ MemType' /\ OwnedOK'
         /\ \A r \in Proc \ {q} : contents'[r] = contents[r]
         /\ \A r \in Proc, t \in Page \cup {Mem} : contents'[r][t] = contents[r][t]
<1>1. TypeOK /\ OwnedOK /\ Page \cup {Mem} \subseteq Slot
  BY Slots DEF IInv
<1>2. MemType' /\ OwnedOK' /\ contents' = [contents EXCEPT ![q][s] = c]
  BY <1>1, KallocEffect
<1>3. contents \in [Proc -> [Slot -> Content \cup {None}]]
  BY <1>1, Contents
<1> QED
  BY <1>1, <1>2, <1>3

LEMMA AllocprocStep ==
  ASSUME EagerAssumption, IInv, UNCHANGED elsewhere, NEW p \in Proc, Allocproc(p)
  PROVE  IInv' /\ Quiet
<1> DEFINE c == loc[p].np
<1>1. UNCHANGED <<sz, pc, loc>> /\ pc[p] = "allocproc"
  BY DEF Allocproc, At
<1>2. TypeOK /\ OwnerOK /\ OwnedOK /\ LocalOK(p)
  BY DEF IInv
<1>3. c \in Proc \ {p} /\ pc[p] \in Building
  BY <1>1, BuildingChild DEF Building
<1>4. PICK s \in Root \cup {Trapframe} : pa[c][s] = None /\ Kalloc(c, s, Junk)
  BY DEF Allocproc, Missing
<1>5. s \in Slot \ (Page \cup {Mem}) /\ Junk \in Content
  BY Slots DEF Content
<1>6. /\ MemType' /\ OwnedOK'
      /\ \A r \in Proc \ {c} : contents'[r] = contents[r]
      /\ \A r \in Proc, t \in Page \cup {Mem} : contents'[r][t] = contents[r][t]
  BY <1>3, <1>4, <1>5, KallocOther
<1>7. LocalOK(p)'
  BY <1>1, <1>2, <1>3, <1>6 DEF LocalOK, Idle, Mapping
<1> QED
  BY <1>1, <1>2, <1>3, <1>6, <1>7, ChildStep DEF TypeOK

LEMMA UvmcopyWalkStep ==
  ASSUME EagerAssumption, IInv, UNCHANGED elsewhere, NEW p \in Proc,
         pc[p] = "uvmcopy_map", Walk(p, loc[p].np), UNCHANGED <<sz, pc, loc>>
  PROVE  IInv' /\ Quiet
<1> DEFINE c == loc[p].np
           s == LeafOf[loc[p].cur]
<1>1. TypeOK /\ OwnerOK /\ OwnedOK /\ LocalOK(p)
  BY DEF IInv
<1>2. c \in Proc \ {p} /\ pc[p] \in Building
  BY BuildingChild DEF Building
<1>3. s \in Slot \ (Page \cup {Mem}) /\ pa[c][s] = None /\ Kalloc(c, s, Zero)
      /\ Zero \in Content
  BY <1>1, Slots DEF Walk, NeedsLeaf, Content, LocalOK, Mapping
<1>4. /\ MemType' /\ OwnedOK'
      /\ \A r \in Proc \ {c} : contents'[r] = contents[r]
      /\ \A r \in Proc, t \in Page \cup {Mem} : contents'[r][t] = contents[r][t]
  BY <1>2, <1>3, KallocOther
<1>5. LocalOK(p)'
  BY <1>1, <1>2, <1>4 DEF LocalOK, Idle, Mapping
<1> QED
  BY <1>1, <1>2, <1>4, <1>5, ChildStep DEF TypeOK

LEMMA UvmallocWalkStep ==
  ASSUME EagerAssumption, IInv, UNCHANGED elsewhere, NEW p \in Proc,
         pc[p] = "uvmalloc_map", Walk(p, p), UNCHANGED <<sz, pc, loc>>
  PROVE  IInv' /\ Quiet
<1> DEFINE s == LeafOf[loc[p].cur]
<1>1. TypeOK /\ OwnerOK /\ OwnedOK /\ LocalOK(p)
  BY DEF IInv
<1>2. s \in Slot \ (Page \cup {Mem}) /\ pa[p][s] = None /\ Kalloc(p, s, Zero)
      /\ Zero \in Content
  BY <1>1, Slots DEF Walk, NeedsLeaf, Content, LocalOK, Mapping
<1>3. /\ MemType' /\ OwnedOK'
      /\ \A r \in Proc \ {p} : contents'[r] = contents[r]
      /\ \A r \in Proc, t \in Page \cup {Mem} : contents'[r][t] = contents[r][t]
  BY <1>2, KallocOther
<1>4. LocalOK(p)'
  BY <1>1, <1>3 DEF LocalOK, Idle, Mapping
<1>5. p \in Running /\ p \in Running' /\ VisibleSize(p)' = VisibleSize(p)
  BY DEF Running, VisibleSize, At
<1> QED
  BY <1>1, <1>3, <1>4, <1>5, OwnStep DEF TypeOK, Building

\* The PTE of q: the page is where the program finds it, and no longer in `mem'.
LEMMA MapEffect ==
  ASSUME EagerAssumption, IInv, UNCHANGED elsewhere, NEW p \in Proc, NEW q \in Proc, NEW perm,
         pc[p] \in Mapping, Map(p, q, perm)
  PROVE  LET v == loc[p].cur IN
         /\ v \in Page /\ MemType' /\ OwnedOK'
         /\ loc' \in [Proc -> Locals] /\ \A r \in Proc \ {p} : loc'[r] = loc[r]
         /\ loc'[p].cur = v + 1 /\ loc'[p].lim = loc[p].lim
         /\ loc'[p].newsz = loc[p].newsz /\ loc'[p].np = loc[p].np
         /\ \A r \in Proc \ {p, q} : contents'[r] = contents[r]
         /\ contents'[p][Mem] = None /\ contents'[q][v] = contents[p][Mem]
         /\ \A r \in Proc, w \in Page : ~(r = q /\ w = v) => contents'[r][w] = contents[r][w]
         /\ q # p => contents'[q][Mem] = contents[q][Mem]
<1> DEFINE v == loc[p].cur
<1>1. TypeOK /\ OwnedOK /\ v \in Page /\ Page \subseteq Slot /\ Mem \in Slot /\ Mem \notin Page
  BY Slots DEF IInv, LocalOK
<1>2. /\ loc' \in [Proc -> Locals] /\ \A r \in Proc \ {p} : loc'[r] = loc[r]
      /\ loc'[p].cur = v + 1 /\ loc'[p].lim = loc[p].lim
      /\ loc'[p].newsz = loc[p].newsz /\ loc'[p].np = loc[p].np
  BY <1>1, AdvanceEffect DEF Map
<1>3. PICK w \in Page : w = v
  BY <1>1
<1>4. Move(p, Mem, q, w) /\ pa[q][w] = None /\ w \in Slot /\ Mem # w
  BY <1>1, <1>3 DEF Move, Map
<1>5. /\ MemType' /\ OwnedOK'
      /\ \A r \in Proc \ {p, q} : contents'[r] = contents[r]
      /\ \A r \in Proc, u \in Slot :
           contents'[r][u] = IF r = q /\ u = w THEN contents[p][Mem]
                             ELSE IF r = p /\ u = Mem THEN None ELSE contents[r][u]
  BY <1>1, <1>4, MoveEffect
<1>6. /\ contents'[p][Mem] = None /\ contents'[q][v] = contents[p][Mem]
      /\ \A r \in Proc, u \in Page : ~(r = q /\ u = v) => contents'[r][u] = contents[r][u]
      /\ q # p => contents'[q][Mem] = contents[q][Mem]
  BY <1>1, <1>3, <1>4, <1>5
<1> QED
  BY <1>1, <1>2, <1>5, <1>6

LEMMA UvmcopyMapStep ==
  ASSUME EagerAssumption, IInv, UNCHANGED elsewhere, NEW p \in Proc, UvmcopyMap(p)
  PROVE  IInv' /\ Quiet
<1> DEFINE c == loc[p].np
           v == loc[p].cur
<1>1. UNCHANGED sz /\ pc[p] = "uvmcopy_map"
  BY DEF UvmcopyMap, At
<1>2. CASE Walk(p, c) /\ UNCHANGED <<pc, loc>>
  BY <1>1, <1>2, UvmcopyWalkStep
<1>3. CASE Map(p, c, flags[p][v]) /\ Goto(p, "uvmcopy")
  <2>1. TypeOK /\ OwnerOK /\ OwnedOK /\ LocalOK(p)
    BY DEF IInv
  <2>2. c \in Proc \ {p} /\ c # None /\ pc[p] \in Building /\ pc[p] \in Mapping
    BY <1>1, BuildingChild DEF Building, Mapping
  <2>3. /\ pc' \in [Proc -> PcLabel] /\ pc'[p] = "uvmcopy"
        /\ \A q \in Proc \ {p} : pc'[q] = pc[q]
    BY <1>3, <2>1, GotoEffect DEF PcLabel
  <2>4. /\ v \in Page /\ MemType' /\ OwnedOK'
        /\ loc' \in [Proc -> Locals] /\ \A r \in Proc \ {p} : loc'[r] = loc[r]
        /\ loc'[p].cur = v + 1 /\ loc'[p].np = c
        /\ \A r \in Proc \ {p, c} : contents'[r] = contents[r]
        /\ contents'[p][Mem] = None /\ contents'[c][v] = contents[p][Mem]
        /\ \A r \in Proc, w \in Page : ~(r = c /\ w = v) => contents'[r][w] = contents[r][w]
        /\ contents'[c][Mem] = contents[c][Mem]
    BY <1>3, <2>2, MapEffect
  <2>5. LocalOK(p)'
    <3>1. v < sz[p] /\ contents[p][Mem] = contents[p][v]
          /\ \A w \in Page : w < v => contents[c][w] = contents[p][w]
      BY <1>1, <2>1 DEF LocalOK
    <3>2. v + 1 <= sz'[p] /\ \A w \in Page : w < v + 1 => w < v \/ w = v
      <4>1. v \in Int /\ sz[p] \in Int /\ \A w \in Page : w \in Int
        BY <2>1, <2>4, Pages DEF TypeOK
      <4> QED
        BY <1>1, <3>1, <4>1
    <3>3. \A w \in Page : w < v + 1 => contents'[c][w] = contents'[p][w]
      BY <2>2, <2>4, <3>1, <3>2
    <3> QED
      BY <2>3, <2>4, <3>2, <3>3 DEF LocalOK, Idle, Mapping
  <2>6. \A w \in Page : contents'[p][w] = contents[p][w]
    BY <2>2, <2>4
  <2> QED
    BY <1>1, <2>2, <2>3, <2>4, <2>5, <2>6, ChildStep DEF Building
<1> QED
  BY <1>2, <1>3 DEF UvmcopyMap

LEMMA UvmallocMapStep ==
  ASSUME EagerAssumption, IInv, UNCHANGED elsewhere, NEW p \in Proc, UvmallocMap(p)
  PROVE  IInv' /\ Quiet
<1> DEFINE v == loc[p].cur
<1>1. UNCHANGED sz /\ pc[p] = "uvmalloc_map"
  BY DEF UvmallocMap, At
<1>2. CASE Walk(p, p) /\ UNCHANGED <<pc, loc>>
  BY <1>1, <1>2, UvmallocWalkStep
<1>3. CASE Map(p, p, {"PTE_U", "PTE_W"}) /\ Goto(p, "uvmalloc")
  <2>1. TypeOK /\ OwnerOK /\ OwnedOK /\ LocalOK(p)
    BY DEF IInv
  <2>2. /\ pc' \in [Proc -> PcLabel] /\ pc'[p] = "uvmalloc"
        /\ \A q \in Proc \ {p} : pc'[q] = pc[q]
    BY <1>3, <2>1, GotoEffect DEF PcLabel
  <2>3. /\ v \in Page /\ MemType' /\ OwnedOK'
        /\ loc' \in [Proc -> Locals] /\ \A r \in Proc \ {p} : loc'[r] = loc[r]
        /\ loc'[p].cur = v + 1 /\ loc'[p].lim = loc[p].lim /\ loc'[p].np = loc[p].np
        /\ \A r \in Proc \ {p} : contents'[r] = contents[r]
        /\ contents'[p][Mem] = None /\ contents'[p][v] = contents[p][Mem]
        /\ \A w \in Page : w # v => contents'[p][w] = contents[p][w]
    BY <1>1, <1>3, MapEffect DEF Mapping
  <2>4. /\ sz[p] <= v /\ v < loc[p].lim /\ contents[p][Mem] = Zero /\ loc[p].np = None
        /\ \A w \in Page : sz[p] <= w /\ w < v => contents[p][w] = Zero
    BY <1>1, <2>1 DEF LocalOK
  <2>5. /\ sz[p] <= v + 1 /\ v + 1 <= loc[p].lim
        /\ \A w \in Page : w < v + 1 => w < v \/ w = v
        /\ \A w \in Page : w < sz[p] => w # v
    <3>1. v \in Int /\ sz[p] \in Int /\ loc[p].lim \in Int /\ \A w \in Page : w \in Int
      BY <2>1, <2>3, LocFields, Pages DEF TypeOK
    <3> QED
      BY <2>4, <3>1
  <2>6. \A w \in Page : sz[p] <= w /\ w < v + 1 => contents'[p][w] = Zero
    BY <2>3, <2>4, <2>5
  <2>7. LocalOK(p)'
    BY <1>1, <2>2, <2>3, <2>4, <2>5, <2>6 DEF LocalOK, Idle, Mapping
  <2>8. p \in Running /\ p \in Running' /\ VisibleSize(p)' = VisibleSize(p)
        /\ VisibleSize(p) = sz[p]
    BY <1>1, <2>2 DEF Running, VisibleSize, At
  <2>9. \A w \in Page : w < VisibleSize(p) => contents'[p][w] = contents[p][w]
    BY <2>3, <2>5, <2>8
  <2> QED
    BY <1>1, <2>1, <2>2, <2>3, <2>7, <2>8, <2>9, OwnStep DEF Building, TypeOK
<1> QED
  BY <1>2, <1>3 DEF UvmallocMap

\* A kfree() of a page that q has, but not in `mem'.
LEMMA KfreeOther ==
  ASSUME EagerAssumption, IInv, UNCHANGED elsewhere, NEW q \in Proc,
         NEW s \in Slot \ {Mem}, Kfree(q, s)
  PROVE  /\ MemType' /\ OwnedOK'
         /\ \A r \in Proc \ {q} : contents'[r] = contents[r]
         /\ \A r \in Proc : contents'[r][Mem] = contents[r][Mem]
         /\ \A t \in Slot \ {s} : contents'[q][t] = contents[q][t]
<1>1. TypeOK /\ OwnedOK /\ Mem \in Slot
  BY Slots DEF IInv
<1>2. MemType' /\ OwnedOK' /\ contents' = [contents EXCEPT ![q][s] = None]
  BY <1>1, KfreeEffect
<1>3. contents \in [Proc -> [Slot -> Content \cup {None}]]
  BY <1>1, Contents
<1> QED
  BY <1>1, <1>2, <1>3

LEMMA UvmcopyErrStep ==
  ASSUME EagerAssumption, IInv, UNCHANGED elsewhere, NEW p \in Proc, UvmcopyErr(p)
  PROVE  IInv' /\ Quiet
<1> DEFINE c == loc[p].np
           v == loc[p].cur
<1>1. UNCHANGED sz /\ pc[p] = "uvmcopy_err"
  BY DEF UvmcopyErr, At
<1>2. TypeOK /\ OwnerOK /\ OwnedOK /\ LocalOK(p)
  BY DEF IInv
<1>3. c \in Proc \ {p} /\ c # None /\ pc[p] \in Building
  BY <1>1, BuildingChild DEF Building
<1>4. CASE v < loc[p].lim
  <2>1. Kfree(c, v) /\ Advance(p) /\ UNCHANGED pc
    BY <1>4 DEF UvmcopyErr, Unmap
  <2>2. v \in Page /\ v \in Slot \ {Mem} /\ Page \subseteq Slot
    BY <1>2, <1>4, LocFields, Pages, Slots
  <2>3. /\ MemType' /\ OwnedOK'
        /\ \A r \in Proc \ {c} : contents'[r] = contents[r]
        /\ \A r \in Proc : contents'[r][Mem] = contents[r][Mem]
    BY <1>3, <2>1, <2>2, KfreeOther
  <2>4. /\ loc' \in [Proc -> Locals] /\ \A r \in Proc \ {p} : loc'[r] = loc[r]
        /\ loc'[p].np = c
    BY <1>2, <2>1, <2>2, AdvanceEffect
  <2>5. LocalOK(p)'
    BY <1>1, <1>2, <2>1, <2>3 DEF LocalOK, Idle, Mapping
  <2> QED
    BY <1>1, <1>2, <1>3, <2>1, <2>3, <2>4, <2>5, ChildStep DEF TypeOK
<1>5. CASE ~(v < loc[p].lim)
  <2>1. /\ Goto(p, "freeproc") /\ UNCHANGED memory
        /\ loc' = [loc EXCEPT ![p].cur = 0, ![p].lim = 0]
    BY <1>5 DEF UvmcopyErr
  <2>2. /\ pc' \in [Proc -> PcLabel] /\ pc'[p] = "freeproc"
        /\ \A q \in Proc \ {p} : pc'[q] = pc[q]
    BY <1>2, <2>1, GotoEffect DEF PcLabel
  <2>3. /\ loc' \in [Proc -> Locals] /\ \A r \in Proc \ {p} : loc'[r] = loc[r]
        /\ loc'[p].np = c /\ loc'[p].cur = 0
    BY <1>2, <2>1, Pages DEF TypeOK, Locals
  <2>4. MemType' /\ OwnedOK' /\ contents' = contents
    BY <1>2, <2>1, Untouched
  <2>5. LocalOK(p)'
    BY <1>1, <1>2, <2>2, <2>3, <2>4 DEF LocalOK, Idle, Mapping
  <2> QED
    BY <1>1, <1>2, <1>3, <2>2, <2>3, <2>4, <2>5, ChildStep DEF Building
<1> QED
  BY <1>4, <1>5

LEMMA FreeprocStep ==
  ASSUME EagerAssumption, IInv, UNCHANGED elsewhere, NEW p \in Proc, Freeproc(p)
  PROVE  IInv' /\ Quiet
<1> DEFINE c == loc[p].np
<1>1. UNCHANGED <<sz, pc, loc>> /\ pc[p] = "freeproc"
  BY DEF Freeproc, At
<1>2. TypeOK /\ OwnerOK /\ OwnedOK /\ LocalOK(p)
  BY DEF IInv
<1>3. c \in Proc \ {p} /\ c # None /\ pc[p] \in Building
  BY <1>1, BuildingChild DEF Building
<1>4. PICK s \in FreeNext(c) : Kfree(c, s)
  BY DEF Freeproc
<1>5. s \in Slot \ {Mem}
  BY Slots DEF FreeNext, Slot
<1>6. /\ MemType' /\ OwnedOK'
      /\ \A r \in Proc \ {c} : contents'[r] = contents[r]
      /\ \A r \in Proc : contents'[r][Mem] = contents[r][Mem]
  BY <1>3, <1>4, <1>5, KfreeOther
<1>7. LocalOK(p)'
  BY <1>1, <1>2, <1>3, <1>6 DEF LocalOK, Idle, Mapping
<1> QED
  BY <1>1, <1>2, <1>3, <1>6, <1>7, ChildStep DEF TypeOK

LEMMA UvmdeallocStep ==
  ASSUME EagerAssumption, IInv, UNCHANGED elsewhere, NEW p \in Proc, Uvmdealloc(p)
  PROVE  IInv' /\ Quiet
<1> DEFINE v == loc[p].cur
<1>1. pc[p] = "uvmdealloc"
  BY DEF Uvmdealloc, At
<1>2. TypeOK /\ OwnerOK /\ OwnedOK /\ LocalOK(p)
  BY DEF IInv
<1>3. loc[p].newsz <= v /\ loc[p].np = None /\ VisibleSize(p) = loc[p].newsz /\ p \in Running
      /\ loc[p].newsz \in 0 .. MaxPage
  BY <1>1, <1>2, LocFields DEF LocalOK, VisibleSize, At, Running
<1>4. CASE v < loc[p].lim
  <2>1. Kfree(p, v) /\ Advance(p) /\ UNCHANGED <<pc, sz>>
    BY <1>4 DEF Uvmdealloc, Unmap
  <2>2. v \in Page /\ v \in Slot \ {Mem} /\ Page \subseteq Slot /\ Mem \notin Page
    BY <1>2, <1>4, LocFields, Pages, Slots
  <2>3. /\ MemType' /\ OwnedOK'
        /\ \A r \in Proc \ {p} : contents'[r] = contents[r]
        /\ \A r \in Proc : contents'[r][Mem] = contents[r][Mem]
        /\ \A t \in Slot \ {v} : contents'[p][t] = contents[p][t]
    BY <2>1, <2>2, KfreeOther
  <2>4. /\ loc' \in [Proc -> Locals] /\ \A r \in Proc \ {p} : loc'[r] = loc[r]
        /\ loc'[p].np = loc[p].np /\ loc'[p].newsz = loc[p].newsz /\ loc'[p].cur = v + 1
    BY <1>2, <2>1, <2>2, AdvanceEffect
  <2>5. /\ loc[p].newsz <= v + 1
        /\ \A w \in Page : w < loc[p].newsz => w # v
    <3>1. v \in Int /\ loc[p].newsz \in Int /\ \A w \in Page : w \in Int
      BY <1>2, LocFields, Pages
    <3> QED
      BY <1>3, <3>1
  <2>6. LocalOK(p)'
    BY <1>1, <1>2, <2>1, <2>3, <2>4, <2>5 DEF LocalOK, Idle, Mapping
  <2>7. p \in Running' /\ VisibleSize(p)' = VisibleSize(p)
    BY <1>1, <1>3, <2>1, <2>4 DEF Running, VisibleSize, At
  <2>8. \A w \in Page : w < VisibleSize(p) => contents'[p][w] = contents[p][w]
    BY <1>3, <2>2, <2>3, <2>5
  <2> QED
    BY <1>1, <1>2, <1>3, <2>1, <2>3, <2>4, <2>6, <2>7, <2>8, OwnStep DEF Building, TypeOK
<1>5. CASE ~(v < loc[p].lim)
  <2>1. sz' = [sz EXCEPT ![p] = loc[p].newsz] /\ Return(p) /\ UNCHANGED memory
    BY <1>5 DEF Uvmdealloc
  <2>2. /\ loc' \in [Proc -> Locals] /\ loc'[p] = NoLocals
        /\ \A q \in Proc \ {p} : loc'[q] = loc[q] /\ pc'[q] = pc[q]
        /\ pc' \in [Proc -> PcLabel] /\ pc'[p] = "user"
    BY <1>2, <2>1, ReturnEffect
  <2>3. MemType' /\ OwnedOK' /\ contents' = contents
    BY <1>2, <2>1, Untouched
  <2>4. /\ sz' \in [Proc -> 0 .. MaxPage] /\ sz'[p] = loc[p].newsz
        /\ \A q \in Proc \ {p} : sz'[q] = sz[q]
    BY <1>2, <1>3, <2>1 DEF TypeOK
  <2>5. LocalOK(p)'
    BY <1>1, <1>2, <2>2, <2>3 DEF LocalOK, Idle, Mapping
  <2>6. p \in Running' /\ VisibleSize(p)' = VisibleSize(p)
    BY <1>3, <2>2, <2>4 DEF Running, VisibleSize, At
  <2> QED
    BY <1>1, <1>2, <1>3, <2>2, <2>3, <2>4, <2>5, <2>6, NoLocalsType, OwnStep DEF Building
<1> QED
  BY <1>4, <1>5

\* wait() that fails to store the status gives the child back as a zombie.
LEMMA CopyoutFailStep ==
  ASSUME EagerAssumption, IInv, UNCHANGED elsewhere, NEW p \in Proc, CopyoutFail(p)
  PROVE  IInv' /\ Quiet
<1>0. PICK c \in Proc \cup {None} : c = loc[p].np
  BY LocFields DEF IInv
<1>1. /\ UNCHANGED <<memory, sz>> /\ pc[p] = "copyout"
      /\ pc' = [q \in Proc |-> CASE q = p -> "user" [] q = c -> "zombie" [] OTHER -> pc[q]]
      /\ loc' = [loc EXCEPT ![p] = NoLocals]
  BY <1>0 DEF CopyoutFail, At
<1>2. TypeOK /\ OwnerOK /\ OwnedOK /\ \A q \in Proc : LocalOK(q)
  BY DEF IInv
<1>3. c \in Proc \cup {None} /\ c # p
      /\ (c # None => c \in Proc /\ pc[c] \in {"embryo", "reaped"})
  BY <1>0, <1>1, <1>2, Child DEF EagerAssumption
<1>4. MemType' /\ OwnedOK' /\ contents' = contents
  BY <1>1, <1>2, Untouched
<1>5. /\ pc' \in [Proc -> PcLabel] /\ pc'[p] = "user"
      /\ c # None => pc'[c] = "zombie"
      /\ \A q \in Proc \ {p, c} : pc'[q] = pc[q]
  BY <1>1, <1>2, <1>3 DEF TypeOK, PcLabel
<1>6. /\ loc' \in [Proc -> Locals] /\ loc'[p] = NoLocals
      /\ \A q \in Proc \ {p} : loc'[q] = loc[q]
  BY <1>1, <1>2, NoLocalsType DEF TypeOK
<1>7. OwnerOK'
  <2>1. /\ \A q \in Proc : pc'[q] # pc[q] => pc'[q] \notin Building
        /\ loc'[p].np = None /\ pc'[p] \notin Building
        /\ \A q \in Proc \ {p} : q # c => pc'[q] = pc[q]
    BY <1>3, <1>5, <1>6, NoLocalsType DEF Building, EagerAssumption
  <2> QED
    BY <1>0, <1>1, <1>2, <1>6, <2>1, OwnerDrop
<1>8. LocalOK(p)' /\ (c \in Proc => LocalOK(c)')
  BY <1>1, <1>2, <1>3, <1>4, <1>5, <1>6 DEF LocalOK, Idle, Mapping, EagerAssumption
<1>9. p \in Running /\ p \in Running' /\ VisibleSize(p)' = VisibleSize(p)
      /\ (c \in Proc => c \notin Running /\ c \notin Running')
  BY <1>1, <1>3, <1>5 DEF Running, VisibleSize, At, EagerAssumption
<1>10. Alone(p, c) /\ MayTouch(p, c) /\ TypeOK'
  BY <1>0, <1>1, <1>2, <1>4, <1>5, <1>6 DEF Alone, MayTouch, TypeOK, MemType
<1> QED
  BY <1>3, <1>4, <1>7, <1>8, <1>9, <1>10, QuietStep

\* An entry that nobody makes or releases becomes one that p does.
LEMMA TakeStep ==
  ASSUME EagerAssumption, IInv, UNCHANGED elsewhere, NEW p \in Proc, NEW c \in Proc,
         UNCHANGED <<memory, sz>>, pc[p] = "user", pc[c] \in {"unused", "zombie"},
         NEW l \in {"allocproc", "freeproc", "copyout"}, NEW m \in {"embryo", "reaped"},
         pc' = [pc EXCEPT ![p] = l, ![c] = m],
         loc' \in [Proc -> Locals], \A q \in Proc \ {p} : loc'[q] = loc[q],
         loc'[p].np = c, l = "copyout" => loc'[p].val \in Value,
         l # "copyout" => loc'[p].cur = 0
  PROVE  IInv' /\ Quiet
<1>2. TypeOK /\ OwnerOK /\ OwnedOK /\ LocalOK(p) /\ LocalOK(c)
  BY DEF IInv
<1>3. c # p /\ c # None
  BY DEF EagerAssumption
<1>4. MemType' /\ OwnedOK' /\ contents' = contents
  BY <1>2, Untouched
<1>5. /\ pc' \in [Proc -> PcLabel] /\ pc'[p] = l /\ pc'[c] = m
      /\ \A q \in Proc \ {p, c} : pc'[q] = pc[q]
  BY <1>2, <1>3 DEF TypeOK, PcLabel
<1>6. OwnerOK'
  BY <1>2, <1>5, OwnerTake
<1>7. LocalOK(p)' /\ LocalOK(c)'
  <2>1. loc'[c] = NoLocals
    BY <1>2, <1>3 DEF LocalOK, Idle
  <2>2. contents'[p][Mem] = None /\ contents'[c][Mem] = None
    BY <1>2, <1>4 DEF LocalOK, Mapping
  <2> QED
    BY <1>5, <2>1, <2>2 DEF LocalOK, Idle, Mapping
<1>8. p \in Running /\ p \in Running' /\ VisibleSize(p)' = VisibleSize(p)
      /\ c \notin Running /\ c \notin Running'
  BY <1>5 DEF Running, VisibleSize, At
<1>9. Alone(p, c) /\ MayTouch(p, c) /\ TypeOK'
  BY <1>2, <1>4, <1>5 DEF Alone, MayTouch, TypeOK, MemType
<1> QED
  BY <1>3, <1>4, <1>6, <1>7, <1>8, <1>9, QuietStep

LEMMA ForkStep ==
  ASSUME EagerAssumption, IInv, UNCHANGED elsewhere, NEW p \in Proc, NEW c \in Proc, Fork(p, c)
  PROVE  IInv' /\ Quiet
<1>1. /\ UNCHANGED <<memory, sz>> /\ pc[p] = "user" /\ pc[c] = "unused"
      /\ pc' = [pc EXCEPT ![p] = "allocproc", ![c] = "embryo"]
      /\ loc' = [loc EXCEPT ![p].np = c]
  BY DEF Fork, At
<1>2. loc \in [Proc -> Locals] /\ loc[p] = NoLocals
  BY <1>1 DEF IInv, TypeOK, LocalOK, Idle
<1>3. /\ loc' \in [Proc -> Locals] /\ \A q \in Proc \ {p} : loc'[q] = loc[q]
      /\ loc'[p].np = c /\ loc'[p].cur = 0
  BY <1>1, <1>2, NoLocalsType DEF Locals
<1> QED
  BY <1>1, <1>3, TakeStep

LEMMA WaitStep ==
  ASSUME EagerAssumption, IInv, UNCHANGED elsewhere, NEW p \in Proc, NEW c \in Proc, Wait(p, c)
  PROVE  IInv' /\ Quiet
<1>1. UNCHANGED <<memory, sz>> /\ pc[p] = "user" /\ pc[c] = "zombie"
  BY DEF Wait, At
<1>2. loc \in [Proc -> Locals] /\ loc[p] = NoLocals
  BY <1>1 DEF IInv, TypeOK, LocalOK, Idle
<1>3. CASE /\ pc' = [pc EXCEPT ![p] = "freeproc", ![c] = "reaped"]
           /\ loc' = [loc EXCEPT ![p].np = c]
  <2>1. /\ loc' \in [Proc -> Locals] /\ \A q \in Proc \ {p} : loc'[q] = loc[q]
        /\ loc'[p].np = c /\ loc'[p].cur = 0
    BY <1>2, <1>3, NoLocalsType DEF Locals
  <2> QED
    BY <1>1, <1>3, <2>1, TakeStep
<1>4. CASE \E v \in Page, x \in Value :
             /\ pc' = [pc EXCEPT ![p] = "copyout", ![c] = "reaped"]
             /\ loc' = [loc EXCEPT ![p].np = c, ![p].cur = v, ![p].val = x]
  <2>1. PICK v \in Page, x \in Value :
          /\ pc' = [pc EXCEPT ![p] = "copyout", ![c] = "reaped"]
          /\ loc' = [loc EXCEPT ![p].np = c, ![p].cur = v, ![p].val = x]
    BY <1>4
  <2>2. v \in 0 .. MaxPage /\ x \in Value \cup {None} /\ c \in Proc \cup {None}
    BY Pages
  <2>3. /\ loc' \in [Proc -> Locals] /\ \A q \in Proc \ {p} : loc'[q] = loc[q]
        /\ loc'[p].np = c /\ loc'[p].val \in Value
    BY <1>2, <2>1, <2>2 DEF Locals
  <2> QED
    BY <1>1, <2>1, <2>3, TakeStep
<1> QED
  BY <1>3, <1>4 DEF Wait

LEMMA FreeprocDoneStep ==
  ASSUME EagerAssumption, IInv, UNCHANGED elsewhere, NEW p \in Proc, FreeprocDone(p)
  PROVE  IInv' /\ Quiet
<1>0. PICK c \in Proc \cup {None} : c = loc[p].np
  BY LocFields DEF IInv
<1>1. /\ UNCHANGED memory /\ pc[p] = "freeproc" /\ sz' = [sz EXCEPT ![c] = 0]
      /\ pc' = [pc EXCEPT ![p] = "user", ![c] = "unused"]
      /\ loc' = [loc EXCEPT ![p] = NoLocals]
  BY <1>0 DEF FreeprocDone, At
<1>2. TypeOK /\ OwnerOK /\ OwnedOK /\ \A q \in Proc : LocalOK(q)
  BY DEF IInv
<1>3. c \in Proc \ {p} /\ c # None /\ pc[c] \in {"embryo", "reaped"}
  BY <1>0, <1>1, <1>2, BuildingChild, Child DEF Building
<1>4. MemType' /\ OwnedOK' /\ contents' = contents
  BY <1>1, <1>2, Untouched
<1>5. /\ pc' \in [Proc -> PcLabel] /\ pc'[p] = "user" /\ pc'[c] = "unused"
      /\ \A q \in Proc \ {p, c} : pc'[q] = pc[q]
  BY <1>1, <1>2, <1>3 DEF TypeOK, PcLabel
<1>6. /\ loc' \in [Proc -> Locals] /\ loc'[p] = NoLocals
      /\ \A q \in Proc \ {p} : loc'[q] = loc[q]
  BY <1>1, <1>2, NoLocalsType DEF TypeOK
<1>7. sz' \in [Proc -> 0 .. MaxPage] /\ \A q \in Proc \ {c} : sz'[q] = sz[q]
  BY <1>1, <1>2, Pages DEF TypeOK
<1>8. OwnerOK'
  <2>1. /\ \A q \in Proc : pc'[q] # pc[q] => pc'[q] \notin Building
        /\ loc'[p].np = None /\ pc'[p] \notin Building
        /\ \A q \in Proc \ {p} : q # c => pc'[q] = pc[q]
    BY <1>3, <1>5, <1>6, NoLocalsType DEF Building
  <2> QED
    BY <1>0, <1>1, <1>2, <1>6, <2>1, OwnerDrop
<1>9. LocalOK(p)' /\ LocalOK(c)'
  BY <1>1, <1>2, <1>3, <1>4, <1>5, <1>6 DEF LocalOK, Idle, Mapping
<1>10. p \in Running /\ p \in Running' /\ VisibleSize(p)' = VisibleSize(p)
       /\ c \notin Running /\ c \notin Running'
  BY <1>1, <1>3, <1>5, <1>7 DEF Running, VisibleSize, At
<1>11. Alone(p, c) /\ MayTouch(p, c) /\ TypeOK'
  BY <1>0, <1>1, <1>2, <1>4, <1>5, <1>6, <1>7 DEF Alone, MayTouch, TypeOK, MemType
<1> QED
  BY <1>3, <1>4, <1>8, <1>9, <1>10, <1>11, QuietStep

-----------------------------------------------------------------------------
(* Steps that a program sees, as it sees them                              *)

WriteSeen(p, v, x) ==
  /\ p \in Running /\ Running' = Running /\ Seen(p, v) # None
  /\ \A q \in Proc, w \in Page : Seen(q, w)' = IF q = p /\ w = v THEN x ELSE Seen(q, w)

ForkSeen(p, c) ==
  /\ p \in Running /\ c \notin Running /\ Running' = Running \cup {c}
  /\ \A q \in Proc, w \in Page : Seen(q, w)' = IF q = c THEN Seen(p, w) ELSE Seen(q, w)

ResizeSeen(p, n) ==
  /\ p \in Running /\ Running' = Running
  /\ \A q \in Proc, w \in Page :
       Seen(q, w)' = IF q # p THEN Seen(q, w)
                     ELSE IF w >= n THEN None
                     ELSE IF Seen(p, w) = None THEN Zero ELSE Seen(p, w)

ExitSeen(p) ==
  /\ p \in Running /\ Running' = Running \ {p}
  /\ \A q \in Proc, w \in Page : Seen(q, w)' = IF q = p THEN None ELSE Seen(q, w)

\* The invariant after a step of p with its own fields, and what the others see.
LEMMA VisibleStep ==
  ASSUME EagerAssumption, IInv, NEW p \in Proc, NEW c \in Proc \cup {None},
         MayTouch(p, c), Alone(p, c),
         TypeOK', OwnerOK', OwnedOK', LocalOK(p)', MappedOK(p)',
         c \in Proc => LocalOK(c)' /\ MappedOK(c)'
  PROVE  /\ IInv'
         /\ \A q \in Proc \ {p, c} :
              /\ q \in Running' <=> q \in Running
              /\ \A v \in Page : Seen(q, v)' = Seen(q, v)
<1>1. \A q \in Proc \ {p, c} : q \in Running' <=> q \in Running
  BY DEF Running, Alone
<1> QED
  BY <1>1, OthersLocal DEF IInv

\* A store of p through a PTE, with whatever label and locals come next.
LEMMA PageWritten ==
  ASSUME EagerAssumption, IInv, UNCHANGED elsewhere, NEW p \in Proc, NEW v \in Page,
         NEW x \in Value, pc[p] \in {"user", "copyout"}, Stored(p, v, x), UNCHANGED sz,
         pc' \in [Proc -> PcLabel], loc' \in [Proc -> Locals],
         \A q \in Proc \ {p} : pc'[q] = pc[q] /\ loc'[q] = loc[q],
         loc'[p].np = loc[p].np,
         \/ pc'[p] = "user" /\ loc'[p] = NoLocals
         \/ pc'[p] = "copyout" /\ loc'[p].val \in Value
         \/ pc'[p] = "freeproc" /\ loc'[p].cur = 0 /\ loc[p].np # None
  PROVE  IInv' /\ (Quiet \/ WriteSeen(p, v, x))
<1>1. /\ TypeOK /\ OwnerOK /\ OwnedOK /\ LocalOK(p) /\ MappedOK(p)
      /\ v \in Slot /\ x \in Content /\ Page \subseteq Slot /\ Mem \in Slot /\ Mem \notin Page
  BY Slots DEF IInv, Content
<1>2. MemType' /\ OwnedOK' /\ contents' = [contents EXCEPT ![p][v] = x]
  BY <1>1, WriteEffect
<1>3. /\ \A q \in Proc \ {p} : contents'[q] = contents[q]
      /\ \A s \in Slot : contents'[p][s] = IF s = v THEN x ELSE contents[p][s]
  <2>1. contents \in [Proc -> [Slot -> Content \cup {None}]]
    BY <1>1, Contents
  <2> QED
    BY <1>1, <1>2, <2>1
<1>4. OwnerOK'
  BY <1>1, OwnerKeep DEF Building
<1>5. LocalOK(p)'
  <2>1. contents'[p][Mem] = None
    BY <1>1, <1>3 DEF LocalOK, Mapping
  <2> QED
    BY <2>1 DEF LocalOK, Idle, Mapping
<1>6. p \in Running /\ p \in Running' /\ VisibleSize(p)' = VisibleSize(p)
      /\ VisibleSize(p) = sz[p]
  BY DEF Running, VisibleSize, At
<1>7. x # None
  BY DEF EagerAssumption
<1>8. MappedOK(p)'
  BY <1>1, <1>3, <1>6, <1>7 DEF MappedOK
<1>9. Alone(p, None) /\ MayTouch(p, None) /\ TypeOK' /\ None \notin Proc
  BY <1>1, <1>2, <1>3 DEF Alone, MayTouch, TypeOK, MemType, EagerAssumption
<1>10. /\ IInv'
       /\ \A q \in Proc \ {p} :
            /\ q \in Running' <=> q \in Running
            /\ \A w \in Page : Seen(q, w)' = Seen(q, w)
  BY <1>2, <1>4, <1>5, <1>8, <1>9, VisibleStep
<1>11. Running' = Running
  BY <1>6, <1>10 DEF Running
<1>12. CASE v < sz[p]
  <2>1. Seen(p, v) # None
    BY <1>1, <1>6, <1>12 DEF MappedOK, Seen
  <2>2. \A w \in Page : Seen(p, w)' = IF w = v THEN x ELSE Seen(p, w)
    BY <1>1, <1>3, <1>6, <1>12 DEF Seen
  <2> QED
    BY <1>6, <1>10, <1>11, <2>1, <2>2 DEF WriteSeen
<1>13. CASE ~(v < sz[p])
  <2>1. \A w \in Page : Seen(p, w)' = Seen(p, w)
    BY <1>1, <1>3, <1>6, <1>13 DEF Seen
  <2> QED
    BY <1>10, <1>11, <2>1 DEF Quiet
<1> QED
  BY <1>12, <1>13

LEMMA StoreStep ==
  ASSUME EagerAssumption, IInv, UNCHANGED elsewhere, NEW p \in Proc,
         NEW v \in Page, NEW x \in Value, Store(p, v, x)
  PROVE  IInv' /\ (Quiet \/ WriteSeen(p, v, x))
<1>1. pc[p] = "user" /\ Stored(p, v, x) /\ UNCHANGED <<sz, pc, loc>>
  BY DEF Store, At, Stored
<1>2. loc[p] = NoLocals /\ TypeOK
  BY <1>1 DEF IInv, LocalOK, Idle
<1> QED
  BY <1>1, <1>2, PageWritten DEF TypeOK

LEMMA CopyoutPageStep ==
  ASSUME EagerAssumption, IInv, UNCHANGED elsewhere, NEW p \in Proc, CopyoutPage(p)
  PROVE  IInv' /\ (Quiet \/ \E v \in Page, x \in Value : WriteSeen(p, v, x))
<1>1. PICK v \in Page, x \in Value : v = loc[p].cur /\ x = loc[p].val
  BY DEF CopyoutPage, User, At, IInv, LocalOK
<1>2. pc[p] = "copyout" /\ Stored(p, v, x) /\ UNCHANGED sz
  BY <1>1 DEF CopyoutPage, User, At, Stored
<1>3. TypeOK
  BY DEF IInv
<1>4. CASE Advance(p) /\ UNCHANGED pc
  <2>1. /\ loc' \in [Proc -> Locals] /\ \A q \in Proc \ {p} : loc'[q] = loc[q]
        /\ loc'[p].np = loc[p].np /\ loc'[p].val \in Value
    BY <1>1, <1>3, <1>4, AdvanceEffect
  <2> QED
    BY <1>2, <1>3, <1>4, <2>1, PageWritten DEF TypeOK
<1>5. CASE loc[p].np = None /\ Return(p)
  <2>1. /\ loc' \in [Proc -> Locals] /\ loc'[p] = NoLocals /\ loc'[p].np = loc[p].np
        /\ \A q \in Proc \ {p} : loc'[q] = loc[q] /\ pc'[q] = pc[q]
        /\ pc' \in [Proc -> PcLabel] /\ pc'[p] = "user"
    BY <1>3, <1>5, ReturnEffect, NoLocalsType
  <2> QED
    BY <1>2, <2>1, PageWritten
<1>6. CASE /\ loc[p].np # None
           /\ Goto(p, "freeproc")
           /\ loc' = [loc EXCEPT ![p].cur = 0, ![p].val = None]
  <2>1. /\ pc' \in [Proc -> PcLabel] /\ pc'[p] = "freeproc"
        /\ \A q \in Proc \ {p} : pc'[q] = pc[q]
    BY <1>3, <1>6, GotoEffect DEF PcLabel
  <2>2. /\ loc' \in [Proc -> Locals] /\ \A q \in Proc \ {p} : loc'[q] = loc[q]
        /\ loc'[p].np = loc[p].np /\ loc'[p].cur = 0
    BY <1>3, <1>6, Pages DEF TypeOK, Locals
  <2> QED
    BY <1>2, <1>6, <2>1, <2>2, PageWritten
<1> QED
  BY <1>4, <1>5, <1>6 DEF CopyoutPage

\* The child appears with the memory of its parent.
LEMMA ForkDoneStep ==
  ASSUME EagerAssumption, IInv, UNCHANGED elsewhere, NEW p \in Proc, ForkDone(p)
  PROVE  IInv' /\ \E c \in Proc : ForkSeen(p, c)
<1>0. PICK c \in Proc \cup {None} : c = loc[p].np
  BY LocFields DEF IInv
<1>1. /\ UNCHANGED memory /\ pc[p] = "uvmcopy" /\ loc[p].cur = sz[p]
      /\ sz' = [sz EXCEPT ![c] = sz[p]]
      /\ pc' = [pc EXCEPT ![p] = "user", ![c] = "user"]
      /\ loc' = [loc EXCEPT ![p] = NoLocals]
  BY <1>0 DEF ForkDone, At
<1>2. /\ TypeOK /\ OwnerOK /\ OwnedOK
      /\ LocalOK(p) /\ MappedOK(p) /\ \A q \in Proc : LocalOK(q)
  BY DEF IInv
<1>3. c \in Proc \ {p} /\ c # None /\ pc[c] \in {"embryo", "reaped"}
  BY <1>0, <1>1, <1>2, BuildingChild, Child DEF Building
<1>4. MemType' /\ OwnedOK' /\ contents' = contents
  BY <1>1, <1>2, Untouched
<1>5. /\ pc' \in [Proc -> PcLabel] /\ pc'[p] = "user" /\ pc'[c] = "user"
      /\ \A q \in Proc \ {p, c} : pc'[q] = pc[q]
  BY <1>1, <1>2, <1>3 DEF TypeOK, PcLabel
<1>6. /\ loc' \in [Proc -> Locals] /\ loc'[p] = NoLocals
      /\ \A q \in Proc \ {p} : loc'[q] = loc[q]
  BY <1>1, <1>2, NoLocalsType DEF TypeOK
<1>7. sz' \in [Proc -> 0 .. MaxPage] /\ sz'[c] = sz[p] /\ \A q \in Proc \ {c} : sz'[q] = sz[q]
  BY <1>1, <1>2, <1>3 DEF TypeOK
<1>8. OwnerOK'
  <2>1. /\ \A q \in Proc : pc'[q] # pc[q] => pc'[q] \notin Building
        /\ loc'[p].np = None /\ pc'[p] \notin Building
        /\ \A q \in Proc \ {p} : q # c => pc'[q] = pc[q]
    BY <1>3, <1>5, <1>6, NoLocalsType DEF Building
  <2> QED
    BY <1>0, <1>1, <1>2, <1>6, <2>1, OwnerDrop
<1>9. LocalOK(p)' /\ LocalOK(c)'
  BY <1>1, <1>2, <1>3, <1>4, <1>5, <1>6 DEF LocalOK, Idle, Mapping
<1>10. /\ p \in Running /\ p \in Running' /\ c \notin Running /\ c \in Running'
       /\ VisibleSize(p) = sz[p] /\ VisibleSize(p)' = sz[p] /\ VisibleSize(c)' = sz[p]
  BY <1>1, <1>3, <1>5, <1>7 DEF Running, VisibleSize, At
<1>11. \A w \in Page : w < sz[p] => contents'[c][w] = contents[p][w]
  BY <1>0, <1>1, <1>2, <1>4 DEF LocalOK
<1>12. MappedOK(p)' /\ MappedOK(c)'
  BY <1>2, <1>4, <1>10, <1>11 DEF MappedOK
<1>13. Alone(p, c) /\ MayTouch(p, c) /\ TypeOK'
  BY <1>0, <1>1, <1>2, <1>4, <1>5, <1>6, <1>7 DEF Alone, MayTouch, TypeOK, MemType
<1>14. /\ IInv'
       /\ \A q \in Proc \ {p, c} :
            /\ q \in Running' <=> q \in Running
            /\ \A v \in Page : Seen(q, v)' = Seen(q, v)
  BY <1>4, <1>8, <1>9, <1>12, <1>13, VisibleStep
<1>15. /\ Running' = Running \cup {c}
       /\ \A w \in Page : Seen(p, w)' = Seen(p, w) /\ Seen(c, w)' = Seen(p, w)
  <2>1. Running' = Running \cup {c}
    BY <1>3, <1>10, <1>14 DEF Running
  <2> QED
    BY <1>4, <1>10, <1>11, <2>1 DEF Seen
<1> QED
  BY <1>3, <1>10, <1>14, <1>15 DEF ForkSeen

LEMMA ExitStep ==
  ASSUME EagerAssumption, IInv, UNCHANGED elsewhere, NEW p \in Proc, Exit(p)
  PROVE  IInv' /\ ExitSeen(p)
<1>1. /\ UNCHANGED <<memory, sz, loc>> /\ pc[p] = "user"
      /\ Goto(p, IF p = InitProc THEN "panic" ELSE "zombie")
  BY DEF Exit, At
<1>2. TypeOK /\ OwnerOK /\ OwnedOK /\ LocalOK(p)
  BY DEF IInv
<1>3. MemType' /\ OwnedOK' /\ contents' = contents
  BY <1>1, <1>2, Untouched
<1>4. /\ pc' \in [Proc -> PcLabel] /\ pc'[p] \in {"panic", "zombie"}
      /\ \A q \in Proc \ {p} : pc'[q] = pc[q]
  BY <1>1, <1>2, GotoEffect DEF PcLabel
<1>5. OwnerOK'
  BY <1>1, <1>2, <1>4, OwnerKeep DEF Building
<1>6. LocalOK(p)'
  BY <1>1, <1>2, <1>3, <1>4 DEF LocalOK, Idle, Mapping
<1>7. p \in Running /\ p \notin Running'
  BY <1>1, <1>4 DEF Running
<1>8. MappedOK(p)' /\ \A w \in Page : Seen(p, w)' = None
  BY <1>7 DEF MappedOK, Seen
<1>9. Alone(p, None) /\ MayTouch(p, None) /\ TypeOK' /\ None \notin Proc
  BY <1>1, <1>2, <1>3, <1>4 DEF Alone, MayTouch, TypeOK, MemType, EagerAssumption
<1>10. /\ IInv'
       /\ \A q \in Proc \ {p} :
            /\ q \in Running' <=> q \in Running
            /\ \A w \in Page : Seen(q, w)' = Seen(q, w)
  BY <1>3, <1>5, <1>6, <1>8, <1>9, VisibleStep
<1>11. Running' = Running \ {p}
  BY <1>7, <1>10 DEF Running
<1> QED
  BY <1>7, <1>8, <1>10, <1>11 DEF ExitSeen

\* sbrk() to less: the pages are out of sight before they are freed.
LEMMA ShrinkStep ==
  ASSUME EagerAssumption, IInv, UNCHANGED elsewhere, NEW p \in Proc,
         NEW n \in 0 .. MaxPage, Shrink(p, n)
  PROVE  IInv' /\ ResizeSeen(p, n)
<1>1. /\ UNCHANGED <<memory, sz>> /\ pc[p] = "user" /\ n < sz[p] /\ DeallocFrom(p, sz[p], n)
  BY DEF Shrink, At
<1>2. TypeOK /\ OwnerOK /\ OwnedOK /\ LocalOK(p) /\ MappedOK(p)
  BY DEF IInv
<1>3. MemType' /\ OwnedOK' /\ contents' = contents
  BY <1>1, <1>2, Untouched
<1>4. /\ pc' \in [Proc -> PcLabel] /\ pc'[p] = "uvmdealloc"
      /\ \A q \in Proc \ {p} : pc'[q] = pc[q] /\ loc'[q] = loc[q]
      /\ loc' \in [Proc -> Locals] /\ loc'[p].np = loc[p].np
      /\ loc'[p].cur = n /\ loc'[p].newsz = n /\ n <= n
  BY <1>1, <1>2, DeallocEffect DEF TypeOK
<1>5. OwnerOK'
  BY <1>1, <1>2, <1>4, OwnerKeep DEF Building
<1>6. LocalOK(p)'
  BY <1>1, <1>2, <1>3, <1>4, NoLocalsType DEF LocalOK, Idle, Mapping
<1>7. /\ p \in Running /\ p \in Running' /\ VisibleSize(p) = sz[p] /\ VisibleSize(p)' = n
  BY <1>1, <1>4 DEF Running, VisibleSize, At
<1>8. \A w \in Page : (w < n => w < sz[p]) /\ (w >= n <=> ~(w < n))
  <2>1. n \in Int /\ sz[p] \in Int /\ \A w \in Page : w \in Int
    BY <1>2, Pages DEF TypeOK
  <2> QED
    BY <1>1, <2>1
<1>9. MappedOK(p)'
  BY <1>2, <1>3, <1>7, <1>8 DEF MappedOK
<1>10. Alone(p, None) /\ MayTouch(p, None) /\ TypeOK' /\ None \notin Proc
  BY <1>1, <1>2, <1>3, <1>4 DEF Alone, MayTouch, TypeOK, MemType, EagerAssumption
<1>11. /\ IInv'
       /\ \A q \in Proc \ {p} :
            /\ q \in Running' <=> q \in Running
            /\ \A w \in Page : Seen(q, w)' = Seen(q, w)
  BY <1>3, <1>5, <1>6, <1>9, <1>10, VisibleStep
<1>12. Running' = Running
  BY <1>7, <1>11 DEF Running
<1>13. \A w \in Page : w < n => contents[p][w] # None
  BY <1>2, <1>7, <1>8 DEF MappedOK
<1>14. \A w \in Page :
         Seen(p, w)' = IF w >= n THEN None
                       ELSE IF Seen(p, w) = None THEN Zero ELSE Seen(p, w)
  BY <1>3, <1>7, <1>8, <1>13 DEF Seen
<1> QED
  BY <1>7, <1>11, <1>12, <1>14 DEF ResizeSeen

\* sbrk() to more: the new pages are seen all at once, and zero.
LEMMA GrowDoneStep ==
  ASSUME EagerAssumption, IInv, UNCHANGED elsewhere, NEW p \in Proc, GrowDone(p)
  PROVE  IInv' /\ \E n \in 0 .. MaxPage : ResizeSeen(p, n)
<1>0. PICK n \in 0 .. MaxPage : n = loc[p].lim
  BY LocFields DEF IInv
<1>1. /\ UNCHANGED memory /\ pc[p] = "uvmalloc" /\ loc[p].cur = n
      /\ sz' = [sz EXCEPT ![p] = n] /\ Return(p)
  BY <1>0 DEF GrowDone, At
<1>2. TypeOK /\ OwnerOK /\ OwnedOK /\ LocalOK(p) /\ MappedOK(p)
  BY DEF IInv
<1>3. MemType' /\ OwnedOK' /\ contents' = contents
  BY <1>1, <1>2, Untouched
<1>4. /\ loc' \in [Proc -> Locals] /\ loc'[p] = NoLocals /\ loc'[p].np = loc[p].np
      /\ \A q \in Proc \ {p} : loc'[q] = loc[q] /\ pc'[q] = pc[q]
      /\ pc' \in [Proc -> PcLabel] /\ pc'[p] = "user"
  BY <1>1, <1>2, ReturnEffect, NoLocalsType DEF LocalOK
<1>5. OwnerOK'
  BY <1>1, <1>2, <1>4, OwnerKeep DEF Building
<1>6. LocalOK(p)'
  BY <1>1, <1>2, <1>3, <1>4 DEF LocalOK, Idle, Mapping
<1>7. /\ sz' \in [Proc -> 0 .. MaxPage] /\ sz'[p] = n
      /\ \A q \in Proc \ {p} : sz'[q] = sz[q]
  BY <1>1, <1>2 DEF TypeOK
<1>8. /\ p \in Running /\ p \in Running' /\ VisibleSize(p) = sz[p] /\ VisibleSize(p)' = n
  BY <1>1, <1>4, <1>7 DEF Running, VisibleSize, At
<1>9. \A w \in Page : /\ w < sz[p] => w < n
                      /\ w >= n <=> ~(w < n)
                      /\ ~(w < sz[p]) => sz[p] <= w
  <2>1. n \in Int /\ sz[p] \in Int /\ \A w \in Page : w \in Int
    BY <1>2, Pages DEF TypeOK
  <2>2. sz[p] <= n
    BY <1>1, <1>2 DEF LocalOK
  <2> QED
    BY <2>1, <2>2
<1>10. \A w \in Page : /\ w < sz[p] => contents[p][w] # None
                       /\ sz[p] <= w /\ w < n => contents[p][w] = Zero
  BY <1>1, <1>2, <1>8 DEF LocalOK, MappedOK
<1>11. Zero # None
  BY DEF EagerAssumption
<1>12. MappedOK(p)'
  BY <1>3, <1>8, <1>9, <1>10, <1>11 DEF MappedOK
<1>13. Alone(p, None) /\ MayTouch(p, None) /\ TypeOK' /\ None \notin Proc
  BY <1>1, <1>2, <1>3, <1>4, <1>7 DEF Alone, MayTouch, TypeOK, MemType, EagerAssumption
<1>14. /\ IInv'
       /\ \A q \in Proc \ {p} :
            /\ q \in Running' <=> q \in Running
            /\ \A w \in Page : Seen(q, w)' = Seen(q, w)
  BY <1>3, <1>5, <1>6, <1>12, <1>13, VisibleStep
<1>15. Running' = Running
  BY <1>8, <1>14 DEF Running
<1>16. \A w \in Page :
         Seen(p, w)' = IF w >= n THEN None
                       ELSE IF Seen(p, w) = None THEN Zero ELSE Seen(p, w)
  BY <1>3, <1>8, <1>9, <1>10, <1>11 DEF Seen
<1> QED
  BY <1>8, <1>14, <1>15, <1>16 DEF ResizeSeen

-----------------------------------------------------------------------------
(* The invariant of the specification                                      *)

LEMMA InitInv ==
  ASSUME EagerAssumption, EagerInit
  PROVE  IInv
<1>1. /\ freelist \in SUBSET Frame /\ \A s \in Slot : InitPa[s] \notin freelist
      /\ None \notin Frame /\ InitPa \in [Slot -> Frame \cup {None}]
      /\ InitProc \in Proc /\ InitSz \in 0 .. MaxPage /\ Mem \in Slot /\ Page \subseteq Slot
  BY Slots DEF EagerInit, EagerAssumption
<1>2. /\ elsewhere = Frame \ (freelist \cup {InitPa[s] : s \in Slot})
      /\ mem = [f \in Frame |-> IF f \in freelist THEN Junk ELSE Zero]
      /\ pa = [p \in Proc |-> [s \in Slot |-> IF p = InitProc THEN InitPa[s] ELSE None]]
      /\ sz = [p \in Proc |-> IF p = InitProc THEN InitSz ELSE 0]
      /\ pc = [p \in Proc |-> IF p = InitProc THEN "user" ELSE "unused"]
      /\ loc = [p \in Proc |-> NoLocals]
  BY DEF EagerInit
<1>3. TypeOK
  <2>1. elsewhere \in SUBSET Frame /\ mem \in [Frame -> Content]
    BY <1>2 DEF Content
  <2>2. pa \in [Proc -> [Slot -> Frame \cup {None}]]
    BY <1>1, <1>2
  <2>3. sz \in [Proc -> 0 .. MaxPage]
    BY <1>1, <1>2, Pages
  <2>4. pc \in [Proc -> PcLabel] /\ loc \in [Proc -> Locals]
    BY <1>2, NoLocalsType DEF PcLabel
  <2> QED
    BY <1>1, <2>1, <2>2, <2>3, <2>4 DEF TypeOK
<1>4. OwnerOK
  BY <1>2, NoLocalsType DEF OwnerOK, Building
<1>5. \A p \in Proc, s \in Slot : pa[p][s] = IF p = InitProc THEN InitPa[s] ELSE None
  BY <1>2
<1>6. OwnedOK
  <2>1. \A s, t \in Slot : InitPa[s] # None /\ InitPa[s] = InitPa[t] => s = t
    BY DEF EagerAssumption
  <2>2. \A p, q \in Proc, s, t \in Slot :
          pa[p][s] # None /\ pa[p][s] = pa[q][t] => p = q /\ s = t
    BY <1>5, <2>1
  <2>3. \A p \in Proc, s \in Slot : pa[p][s] \notin freelist \cup elsewhere
    BY <1>1, <1>2, <1>5
  <2>4. \A f \in Frame \ (freelist \cup elsewhere) : \E p \in Proc, s \in Slot : pa[p][s] = f
    BY <1>1, <1>2, <1>5
  <2> QED
    BY <1>2, <2>2, <2>3, <2>4 DEF OwnedOK, OwnedOnce
<1>7. \A p \in Proc : contents[p][Mem] = None
  <2>1. \A p \in Proc : pa[p][Mem] = None
    BY <1>1, <1>5 DEF EagerAssumption
  <2> QED
    BY <1>1, <1>3, <2>1, Contents
<1>8. \A p \in Proc : LocalOK(p)
  BY <1>2, <1>7 DEF LocalOK, Idle, Mapping
<1>9. \A p \in Proc : MappedOK(p)
  <2>1. \A p \in Running : p = InitProc /\ VisibleSize(p) = InitSz
    BY <1>2 DEF Running, VisibleSize, At
  <2>2. \A v \in Page : v < InitSz => contents[InitProc][v] # None
    BY <1>1, <1>3, <1>5, Contents DEF EagerAssumption
  <2> QED
    BY <2>1, <2>2 DEF MappedOK
<1> QED
  BY <1>3, <1>4, <1>6, <1>8, <1>9 DEF IInv

\* A step that a program sees, if it is one.
Visible ==
  \E p \in Proc :
    \/ \E v \in Page, x \in Value : WriteSeen(p, v, x)
    \/ \E c \in Proc : ForkSeen(p, c)
    \/ \E n \in 0 .. MaxPage : ResizeSeen(p, n)
    \/ ExitSeen(p)

LEMMA NextInv ==
  ASSUME EagerAssumption, IInv, EagerNext
  PROVE  IInv' /\ (Quiet \/ Visible)
<1>1. UNCHANGED elsewhere
  BY DEF EagerNext
<1>2. PICK p \in Proc :
        \/ \E v \in Page, x \in Value : Store(p, v, x) \/ Copyout(p, v, x)
        \/ CopyoutPage(p) \/ CopyoutFail(p)
        \/ \E c \in Proc : Fork(p, c) \/ Wait(p, c)
        \/ Allocproc(p) \/ AllocprocFail(p) \/ AllocprocDone(p)
        \/ UvmcopyPage(p) \/ UvmcopyMap(p) \/ UvmcopyNoMem(p) \/ UvmcopyFail(p) \/ UvmcopyErr(p)
        \/ ForkDone(p)
        \/ Exit(p) \/ Freeproc(p) \/ FreeprocDone(p)
        \/ \E n \in 0 .. MaxPage : Grow(p, n) \/ Shrink(p, n)
        \/ UvmallocPage(p) \/ UvmallocMap(p) \/ UvmallocNoMem(p) \/ UvmallocFail(p)
        \/ GrowDone(p) \/ Uvmdealloc(p)
  BY DEF EagerNext
<1>3. CASE \E v \in Page, x \in Value : Store(p, v, x)
  BY <1>1, <1>3, StoreStep DEF Visible
<1>4. CASE \E v \in Page, x \in Value : Copyout(p, v, x)
  BY <1>1, <1>4, CopyoutStep
<1>5. CASE CopyoutPage(p)
  BY <1>1, <1>5, CopyoutPageStep DEF Visible
<1>6. CASE CopyoutFail(p)
  BY <1>1, <1>6, CopyoutFailStep
<1>7. CASE \E c \in Proc : Fork(p, c)
  BY <1>1, <1>7, ForkStep
<1>8. CASE \E c \in Proc : Wait(p, c)
  BY <1>1, <1>8, WaitStep
<1>9. CASE Allocproc(p)
  BY <1>1, <1>9, AllocprocStep
<1>10. CASE AllocprocFail(p)
  BY <1>1, <1>10, AllocprocFailStep
<1>11. CASE AllocprocDone(p)
  BY <1>1, <1>11, AllocprocDoneStep
<1>12. CASE UvmcopyPage(p)
  BY <1>1, <1>12, UvmcopyPageStep
<1>13. CASE UvmcopyMap(p)
  BY <1>1, <1>13, UvmcopyMapStep
<1>14. CASE UvmcopyNoMem(p)
  BY <1>1, <1>14, UvmcopyNoMemStep
<1>15. CASE UvmcopyFail(p)
  BY <1>1, <1>15, UvmcopyFailStep
<1>16. CASE UvmcopyErr(p)
  BY <1>1, <1>16, UvmcopyErrStep
<1>17. CASE ForkDone(p)
  BY <1>1, <1>17, ForkDoneStep DEF Visible
<1>18. CASE Exit(p)
  BY <1>1, <1>18, ExitStep DEF Visible
<1>19. CASE Freeproc(p)
  BY <1>1, <1>19, FreeprocStep
<1>20. CASE FreeprocDone(p)
  BY <1>1, <1>20, FreeprocDoneStep
<1>21. CASE \E n \in 0 .. MaxPage : Grow(p, n)
  BY <1>1, <1>21, GrowStep
<1>22. CASE \E n \in 0 .. MaxPage : Shrink(p, n)
  BY <1>1, <1>22, ShrinkStep DEF Visible
<1>23. CASE UvmallocPage(p)
  BY <1>1, <1>23, UvmallocPageStep
<1>24. CASE UvmallocMap(p)
  BY <1>1, <1>24, UvmallocMapStep
<1>25. CASE UvmallocNoMem(p)
  BY <1>1, <1>25, UvmallocNoMemStep
<1>26. CASE UvmallocFail(p)
  BY <1>1, <1>26, UvmallocFailStep
<1>27. CASE GrowDone(p)
  BY <1>1, <1>27, GrowDoneStep DEF Visible
<1>28. CASE Uvmdealloc(p)
  BY <1>1, <1>28, UvmdeallocStep
<1> QED
  BY <1>2, <1>3, <1>4, <1>5, <1>6, <1>7, <1>8, <1>9, <1>10, <1>11, <1>12, <1>13, <1>14, <1>15,
     <1>16, <1>17, <1>18, <1>19, <1>20, <1>21, <1>22, <1>23, <1>24, <1>25, <1>26, <1>27, <1>28

LEMMA StutterInv ==
  ASSUME IInv, UNCHANGED eagerVars
  PROVE  IInv' /\ Quiet
<1>1. contents' = contents
  BY DEF eagerVars, contents
<1>2. Running' = Running /\ \A p \in Proc : VisibleSize(p)' = VisibleSize(p)
  BY DEF eagerVars, Running, VisibleSize, At
<1>3. TypeOK' /\ OwnerOK' /\ OwnedOK'
  BY DEF IInv, eagerVars, TypeOK, OwnerOK, OwnedOK, OwnedOnce
<1>4. \A p \in Proc : LocalOK(p)' /\ MappedOK(p)'
  BY <1>1, <1>2 DEF IInv, eagerVars, LocalOK, MappedOK
<1> QED
  BY <1>1, <1>2, <1>3, <1>4 DEF IInv, Quiet, Seen

LEMMA Invariance ==
  ASSUME EagerAssumption
  PROVE  EagerSpec => []IInv
<1>1. EagerInit => IInv
  BY InitInv
<1>2. IInv /\ [EagerNext]_eagerVars => IInv'
  BY NextInv, StutterInv
<1> QED
  BY <1>1, <1>2, PTL DEF EagerSpec

\* XV6-1, for every number of processes, pages and frames: each physical page is free or has
\* one owner, after every failure of kalloc() too (kernel/vm.c, uvmcopy() and uvmalloc()).
THEOREM EveryPageOwned == EagerSpec => []OwnedOnce
<1>0. EagerAssumption
  BY EagerConstants
<1>1. IInv => OwnedOnce
  BY DEF IInv, OwnedOK
<1> QED
  BY <1>0, <1>1, Invariance, PTL

-----------------------------------------------------------------------------
(* The kernel implements PrivateMemory                                     *)

\* What the refinement mapping reads is what the slots show.
LEMMA ViewSeen ==
  ASSUME EagerAssumption, IInv, NEW p \in Proc, NEW v \in Page
  PROVE  View(p, v) = Seen(p, v)
<1>1. p \in Running /\ v < VisibleSize(p) => contents[p][v] # None
  BY DEF IInv, MappedOK
<1>2. v \in Slot /\ (contents[p][v] # None => contents[p][v] = mem[pa[p][v]])
  BY Slots, Contents DEF IInv
<1> QED
  BY <1>1, <1>2 DEF View, Seen

view == [p \in Proc |-> [v \in Page |-> View(p, v)]]

SeenView == [p \in Proc |-> [v \in Page |-> Seen(p, v)]]

LEMMA ViewIs ==
  EagerAssumption /\ IInv => view = SeenView
  BY ViewSeen DEF view, SeenView

\* Before a step and after it.
LEMMA ViewsAre ==
  ASSUME EagerAssumption, IInv, IInv'
  PROVE  /\ view = [p \in Proc |-> [v \in Page |-> Seen(p, v)]]
         /\ view' = [p \in Proc |-> [v \in Page |-> Seen(p, v)']]
<1>1. (EagerAssumption /\ IInv => view = SeenView)'
  BY ViewIs, PTL
<1>2. view = SeenView /\ view' = SeenView'
  BY <1>1, ViewIs
<1> QED
  BY <1>2 DEF SeenView

LEMMA PrivateInit ==
  ASSUME EagerAssumption, EagerInit
  PROVE  Private!Init
<1>1. IInv
  BY InitInv
<1>2. /\ pc = [p \in Proc |-> IF p = InitProc THEN "user" ELSE "unused"]
      /\ sz = [p \in Proc |-> IF p = InitProc THEN InitSz ELSE 0]
      /\ mem = [f \in Frame |-> IF f \in freelist THEN Junk ELSE Zero]
      /\ pa = [p \in Proc |-> [s \in Slot |-> IF p = InitProc THEN InitPa[s] ELSE None]]
      /\ \A s \in Slot : InitPa[s] \notin freelist
      /\ InitProc \in Proc
  BY DEF EagerInit, EagerAssumption
<1>3. Running = {InitProc} /\ VisibleSize(InitProc) = InitSz
  BY <1>2 DEF Running, VisibleSize, At
<1>4. \A v \in Page : v < InitSz => View(InitProc, v) = Zero
  <2>1. \A v \in Page : v \in Slot /\ (v < InitSz => InitPa[v] \in Frame)
    BY Slots DEF EagerAssumption
  <2> QED
    BY <1>2, <1>3, <2>1 DEF View
<1>5. \A p \in Proc, v \in Page :
        View(p, v) = IF p = InitProc THEN IF v < InitSz THEN Zero ELSE None ELSE None
  BY <1>3, <1>4 DEF View
<1> QED
  BY <1>3, <1>5 DEF Private!Init, Private!NoMemory, Private!Page, Page, Views

LEMMA PrivateQuiet ==
  ASSUME EagerAssumption, IInv, IInv', Quiet
  PROVE  UNCHANGED <<Running, view>>
  BY ViewsAre DEF Quiet

LEMMA PrivateWrite ==
  ASSUME EagerAssumption, IInv, IInv', NEW p \in Proc, NEW v \in Page, NEW x \in Value,
         WriteSeen(p, v, x)
  PROVE  Private!Write(p, v, x)
<1>1. /\ view = [q \in Proc |-> [w \in Page |-> Seen(q, w)]]
      /\ view' = [q \in Proc |-> [w \in Page |-> Seen(q, w)']]
  BY ViewsAre
<1>2. p \in Running /\ Running' = Running /\ view[p][v] # None
  BY <1>1 DEF WriteSeen
<1>3. \A q \in Proc, w \in Page : Seen(q, w)' = IF q = p /\ w = v THEN x ELSE Seen(q, w)
  BY DEF WriteSeen
<1>4. view' = [view EXCEPT ![p][v] = x]
  BY <1>1, <1>3
<1> QED
  BY <1>2, <1>4 DEF Private!Write, view, Views

LEMMA PrivateFork ==
  ASSUME EagerAssumption, IInv, IInv', NEW p \in Proc, NEW c \in Proc, ForkSeen(p, c)
  PROVE  Private!Fork(p, c)
<1>1. /\ view = [q \in Proc |-> [w \in Page |-> Seen(q, w)]]
      /\ view' = [q \in Proc |-> [w \in Page |-> Seen(q, w)']]
  BY ViewsAre
<1>2. p \in Running /\ c \notin Running /\ Running' = Running \cup {c}
  BY DEF ForkSeen
<1>3. \A q \in Proc, w \in Page : Seen(q, w)' = IF q = c THEN Seen(p, w) ELSE Seen(q, w)
  BY DEF ForkSeen
<1>4. view' = [view EXCEPT ![c] = view[p]]
  BY <1>1, <1>3
<1> QED
  BY <1>2, <1>4 DEF Private!Fork, view, Views

LEMMA PrivateResize ==
  ASSUME EagerAssumption, IInv, IInv', NEW p \in Proc, NEW n \in 0 .. MaxPage,
         ResizeSeen(p, n)
  PROVE  Private!Resize(p, n)
<1> DEFINE resized == [v \in Page |-> CASE v >= n -> None
                                       [] v < n /\ view[p][v] = None -> Zero
                                       [] OTHER -> view[p][v]]
<1>1. /\ view = [q \in Proc |-> [w \in Page |-> Seen(q, w)]]
      /\ view' = [q \in Proc |-> [w \in Page |-> Seen(q, w)']]
  BY ViewsAre
<1>2. p \in Running /\ Running' = Running
  BY DEF ResizeSeen
<1>3. \A w \in Page :
        Seen(p, w)' = IF w >= n THEN None
                      ELSE IF Seen(p, w) = None THEN Zero ELSE Seen(p, w)
  BY DEF ResizeSeen
<1>4. \A q \in Proc \ {p}, w \in Page : Seen(q, w)' = Seen(q, w)
  BY DEF ResizeSeen
<1>5. \A w \in Page : resized[w] = Seen(p, w)'
  <2>1. \A w \in Page : w < n <=> ~(w >= n)
    BY Pages
  <2>2. \A w \in Page : view[p][w] = Seen(p, w)
    BY <1>1
  <2> QED
    BY <1>3, <2>1, <2>2
<1>6. view'[p] = resized
  BY <1>1, <1>5
<1>7. \A q \in Proc \ {p} : view'[q] = view[q]
  BY <1>1, <1>4
<1>8. view' = [view EXCEPT ![p] = resized]
  <2> HIDE DEF resized
  <2> QED
    BY <1>1, <1>6, <1>7
<1> QED
  BY <1>2, <1>8 DEF Private!Resize, Private!Page, Page, view, Views

LEMMA PrivateExit ==
  ASSUME EagerAssumption, IInv, IInv', NEW p \in Proc, ExitSeen(p)
  PROVE  Private!Exit(p)
<1>1. /\ view = [q \in Proc |-> [w \in Page |-> Seen(q, w)]]
      /\ view' = [q \in Proc |-> [w \in Page |-> Seen(q, w)']]
  BY ViewsAre
<1>2. p \in Running /\ Running' = Running \ {p}
  BY DEF ExitSeen
<1>3. \A q \in Proc, w \in Page : Seen(q, w)' = IF q = p THEN None ELSE Seen(q, w)
  BY DEF ExitSeen
<1>4. view' = [view EXCEPT ![p] = [v \in Page |-> None]]
  BY <1>1, <1>3
<1> QED
  BY <1>2, <1>4 DEF Private!Exit, Private!NoMemory, Private!Page, Page, view, Views

LEMMA PrivateStep ==
  ASSUME EagerAssumption, IInv, IInv', Visible
  PROVE  Private!Next
<1>1. PICK p \in Proc :
        \/ \E v \in Page, x \in Value : WriteSeen(p, v, x)
        \/ \E c \in Proc : ForkSeen(p, c)
        \/ \E n \in 0 .. MaxPage : ResizeSeen(p, n)
        \/ ExitSeen(p)
  BY DEF Visible
<1>2. CASE \E v \in Page, x \in Value : WriteSeen(p, v, x)
  BY <1>2, PrivateWrite DEF Private!Next, Private!Page, Page
<1>3. CASE \E c \in Proc : ForkSeen(p, c)
  BY <1>3, PrivateFork DEF Private!Next
<1>4. CASE \E n \in 0 .. MaxPage : ResizeSeen(p, n)
  BY <1>4, PrivateResize DEF Private!Next
<1>5. CASE ExitSeen(p)
  BY <1>5, PrivateExit DEF Private!Next
<1> QED
  BY <1>1, <1>2, <1>3, <1>4, <1>5

\* Each program has a memory of its own, and fork() gives the child a copy of the parent's as
\* it is when fork() returns, for every number of processes, pages and frames and whatever
\* kalloc() fails: EagerMemory implements PrivateMemory (kernel/vm.c, kernel/proc.c of XV6-1).
THEOREM ForkCopies == EagerSpec => EagerPrivate
<1>0. EagerAssumption
  BY EagerConstants
<1>1. EagerInit => Private!Init
  BY <1>0, PrivateInit
<1>2. IInv /\ IInv' /\ [EagerNext]_eagerVars => [Private!Next]_<<Running, view>>
  <2> SUFFICES ASSUME IInv, IInv', [EagerNext]_eagerVars
               PROVE  Private!Next \/ UNCHANGED <<Running, view>>
    OBVIOUS
  <2>1. Quiet \/ Visible
    BY <1>0, NextInv, StutterInv
  <2> QED
    BY <1>0, <2>1, PrivateQuiet, PrivateStep
<1>3. view = Views /\ view' = Views'
  BY DEF view, Views
<1>4. IInv /\ IInv' /\ [EagerNext]_eagerVars
        => [eagerVars' # eagerVars => Private!Next]_<<Running, Views>>
  BY <1>2, <1>3
<1> QED
  BY <1>0, <1>1, <1>4, Invariance, PTL DEF EagerSpec, EagerPrivate

-----------------------------------------------------------------------------
(* Traps: places of the kernel, registers, the invariant                   *)

Insn == 0 .. NINSN - 1

\* Places of the kernel: without interrupts; with the registers of a trap; in a handler.
Masked == {"uservec", "usertrap", "yield", "leaving", "userret",
           "kernelvec", "kernelyield", "restore", "sret"}
Trapping == {"yield", "syscall", "usertrapret", "leaving", "userret"}
Handling == {"kernelyield", "restore", "sret"}
Interruptible == {"loop", "syscall", "usertrapret"}
Place == Masked \cup Trapping \cup {"loop"}

Regs == {Computed(p, n) : p \in Process, n \in Insn}
          \cup {KernelRegs(t) : t \in Thread} \cup {HandlerRegs(t) : t \in Thread}
Pc == {UserPc(n) : n \in Insn} \cup {KernelPc(l) : l \in Place}

HartType == [pc : Pc, regs : Regs, tp : Hart \cup {Null}, satp : Process \cup {"kernel"},
             stvec : {"uservec", "kernelvec"}, sepc : Pc, scause : {"ecall", "timer", "device"},
             sie : BOOLEAN, spie : BOOLEAN, spp : {"U", "S"}]
TfType == [epc : Insn, regs : Regs, hartid : Hart \cup {Null}]
ContextType == [place : Place, regs : Regs, sie : BOOLEAN \cup {Null}]
FrameType == {Null} \cup [regs : Regs, sepc : Pc, spie : BOOLEAN, spp : {"U", "S"}]
LeftType == {Null} \cup [pc : Pc, regs : Regs]

TrapTypeOK ==
  /\ hart \in [Hart -> HartType]
  /\ proc \in [Hart -> Process \cup {Null}]
  /\ tf \in [Process -> TfType]
  /\ context \in [Thread -> ContextType]
  /\ frame \in [Thread -> FrameType]
  /\ user \in [Process -> Insn]
  /\ left \in [Thread -> LeftType]

\* What the trapframe of p holds in the kernel: where its program goes on, once a system
\* call has put its result there.
TrapframeOK(p, place) ==
  /\ tf[p].epc = user[p]
  /\ place # "syscall" => tf[p].regs = Computed(p, user[p])
  /\ place = "syscall" => \E n \in Insn : tf[p].regs = Computed(p, n) /\ After1(n) = user[p]

\* An interrupt has found thread t at place l, and goes back to it with interrupts on.
ResumeOK(t, l) ==
  /\ t \in Hart => l = "loop"
  /\ t \in Process => l \in {"syscall", "usertrapret"} /\ TrapframeOK(t, l)
  /\ left[t] = [pc |-> KernelPc(l), regs |-> KernelRegs(t)]

\* A handler of thread t has all of that on its stack.
HandlerOK(t) ==
  \E l \in Interruptible :
    /\ ResumeOK(t, l)
    /\ frame[t] = [regs |-> KernelRegs(t), sepc |-> KernelPc(l), spie |-> TRUE, spp |-> "S"]

\* n is the instruction that the trap of p has interrupted, or the ecall itself.
Interrupted(h, p, n) ==
  /\ hart[h].sepc = UserPc(n)
  /\ user[p] = IF hart[h].scause = "ecall" THEN After1(n) ELSE n

UserOK(h) ==
  LET r == hart[h]
      t == ThreadOn(h)
  IN  /\ t \in Process /\ r.pc = UserPc(user[t]) /\ r.regs = Computed(t, user[t]) /\ r.satp = t
      /\ r.stvec = "uservec" /\ tf[t].hartid = h

UservecOK(h) ==
  LET r == hart[h]
      t == ThreadOn(h)
  IN  /\ t \in Process /\ r.satp = t /\ r.spp = "U" /\ tf[t].hartid = h
      /\ \E n \in Insn : Interrupted(h, t, n) /\ r.regs = Computed(t, n)

UsertrapOK(h) ==
  LET r == hart[h]
      t == ThreadOn(h)
  IN  /\ t \in Process /\ r.regs = KernelRegs(t)
      /\ \E n \in Insn : Interrupted(h, t, n) /\ tf[t].regs = Computed(t, n)

UserretOK(h) ==
  LET r == hart[h]
      t == ThreadOn(h)
  IN  r.stvec = "uservec" /\ r.spie /\ r.sepc = UserPc(user[t]) /\ tf[t].hartid = h

KernelvecOK(h) ==
  LET r == hart[h]
      t == ThreadOn(h)
  IN  /\ r.spp = "S" /\ r.spie /\ r.regs = KernelRegs(t)
      /\ \E l \in Interruptible : ResumeOK(t, l) /\ r.sepc = KernelPc(l)

HartOK(h) ==
  LET r == hart[h]
      t == ThreadOn(h)
  IN  /\ UserMode(h) => UserOK(h)
      /\ AtPlace(h, "uservec") => UservecOK(h)
      /\ ~UserMode(h) /\ ~AtPlace(h, "uservec") => r.satp = "kernel" /\ r.tp = h
      /\ AtPlace(h, "usertrap") => UsertrapOK(h)
      /\ \A l \in Masked : AtPlace(h, l) => ~r.sie
      /\ AtPlace(h, "syscall") => r.sie
      /\ \A l \in Place \ {"uservec", "usertrap", "userret"} : AtPlace(h, l) => r.stvec = "kernelvec"
      /\ \A l \in Trapping : AtPlace(h, l) => t \in Process /\ r.regs = KernelRegs(t) /\ TrapframeOK(t, l)
      /\ AtPlace(h, "userret") => UserretOK(h)
      /\ AtPlace(h, "loop") => t = h /\ r.regs = KernelRegs(h)
      /\ AtPlace(h, "kernelvec") => KernelvecOK(h)
      /\ \A l \in Handling : AtPlace(h, l) => HandlerOK(t) /\ r.regs = HandlerRegs(t)
      /\ AtPlace(h, "kernelyield") => t \in Process
      /\ AtPlace(h, "sret") => r.sepc = frame[t].sepc /\ r.spie /\ r.spp = "S"

\* A process that no hart runs.
WaitingOK(p) ==
  LET c == context[p]
  IN  /\ c.place \in {"usertrapret", "syscall", "restore"}
      /\ c.place # "restore" => c.regs = KernelRegs(p) /\ TrapframeOK(p, c.place)
      /\ c.place = "syscall" => c.sie = TRUE
      /\ c.place = "restore" => c.regs = HandlerRegs(p) /\ c.sie = FALSE /\ HandlerOK(p)

\* The scheduler of a hart that runs a process.
SchedulerOK(h) == context[h].place = "loop" /\ context[h].regs = KernelRegs(h)

Apart == \A g, h \in Hart : proc[g] = proc[h] /\ proc[g] # Null => g = h

TrapInv ==
  /\ TrapTypeOK /\ Apart
  /\ \A h \in Hart : HartOK(h) /\ (proc[h] # Null => SchedulerOK(h))
  /\ \A p \in Process : p \notin {proc[g] : g \in Hart} => WaitingOK(p)

-----------------------------------------------------------------------------

LEMMA NextInsn ==
  ASSUME TrapAssumption, NEW n \in Insn
  PROVE  After1(n) \in Insn
BY DEF TrapAssumption, Insn, After1

LEMMA Members ==
  ASSUME NEW n \in Insn
  PROVE  /\ UserPc(n) \in Pc
         /\ \A p \in Process : Computed(p, n) \in Regs
         /\ \A t \in Thread : KernelRegs(t) \in Regs /\ HandlerRegs(t) \in Regs
BY DEF Pc, Regs

LEMMA PlacePc ==
  ASSUME NEW l \in Place
  PROVE  KernelPc(l) \in Pc
BY DEF Pc

\* A hart is at one place.
LEMMA OnePlace ==
  ASSUME NEW h \in Hart, NEW l \in Place, hart[h].pc = KernelPc(l)
  PROVE  ~UserMode(h) /\ \A y : AtPlace(h, y) <=> y = l
BY DEF AtPlace, UserMode, KernelPc, Place, Masked, Trapping, Interruptible

LEMMA OnePlaceNext ==
  ASSUME NEW h \in Hart, NEW l \in Place, hart'[h].pc = KernelPc(l)
  PROVE  ~UserMode(h)' /\ \A y : AtPlace(h, y)' <=> y = l
BY DEF AtPlace, UserMode, KernelPc, Place, Masked, Trapping, Interruptible

LEMMA InUserNext ==
  ASSUME NEW h \in Hart, NEW n \in Insn, hart'[h].pc = UserPc(n)
  PROVE  UserMode(h)' /\ \A y \in Place : ~AtPlace(h, y)'
BY DEF AtPlace, UserMode, KernelPc, UserPc, Place, Masked, Trapping, Interruptible

\* A hart is in user code or at a place.
LEMMA SomePlace ==
  ASSUME TrapTypeOK, NEW h \in Hart
  PROVE  UserMode(h) \/ \E l \in Place : AtPlace(h, l)
<1>1. hart[h].pc \in Pc
  BY DEF TrapTypeOK, HartType
<1> QED
  BY <1>1 DEF Pc, UserMode, AtPlace, UserPc

LEMMA RunningThread ==
  ASSUME TrapAssumption, TrapInv
  PROVE  /\ \A h \in Hart : ThreadOn(h) \in Thread /\ (ThreadOn(h) \in Process <=> proc[h] = ThreadOn(h))
         /\ \A h \in Hart : ThreadOn(h) \in Process \/ ThreadOn(h) = h
         /\ \A h \in Hart : proc[h] = Null <=> ThreadOn(h) = h
         /\ \A g, h \in Hart : ThreadOn(g) = ThreadOn(h) => g = h
BY DEF TrapAssumption, TrapInv, TrapTypeOK, Apart, ThreadOn, Thread

\* What a thread has in its trapframe and on its stack is its own.
LEMMA SameThread ==
  ASSUME NEW t \in Thread,
         t \in Process => tf'[t] = tf[t] /\ user'[t] = user[t],
         frame'[t] = frame[t], left'[t] = left[t]
  PROVE  /\ \A l : t \in Process => (TrapframeOK(t, l)' <=> TrapframeOK(t, l))
         /\ \A l : ResumeOK(t, l)' <=> ResumeOK(t, l)
         /\ HandlerOK(t)' <=> HandlerOK(t)
<1>1. \A l : t \in Process => (TrapframeOK(t, l)' <=> TrapframeOK(t, l))
  BY DEF TrapframeOK
<1>2. \A l : ResumeOK(t, l)' <=> ResumeOK(t, l)
  BY <1>1 DEF ResumeOK
<1>3. HandlerOK(t)' <=> HandlerOK(t)
  BY <1>2 DEF HandlerOK
<1> QED
  BY <1>1, <1>2, <1>3

\* A hart that takes no step stays as it was.
LEMMA SameHart ==
  ASSUME TrapAssumption, TrapInv, NEW g \in Hart, hart'[g] = hart[g], proc'[g] = proc[g],
         ThreadOn(g) \in Process
           => tf'[ThreadOn(g)] = tf[ThreadOn(g)] /\ user'[ThreadOn(g)] = user[ThreadOn(g)],
         frame'[ThreadOn(g)] = frame[ThreadOn(g)], left'[ThreadOn(g)] = left[ThreadOn(g)]
  PROVE  HartOK(g)'
<1> DEFINE t == ThreadOn(g)
<1>1. t \in Thread /\ ThreadOn(g)' = t /\ HartOK(g)
  BY RunningThread DEF TrapInv, ThreadOn
<1>2. /\ \A l : t \in Process => (TrapframeOK(t, l)' <=> TrapframeOK(t, l))
      /\ \A l : ResumeOK(t, l)' <=> ResumeOK(t, l)
      /\ HandlerOK(t)' <=> HandlerOK(t)
  BY <1>1, SameThread
<1>3. (UserMode(g)' <=> UserMode(g)) /\ \A l : AtPlace(g, l)' <=> AtPlace(g, l)
  BY DEF UserMode, AtPlace
<1>4. UserMode(g) => UserOK(g)'
  BY <1>1 DEF HartOK, UserOK
<1>5. AtPlace(g, "uservec") => UservecOK(g)'
  <2> SUFFICES ASSUME AtPlace(g, "uservec") PROVE UservecOK(g)'
    OBVIOUS
  <2>1. UservecOK(g)
    BY <1>1 DEF HartOK
  <2> QED
    BY <2>1, <1>1 DEF UservecOK, Interrupted
<1>6. AtPlace(g, "usertrap") => UsertrapOK(g)'
  <2> SUFFICES ASSUME AtPlace(g, "usertrap") PROVE UsertrapOK(g)'
    OBVIOUS
  <2>1. UsertrapOK(g)
    BY <1>1 DEF HartOK
  <2> QED
    BY <2>1, <1>1 DEF UsertrapOK, Interrupted
<1>7. AtPlace(g, "userret") => UserretOK(g)'
  <2> SUFFICES ASSUME AtPlace(g, "userret") PROVE UserretOK(g)'
    OBVIOUS
  <2>1. UserretOK(g) /\ t \in Process
    BY <1>1 DEF HartOK, Trapping
  <2> QED
    BY <2>1, <1>1 DEF UserretOK
<1>8. AtPlace(g, "kernelvec") => KernelvecOK(g)'
  <2> SUFFICES ASSUME AtPlace(g, "kernelvec") PROVE KernelvecOK(g)'
    OBVIOUS
  <2>1. KernelvecOK(g)
    BY <1>1 DEF HartOK
  <2> QED
    BY <2>1, <1>1, <1>2 DEF KernelvecOK
<1>9. \A l \in Trapping : AtPlace(g, l) => t \in Process /\ hart[g].regs = KernelRegs(t) /\ TrapframeOK(t, l)'
  BY <1>1, <1>2 DEF HartOK
<1>10. \A l \in Handling : AtPlace(g, l) => HandlerOK(t)' /\ hart[g].regs = HandlerRegs(t)
  BY <1>1, <1>2 DEF HartOK
<1> HIDE DEF t
<1> QED
  BY <1>1, <1>3, <1>4, <1>5, <1>6, <1>7, <1>8, <1>9, <1>10 DEF HartOK, t

LEMMA SameWaiting ==
  ASSUME NEW p \in Process, context'[p] = context[p], tf'[p] = tf[p], user'[p] = user[p],
         frame'[p] = frame[p], left'[p] = left[p], WaitingOK(p)
  PROVE  WaitingOK(p)'
<1>1. /\ \A l : TrapframeOK(p, l)' <=> TrapframeOK(p, l)
      /\ HandlerOK(p)' <=> HandlerOK(p)
  BY SameThread DEF Thread
<1> QED
  BY <1>1 DEF WaitingOK

\* A step of h that switches to no other thread changes what belongs to h and to the
\* thread it runs.
LEMMA StepKeeps ==
  ASSUME TrapAssumption, TrapInv, NEW h \in Hart, NEW r, Becomes(h, r),
         proc' = proc, context' = context,
         \A p \in Process \ {ThreadOn(h)} : tf'[p] = tf[p] /\ user'[p] = user[p],
         \A t \in Thread \ {ThreadOn(h)} : frame'[t] = frame[t] /\ left'[t] = left[t],
         TrapTypeOK', HartOK(h)'
  PROVE  TrapInv'
<1>1. \A g \in Hart \ {h} : HartOK(g)'
  <2> SUFFICES ASSUME NEW g \in Hart \ {h} PROVE HartOK(g)'
    OBVIOUS
  <2>1. ThreadOn(g) \in Thread /\ ThreadOn(g) # ThreadOn(h)
    BY RunningThread
  <2>2. hart'[g] = hart[g] /\ proc'[g] = proc[g]
    BY DEF Becomes, TrapInv, TrapTypeOK
  <2> QED
    BY <2>1, <2>2, SameHart
<1>2. \A g \in Hart : proc'[g] # Null => SchedulerOK(g)'
  BY DEF TrapInv, SchedulerOK
<1>3. \A p \in Process : p \notin {proc'[g] : g \in Hart} => WaitingOK(p)'
  <2> SUFFICES ASSUME NEW p \in Process, p \notin {proc[g] : g \in Hart} PROVE WaitingOK(p)'
    OBVIOUS
  <2>1. WaitingOK(p) /\ p # ThreadOn(h) /\ p \in Thread
    BY RunningThread DEF TrapInv, Thread
  <2> QED
    BY <2>1, SameWaiting
<1>4. Apart'
  BY DEF TrapInv, Apart
<1> QED
  BY <1>1, <1>2, <1>3, <1>4 DEF TrapInv


LEMMA HartTyped ==
  ASSUME TrapTypeOK, NEW h \in Hart, NEW r \in HartType, Becomes(h, r)
  PROVE  hart' \in [Hart -> HartType] /\ hart'[h] = r
BY DEF TrapTypeOK, Becomes

-----------------------------------------------------------------------------
(* The hardware                                                            *)

LEMMA InstructionKeeps ==
  ASSUME TrapAssumption, TrapInv, NEW h \in Hart, Instruction(h)
  PROVE  TrapInv'
<1> DEFINE p == proc[h]
           n == After1(user[p])
           r == [hart[h] EXCEPT !.pc = UserPc(n), !.regs = Computed(p, n)]
<1>1. TrapTypeOK /\ UserOK(h) /\ ThreadOn(h) = p /\ p \in Process
  BY RunningThread DEF Instruction, TrapInv, HartOK, UserOK
<1>2. user[p] \in Insn /\ n \in Insn
  BY <1>1, NextInsn DEF TrapTypeOK
<1>3. Becomes(h, r) /\ user' = [user EXCEPT ![p] = n]
  BY <1>1 DEF Instruction, UserOK, UserPc, Computed
<1>4. r \in HartType
  BY <1>1, <1>2, Members DEF TrapTypeOK, HartType
<1>5. hart' \in [Hart -> HartType] /\ hart'[h] = r
  BY <1>1, <1>3, <1>4, HartTyped
<1>6. TrapTypeOK'
  BY <1>1, <1>2, <1>3, <1>5 DEF TrapTypeOK, Instruction
<1>7. HartOK(h)'
  <2>1. /\ hart'[h].pc = UserPc(n) /\ hart'[h].regs = Computed(p, n) /\ user'[p] = n
        /\ hart'[h].satp = p /\ hart'[h].stvec = "uservec" /\ tf'[p].hartid = h
        /\ ThreadOn(h)' = p
    BY <1>1, <1>3, <1>5 DEF TrapTypeOK, HartType, UserOK, Instruction, ThreadOn
  <2>2. UserMode(h)' /\ \A y \in Place : ~AtPlace(h, y)'
    BY <1>2, <2>1, InUserNext
  <2>3. UserOK(h)'
    BY <1>1, <2>1 DEF UserOK
  <2> QED
    BY <2>2, <2>3 DEF HartOK, Place, Masked, Trapping, Handling, Interruptible
<1> QED
  BY <1>1, <1>3, <1>6, <1>7, StepKeeps DEF Instruction, TrapTypeOK

LEMMA UserTrapKeeps ==
  ASSUME TrapAssumption, TrapInv, NEW h \in Hart, UserTrap(h)
  PROVE  TrapInv'
<1> DEFINE p == proc[h]
           n == user[p]
<1>1. TrapTypeOK /\ UserOK(h) /\ ThreadOn(h) = p /\ p \in Process /\ n \in Insn /\ UserMode(h)
  BY RunningThread DEF UserTrap, TrapInv, HartOK, UserOK, TrapTypeOK
<1>2. PICK cause \in {"ecall", "timer", "device"} :
        /\ Becomes(h, TakesTrap(h, cause))
        /\ user' = IF cause = "ecall" THEN [user EXCEPT ![p] = After1(@)] ELSE user
  BY DEF UserTrap
<1> DEFINE r == [hart[h] EXCEPT !.sepc = UserPc(n), !.scause = cause, !.spie = hart[h].sie,
                                !.sie = FALSE, !.spp = "U", !.pc = KernelPc("uservec")]
<1>3. Becomes(h, r)
  BY <1>1, <1>2 DEF TakesTrap, UserOK
<1>4. r \in HartType
  <2>1. UserPc(n) \in Pc /\ KernelPc("uservec") \in Pc
    BY <1>1, Members, PlacePc DEF Place, Masked
  <2>2. hart[h] \in HartType
    BY <1>1 DEF TrapTypeOK
  <2> QED
    BY <2>1, <2>2 DEF HartType
<1>5. hart' \in [Hart -> HartType] /\ hart'[h] = r
  BY <1>1, <1>3, <1>4, HartTyped
<1>6. user' \in [Process -> Insn] /\ user'[p] = (IF cause = "ecall" THEN After1(n) ELSE n)
  BY <1>1, <1>2, NextInsn DEF TrapTypeOK
<1>7. TrapTypeOK'
  BY <1>1, <1>5, <1>6 DEF TrapTypeOK, UserTrap
<1>8. HartOK(h)'
  <2>1. /\ hart'[h].pc = KernelPc("uservec") /\ hart'[h].regs = Computed(p, n)
        /\ hart'[h].satp = p /\ hart'[h].spp = "U" /\ hart'[h].sepc = UserPc(n)
        /\ hart'[h].scause = cause /\ hart'[h].sie = FALSE /\ tf'[p].hartid = h
        /\ ThreadOn(h)' = p
    BY <1>1, <1>5 DEF TrapTypeOK, HartType, UserOK, UserTrap, ThreadOn
  <2>2. ~UserMode(h)' /\ \A y : AtPlace(h, y)' <=> y = "uservec"
    BY <2>1, OnePlaceNext DEF Place, Masked
  <2>3. UservecOK(h)'
    BY <1>1, <1>6, <2>1 DEF UservecOK, Interrupted
  <2> QED
    BY <2>1, <2>2, <2>3 DEF HartOK, Trapping, Handling
<1> QED
  BY <1>1, <1>2, <1>3, <1>7, <1>8, StepKeeps DEF UserTrap, TrapTypeOK

LEMMA InterruptKeeps ==
  ASSUME TrapAssumption, TrapInv, NEW h \in Hart, Interrupt(h)
  PROVE  TrapInv'
<1>0. PICK t \in Thread : t = ThreadOn(h)
  BY RunningThread
<1>1. TrapTypeOK /\ HartOK(h) /\ ~UserMode(h) /\ hart[h].sie
  BY DEF Interrupt, TrapInv
<1>2. PICK cause \in {"timer", "device"} : Becomes(h, TakesTrap(h, cause))
  BY DEF Interrupt
<1>3. PICK l \in Interruptible : AtPlace(h, l)
  <2>1. PICK l \in Place : AtPlace(h, l)
    BY <1>1, SomePlace
  <2>2. l \notin Masked
    BY <1>1, <2>1 DEF HartOK
  <2> QED
    BY <2>1, <2>2 DEF Place, Masked, Trapping, Interruptible
<1>4. l \in Place /\ \A y : AtPlace(h, y) <=> y = l
  BY <1>3, OnePlace DEF AtPlace, Place, Interruptible, Trapping
<1>5. /\ hart[h].satp = "kernel" /\ hart[h].tp = h /\ hart[h].stvec = "kernelvec"
      /\ hart[h].regs = KernelRegs(t) /\ hart[h].pc = KernelPc(l)
      /\ t \in Hart => l = "loop"
      /\ t \in Process => l # "loop" /\ TrapframeOK(t, l)
  BY <1>0, <1>1, <1>3, <1>4, RunningThread DEF HartOK, AtPlace, Interruptible, Trapping, TrapAssumption
<1> DEFINE r == [hart[h] EXCEPT !.sepc = KernelPc(l), !.scause = cause, !.spie = hart[h].sie,
                                !.sie = FALSE, !.spp = "S", !.pc = KernelPc("kernelvec")]
<1>6. Becomes(h, r)
  BY <1>1, <1>2, <1>5 DEF TakesTrap
<1>7. r \in HartType
  <2>1. KernelPc(l) \in Pc /\ KernelPc("kernelvec") \in Pc
    BY <1>4, PlacePc DEF Place, Masked
  <2> QED
    BY <1>1, <2>1 DEF TrapTypeOK, HartType
<1>8. hart' \in [Hart -> HartType] /\ hart'[h] = r
  BY <1>1, <1>6, <1>7, HartTyped
<1>9. /\ left' \in [Thread -> LeftType]
      /\ left'[t] = [pc |-> KernelPc(l), regs |-> KernelRegs(t)]
  BY <1>0, <1>1, <1>4, <1>5 DEF Interrupt, TrapTypeOK, LeftType, HartType
<1>10. TrapTypeOK'
  BY <1>1, <1>8, <1>9 DEF TrapTypeOK, Interrupt
<1>11. HartOK(h)'
  <2>1. /\ hart'[h].pc = KernelPc("kernelvec") /\ hart'[h].regs = KernelRegs(t)
        /\ hart'[h].satp = "kernel" /\ hart'[h].tp = h /\ hart'[h].stvec = "kernelvec"
        /\ hart'[h].spp = "S" /\ hart'[h].spie /\ hart'[h].sepc = KernelPc(l)
        /\ hart'[h].sie = FALSE /\ ThreadOn(h)' = t
    BY <1>0, <1>1, <1>5, <1>8 DEF TrapTypeOK, HartType, Interrupt, ThreadOn
  <2>2. ~UserMode(h)' /\ \A y : AtPlace(h, y)' <=> y = "kernelvec"
    BY <2>1, OnePlaceNext DEF Place, Masked
  <2>3. ResumeOK(t, l)'
    BY <1>3, <1>5, <1>9 DEF ResumeOK, TrapframeOK, Interrupt, Interruptible
  <2>4. KernelvecOK(h)'
    BY <1>3, <2>1, <2>3 DEF KernelvecOK
  <2> QED
    BY <2>1, <2>2, <2>4 DEF HartOK, Trapping, Handling
<1> QED
  BY <1>0, <1>1, <1>6, <1>10, <1>11, StepKeeps DEF Interrupt, TrapTypeOK

-----------------------------------------------------------------------------
(* From user code and back                                                 *)

LEMMA UservecKeeps ==
  ASSUME TrapAssumption, TrapInv, NEW h \in Hart, Uservec(h)
  PROVE  TrapInv'
<1>1. TrapTypeOK /\ HartOK(h) /\ UservecOK(h) /\ hart[h].sie = FALSE
  BY DEF Uservec, TrapInv, HartOK, Masked, TrapTypeOK, HartType
<1>2. PICK p \in Process : p = ThreadOn(h) /\ p = proc[h]
  BY <1>1, RunningThread DEF UservecOK
<1>3. PICK n \in Insn : Interrupted(h, p, n) /\ hart[h].regs = Computed(p, n)
  BY <1>1, <1>2 DEF UservecOK
<1>4. hart[h].satp = p /\ tf[p].hartid = h
  BY <1>1, <1>2 DEF UservecOK
<1> DEFINE r == [hart[h] EXCEPT !.pc = KernelPc("usertrap"), !.regs = KernelRegs(p),
                                !.tp = h, !.satp = "kernel"]
<1>5. Becomes(h, r) /\ tf' = [tf EXCEPT ![p].regs = Computed(p, n)]
  BY <1>3, <1>4 DEF Uservec
<1>6. r \in HartType
  <2>1. KernelRegs(p) \in Regs /\ KernelPc("usertrap") \in Pc /\ hart[h] \in HartType
    BY <1>1, <1>3, Members, PlacePc DEF Place, Masked, TrapTypeOK, Thread
  <2> QED
    BY <2>1 DEF HartType
<1>7. hart' \in [Hart -> HartType] /\ hart'[h] = r
  BY <1>1, <1>5, <1>6, HartTyped
<1>8. tf' \in [Process -> TfType] /\ tf'[p].regs = Computed(p, n)
  <2>1. Computed(p, n) \in Regs
    BY <1>3, Members
  <2> QED
    BY <1>1, <1>5, <2>1 DEF TrapTypeOK, TfType
<1>9. TrapTypeOK'
  BY <1>1, <1>7, <1>8 DEF TrapTypeOK, Uservec
<1>10. HartOK(h)'
  <2>1. /\ hart'[h].pc = KernelPc("usertrap") /\ hart'[h].regs = KernelRegs(p)
        /\ hart'[h].satp = "kernel" /\ hart'[h].tp = h
        /\ hart'[h].sepc = hart[h].sepc /\ hart'[h].scause = hart[h].scause
        /\ hart'[h].sie = FALSE /\ ThreadOn(h)' = p
    BY <1>1, <1>2, <1>7 DEF TrapTypeOK, HartType, Uservec, ThreadOn
  <2>2. ~UserMode(h)' /\ \A y : AtPlace(h, y)' <=> y = "usertrap"
    BY <2>1, OnePlaceNext DEF Place, Masked
  <2>3. UsertrapOK(h)'
    BY <1>3, <1>8, <2>1 DEF UsertrapOK, Interrupted, Uservec
  <2> QED
    BY <2>1, <2>2, <2>3 DEF HartOK, Trapping, Handling
<1> QED
  BY <1>1, <1>2, <1>5, <1>9, <1>10, StepKeeps DEF Uservec, TrapTypeOK

\* In the handler of a trap from user code hart h runs the process that mycpu() says.
LEMMA TrappingFacts ==
  ASSUME TrapAssumption, TrapInv, NEW h \in Hart, NEW l \in Trapping, AtPlace(h, l)
  PROVE  /\ proc[h] \in Process /\ proc[h] = ThreadOn(h) /\ Myproc(h) = proc[h]
         /\ hart[h].satp = "kernel" /\ hart[h].tp = h /\ hart[h].regs = KernelRegs(proc[h])
         /\ TrapframeOK(proc[h], l) /\ hart[h] \in HartType
         /\ l # "userret" => hart[h].stvec = "kernelvec"
<1>1. HartOK(h) /\ TrapTypeOK
  BY DEF TrapInv
<1>2. ~UserMode(h) /\ ~AtPlace(h, "uservec")
  BY OnePlace DEF AtPlace, Place, Masked, Trapping
<1>3. ThreadOn(h) \in Process /\ TrapframeOK(ThreadOn(h), l) /\ hart[h].regs = KernelRegs(ThreadOn(h))
  BY <1>1 DEF HartOK
<1>4. l \in Place /\ l \notin {"uservec", "usertrap"}
  BY DEF Place, Trapping
<1> QED
  BY <1>1, <1>2, <1>3, <1>4, RunningThread DEF HartOK, Myproc, TrapTypeOK

LEMMA UsertrapKeeps ==
  ASSUME TrapAssumption, TrapInv, NEW h \in Hart, Usertrap(h)
  PROVE  TrapInv'
<1>1. TrapTypeOK /\ HartOK(h) /\ UsertrapOK(h) /\ hart[h].satp = "kernel" /\ hart[h].tp = h
  <2>1. AtPlace(h, "usertrap") /\ ~UserMode(h) /\ ~AtPlace(h, "uservec")
    BY OnePlace DEF Usertrap, AtPlace, Place, Masked
  <2> QED
    BY <2>1 DEF TrapInv, HartOK
<1>2. PICK p \in Process : p = ThreadOn(h) /\ p = proc[h] /\ p = Myproc(h)
  BY <1>1, RunningThread DEF UsertrapOK, Myproc
<1>3. PICK n \in Insn : Interrupted(h, p, n) /\ tf[p].regs = Computed(p, n)
  BY <1>1, <1>2 DEF UsertrapOK
<1>4. hart[h].regs = KernelRegs(p) /\ hart[h].sepc[2] = n
  BY <1>1, <1>2, <1>3 DEF UsertrapOK, Interrupted, UserPc
<1>5. PICK l \in {"syscall", "yield", "usertrapret"} :
        /\ l = "syscall" <=> hart[h].scause = "ecall"
        /\ Becomes(h, [hart[h] EXCEPT !.pc = KernelPc(l), !.stvec = "kernelvec",
                                      !.sie = (hart[h].scause = "ecall")])
  BY DEF Usertrap
<1> DEFINE r == [hart[h] EXCEPT !.pc = KernelPc(l), !.stvec = "kernelvec",
                                !.sie = (hart[h].scause = "ecall")]
<1>6. r \in HartType
  <2>1. KernelPc(l) \in Pc /\ hart[h] \in HartType
    BY <1>1, PlacePc DEF Place, Trapping, TrapTypeOK
  <2> QED
    BY <2>1 DEF HartType
<1>7. hart' \in [Hart -> HartType] /\ hart'[h] = r
  BY <1>1, <1>5, <1>6, HartTyped
<1>8. tf' = [tf EXCEPT ![p].epc = user[p]]
  BY <1>2, <1>3, <1>4 DEF Usertrap, Interrupted
<1>9. tf' \in [Process -> TfType] /\ tf'[p].epc = user[p] /\ tf'[p].regs = Computed(p, n)
  BY <1>1, <1>3, <1>8 DEF TrapTypeOK, TfType
<1>10. TrapTypeOK'
  BY <1>1, <1>7, <1>9 DEF TrapTypeOK, Usertrap
<1>11. HartOK(h)'
  <2>1. /\ hart'[h].pc = KernelPc(l) /\ hart'[h].regs = KernelRegs(p)
        /\ hart'[h].satp = "kernel" /\ hart'[h].tp = h /\ hart'[h].stvec = "kernelvec"
        /\ hart'[h].sie <=> l = "syscall"
        /\ ThreadOn(h)' = p
    BY <1>1, <1>2, <1>4, <1>5, <1>7 DEF TrapTypeOK, HartType, Usertrap, ThreadOn
  <2>2. ~UserMode(h)' /\ \A y : AtPlace(h, y)' <=> y = l
    BY <2>1, OnePlaceNext DEF Place, Trapping
  <2>3. TrapframeOK(p, l)'
    BY <1>3, <1>5, <1>9 DEF TrapframeOK, Interrupted, Usertrap
  <2> QED
    BY <2>1, <2>2, <2>3 DEF HartOK, Masked, Trapping, Handling
<1> QED
  BY <1>1, <1>2, <1>5, <1>8, <1>10, <1>11, StepKeeps DEF Usertrap, TrapTypeOK

LEMMA SyscallKeeps ==
  ASSUME TrapAssumption, TrapInv, NEW h \in Hart, Syscall(h)
  PROVE  TrapInv'
<1>1. TrapTypeOK
  BY DEF TrapInv
<1>2. PICK p \in Process : p = ThreadOn(h) /\ p = proc[h] /\ p = Myproc(h)
  BY TrappingFacts DEF Syscall, Trapping
<1>3. /\ hart[h].satp = "kernel" /\ hart[h].tp = h /\ hart[h].regs = KernelRegs(p)
      /\ TrapframeOK(p, "syscall") /\ hart[h] \in HartType /\ hart[h].stvec = "kernelvec"
  BY <1>2, TrappingFacts DEF Syscall, Trapping
<1>4. tf' = [tf EXCEPT ![p].regs = Computed(p, user[p])]
  <2>1. PICK n \in Insn : tf[p].regs = Computed(p, n) /\ After1(n) = user[p]
    BY <1>3 DEF TrapframeOK
  <2>2. tf[p].regs[1] = p /\ tf[p].regs[3] = n
    BY <2>1 DEF Computed
  <2>3. tf' = [tf EXCEPT ![p].regs = Computed(tf[p].regs[1], After1(tf[p].regs[3]))]
    BY <1>2 DEF Syscall
  <2> QED
    BY <2>1, <2>2, <2>3
<1> DEFINE r == [hart[h] EXCEPT !.pc = KernelPc("usertrapret")]
<1>5. Becomes(h, r)
  BY DEF Syscall, Goes
<1>6. r \in HartType
  BY <1>3, PlacePc DEF HartType, Place, Trapping
<1>7. hart' \in [Hart -> HartType] /\ hart'[h] = r
  BY <1>1, <1>5, <1>6, HartTyped
<1>8. tf' \in [Process -> TfType] /\ tf'[p].epc = tf[p].epc /\ tf'[p].regs = Computed(p, user[p])
  <2>1. Computed(p, user[p]) \in Regs
    BY <1>1, Members DEF TrapTypeOK
  <2> QED
    BY <1>1, <1>4, <2>1 DEF TrapTypeOK, TfType
<1>9. TrapTypeOK'
  BY <1>1, <1>7, <1>8 DEF TrapTypeOK, Syscall
<1>10. HartOK(h)'
  <2>1. /\ hart'[h].pc = KernelPc("usertrapret") /\ hart'[h].regs = KernelRegs(p)
        /\ hart'[h].satp = "kernel" /\ hart'[h].tp = h /\ hart'[h].stvec = "kernelvec"
        /\ ThreadOn(h)' = p
    BY <1>2, <1>3, <1>7 DEF HartType, Syscall, ThreadOn
  <2>2. ~UserMode(h)' /\ \A y : AtPlace(h, y)' <=> y = "usertrapret"
    BY <2>1, OnePlaceNext DEF Place, Trapping
  <2>3. TrapframeOK(p, "usertrapret")'
    BY <1>3, <1>8 DEF TrapframeOK, Syscall
  <2> QED
    BY <2>1, <2>2, <2>3 DEF HartOK, Masked, Trapping, Handling
<1> QED
  BY <1>1, <1>2, <1>4, <1>5, <1>9, <1>10, StepKeeps DEF Syscall, TrapTypeOK

LEMMA UsertrapretKeeps ==
  ASSUME TrapAssumption, TrapInv, NEW h \in Hart, Usertrapret(h)
  PROVE  TrapInv'
<1>1. TrapTypeOK
  BY DEF TrapInv
<1>2. PICK p \in Process : p = ThreadOn(h) /\ p = proc[h]
  BY TrappingFacts DEF Usertrapret, Trapping
<1>3. /\ hart[h].satp = "kernel" /\ hart[h].tp = h /\ hart[h].regs = KernelRegs(p)
      /\ TrapframeOK(p, "usertrapret") /\ hart[h] \in HartType /\ hart[h].stvec = "kernelvec"
  BY <1>2, TrappingFacts DEF Usertrapret, Trapping
<1> DEFINE r == [hart[h] EXCEPT !.pc = KernelPc("leaving"), !.sie = FALSE]
<1>4. Becomes(h, r)
  BY DEF Usertrapret
<1>5. r \in HartType
  BY <1>3, PlacePc DEF HartType, Place, Masked
<1>6. hart' \in [Hart -> HartType] /\ hart'[h] = r
  BY <1>1, <1>4, <1>5, HartTyped
<1>7. TrapTypeOK'
  BY <1>1, <1>6 DEF TrapTypeOK, Usertrapret
<1>8. HartOK(h)'
  <2>1. /\ hart'[h].pc = KernelPc("leaving") /\ hart'[h].regs = KernelRegs(p)
        /\ hart'[h].satp = "kernel" /\ hart'[h].tp = h /\ hart'[h].stvec = "kernelvec"
        /\ hart'[h].sie = FALSE /\ ThreadOn(h)' = p
    BY <1>2, <1>3, <1>6 DEF HartType, Usertrapret, ThreadOn
  <2>2. ~UserMode(h)' /\ \A y : AtPlace(h, y)' <=> y = "leaving"
    BY <2>1, OnePlaceNext DEF Place, Masked
  <2>3. TrapframeOK(p, "leaving")'
    BY <1>3 DEF TrapframeOK, Usertrapret
  <2> QED
    BY <2>1, <2>2, <2>3 DEF HartOK, Trapping, Handling
<1> QED
  BY <1>4, <1>7, <1>8, StepKeeps DEF Usertrapret

LEMMA LeavingKeeps ==
  ASSUME TrapAssumption, TrapInv, NEW h \in Hart, Leaving(h)
  PROVE  TrapInv'
<1>1. TrapTypeOK /\ hart[h].sie = FALSE
  BY DEF Leaving, TrapInv, HartOK, Masked, TrapTypeOK, HartType
<1>2. PICK p \in Process : p = ThreadOn(h) /\ p = proc[h] /\ p = Myproc(h)
  BY TrappingFacts DEF Leaving, Trapping
<1>3. /\ hart[h].satp = "kernel" /\ hart[h].tp = h /\ hart[h].regs = KernelRegs(p)
      /\ TrapframeOK(p, "leaving") /\ hart[h] \in HartType
  BY <1>2, TrappingFacts DEF Leaving, Trapping
<1> DEFINE r == [hart[h] EXCEPT !.pc = KernelPc("userret"), !.stvec = "uservec", !.spp = "U",
                                !.spie = TRUE, !.sepc = UserPc(user[p])]
<1>4. Becomes(h, r) /\ tf' = [tf EXCEPT ![p].hartid = h]
  BY <1>2, <1>3 DEF Leaving, TrapframeOK
<1>5. r \in HartType
  <2>1. UserPc(user[p]) \in Pc /\ KernelPc("userret") \in Pc
    BY <1>1, Members, PlacePc DEF TrapTypeOK, Place, Masked
  <2> QED
    BY <1>3, <2>1 DEF HartType
<1>6. hart' \in [Hart -> HartType] /\ hart'[h] = r
  BY <1>1, <1>4, <1>5, HartTyped
<1>7. /\ tf' \in [Process -> TfType] /\ tf'[p].epc = tf[p].epc /\ tf'[p].regs = tf[p].regs
      /\ tf'[p].hartid = h
  BY <1>1, <1>4 DEF TrapTypeOK, TfType
<1>8. TrapTypeOK'
  BY <1>1, <1>6, <1>7 DEF TrapTypeOK, Leaving
<1>9. HartOK(h)'
  <2>1. /\ hart'[h].pc = KernelPc("userret") /\ hart'[h].regs = KernelRegs(p)
        /\ hart'[h].satp = "kernel" /\ hart'[h].tp = h /\ hart'[h].stvec = "uservec"
        /\ hart'[h].spie /\ hart'[h].sepc = UserPc(user[p])
        /\ hart'[h].sie = FALSE /\ ThreadOn(h)' = p
    BY <1>1, <1>2, <1>3, <1>6 DEF HartType, Leaving, ThreadOn
  <2>2. ~UserMode(h)' /\ \A y : AtPlace(h, y)' <=> y = "userret"
    BY <2>1, OnePlaceNext DEF Place, Masked
  <2>3. TrapframeOK(p, "userret")' /\ user'[p] = user[p]
    BY <1>3, <1>7 DEF TrapframeOK, Leaving
  <2>4. UserretOK(h)'
    BY <1>7, <2>1, <2>3 DEF UserretOK
  <2> QED
    BY <2>1, <2>2, <2>3, <2>4 DEF HartOK, Trapping, Handling
<1> QED
  BY <1>1, <1>2, <1>4, <1>8, <1>9, StepKeeps DEF Leaving, TrapTypeOK

LEMMA UserretKeeps ==
  ASSUME TrapAssumption, TrapInv, NEW h \in Hart, Userret(h)
  PROVE  TrapInv'
<1>1. TrapTypeOK /\ UserretOK(h)
  BY DEF Userret, TrapInv, HartOK
<1>2. PICK p \in Process : p = ThreadOn(h) /\ p = proc[h]
  BY TrappingFacts DEF Userret, Trapping
<1>3. TrapframeOK(p, "userret") /\ hart[h] \in HartType
  BY <1>2, TrappingFacts DEF Userret, Trapping
<1>4. /\ hart[h].stvec = "uservec" /\ hart[h].spie /\ hart[h].sepc = UserPc(user[p])
      /\ tf[p].hartid = h /\ tf[p].regs = Computed(p, user[p])
  BY <1>1, <1>2, <1>3 DEF UserretOK, TrapframeOK
<1> DEFINE r == [hart[h] EXCEPT !.pc = UserPc(user[p]), !.regs = Computed(p, user[p]), !.tp = Null,
                                !.satp = p, !.sie = hart[h].spie]
<1>5. Becomes(h, r)
  BY <1>2, <1>4 DEF Userret
<1>6. user[p] \in Insn
  BY <1>1 DEF TrapTypeOK
<1>7. r \in HartType
  <2>1. UserPc(user[p]) \in Pc /\ Computed(p, user[p]) \in Regs
    BY <1>6, Members
  <2> QED
    BY <1>3, <2>1 DEF HartType
<1>8. hart' \in [Hart -> HartType] /\ hart'[h] = r
  BY <1>1, <1>5, <1>7, HartTyped
<1>9. TrapTypeOK'
  BY <1>1, <1>8 DEF TrapTypeOK, Userret
<1>10. HartOK(h)'
  <2>1. /\ hart'[h].pc = UserPc(user[p]) /\ hart'[h].regs = Computed(p, user[p])
        /\ hart'[h].satp = p /\ hart'[h].stvec = "uservec" /\ tf'[p].hartid = h
        /\ user'[p] = user[p] /\ ThreadOn(h)' = p
    BY <1>2, <1>3, <1>4, <1>8 DEF HartType, Userret, ThreadOn
  <2>2. UserMode(h)' /\ \A y \in Place : ~AtPlace(h, y)'
    BY <1>6, <2>1, InUserNext
  <2>3. UserOK(h)'
    BY <2>1 DEF UserOK
  <2> QED
    BY <2>2, <2>3 DEF HartOK, Place, Masked, Trapping, Handling, Interruptible
<1> QED
  BY <1>5, <1>9, <1>10, StepKeeps DEF Userret

-----------------------------------------------------------------------------
(* From the kernel and back                                                *)

LEMMA KernelvecKeeps ==
  ASSUME TrapAssumption, TrapInv, NEW h \in Hart, Kernelvec(h)
  PROVE  TrapInv'
<1>1. TrapTypeOK /\ KernelvecOK(h) /\ hart[h] \in HartType
  BY DEF Kernelvec, TrapInv, HartOK, TrapTypeOK
<1>2. hart[h].satp = "kernel" /\ hart[h].tp = h /\ hart[h].stvec = "kernelvec" /\ hart[h].sie = FALSE
  <2>1. AtPlace(h, "kernelvec") /\ ~UserMode(h) /\ ~AtPlace(h, "uservec")
    BY OnePlace DEF Kernelvec, AtPlace, Place, Masked
  <2> QED
    BY <1>1, <2>1 DEF TrapInv, HartOK, Place, Masked, HartType
<1>3. PICK t \in Thread : t = ThreadOn(h) /\ (proc[h] # Null => t \in Process)
  BY RunningThread
<1>4. PICK l \in Interruptible : ResumeOK(t, l) /\ hart[h].sepc = KernelPc(l)
  BY <1>1, <1>3 DEF KernelvecOK
<1>5. hart[h].spp = "S" /\ hart[h].spie = TRUE /\ hart[h].regs = KernelRegs(t)
  BY <1>1, <1>3 DEF KernelvecOK, HartType
<1>6. PICK y \in {"kernelyield", "restore"} :
        /\ y = "kernelyield" => proc[h] # Null
        /\ Becomes(h, [hart[h] EXCEPT !.pc = KernelPc(y), !.regs = HandlerRegs(t)])
  BY <1>2, <1>3 DEF Kernelvec, Myproc
<1> DEFINE r == [hart[h] EXCEPT !.pc = KernelPc(y), !.regs = HandlerRegs(t)]
           f == [regs |-> KernelRegs(t), sepc |-> KernelPc(l), spie |-> TRUE, spp |-> "S"]
<1>7. frame' = [frame EXCEPT ![t] = f]
  BY <1>3, <1>4, <1>5 DEF Kernelvec
<1>8. r \in HartType /\ f \in FrameType
  <2>1. KernelPc(y) \in Pc /\ KernelPc(l) \in Pc
    BY PlacePc DEF Place, Masked, Trapping, Interruptible
  <2>2. HandlerRegs(t) \in Regs /\ KernelRegs(t) \in Regs
    BY DEF Regs
  <2> QED
    BY <1>1, <2>1, <2>2 DEF HartType, FrameType
<1>9. hart' \in [Hart -> HartType] /\ hart'[h] = r
  BY <1>1, <1>6, <1>8, HartTyped
<1>10. frame' \in [Thread -> FrameType] /\ frame'[t] = f
  BY <1>1, <1>7, <1>8 DEF TrapTypeOK
<1>11. TrapTypeOK'
  BY <1>1, <1>9, <1>10 DEF TrapTypeOK, Kernelvec
<1>12. HartOK(h)'
  <2>1. /\ hart'[h].pc = KernelPc(y) /\ hart'[h].regs = HandlerRegs(t)
        /\ hart'[h].satp = "kernel" /\ hart'[h].tp = h /\ hart'[h].stvec = "kernelvec"
        /\ hart'[h].sie = FALSE /\ ThreadOn(h)' = t
    BY <1>1, <1>2, <1>3, <1>9 DEF HartType, Kernelvec, ThreadOn
  <2>2. ~UserMode(h)' /\ \A z : AtPlace(h, z)' <=> z = y
    BY <2>1, OnePlaceNext DEF Place, Masked
  <2>3. HandlerOK(t)'
    <3>1. ResumeOK(t, l)'
      BY <1>4 DEF ResumeOK, TrapframeOK, Kernelvec
    <3> QED
      BY <1>10, <3>1 DEF HandlerOK
  <2> QED
    BY <1>3, <1>6, <2>1, <2>2, <2>3 DEF HartOK, Masked, Trapping, Handling
<1> QED
  BY <1>1, <1>3, <1>6, <1>7, <1>11, <1>12, StepKeeps DEF Kernelvec, TrapTypeOK

\* In kerneltrap() hart h has on its stack what it is to go back to.
LEMMA HandlingFacts ==
  ASSUME TrapAssumption, TrapInv, NEW h \in Hart, NEW l \in Handling, AtPlace(h, l)
  PROVE  /\ HandlerOK(ThreadOn(h)) /\ hart[h].regs = HandlerRegs(ThreadOn(h))
         /\ hart[h].satp = "kernel" /\ hart[h].tp = h /\ hart[h].stvec = "kernelvec"
         /\ hart[h].sie = FALSE /\ hart[h] \in HartType
<1>1. HartOK(h) /\ TrapTypeOK
  BY DEF TrapInv
<1>2. l \in Place /\ l \in Masked /\ l \notin {"uservec", "usertrap", "userret"}
  BY DEF Place, Masked, Handling
<1>3. ~UserMode(h) /\ ~AtPlace(h, "uservec")
  BY <1>2, OnePlace DEF AtPlace
<1>4. hart[h].sie \in BOOLEAN /\ hart[h] \in HartType
  BY <1>1 DEF TrapTypeOK, HartType
<1> QED
  BY <1>1, <1>2, <1>3, <1>4 DEF HartOK

LEMMA RestoreKeeps ==
  ASSUME TrapAssumption, TrapInv, NEW h \in Hart, Restore(h)
  PROVE  TrapInv'
<1>1. PICK t \in Thread : t = ThreadOn(h)
  BY RunningThread
<1>2. /\ HandlerOK(t) /\ hart[h].regs = HandlerRegs(t)
      /\ hart[h].satp = "kernel" /\ hart[h].tp = h /\ hart[h].stvec = "kernelvec"
      /\ hart[h].sie = FALSE /\ hart[h] \in HartType
  BY <1>1, HandlingFacts DEF Restore, Handling
<1>3. PICK l \in Interruptible :
        /\ ResumeOK(t, l)
        /\ frame[t] = [regs |-> KernelRegs(t), sepc |-> KernelPc(l), spie |-> TRUE, spp |-> "S"]
  BY <1>2 DEF HandlerOK
<1> DEFINE r == [hart[h] EXCEPT !.pc = KernelPc("sret"), !.sepc = KernelPc(l), !.spie = TRUE,
                                !.spp = "S"]
<1>4. Becomes(h, r)
  BY <1>1, <1>3 DEF Restore
<1>5. r \in HartType
  <2>1. KernelPc("sret") \in Pc /\ KernelPc(l) \in Pc
    BY PlacePc DEF Place, Masked, Trapping, Interruptible
  <2> QED
    BY <1>2, <2>1 DEF HartType
<1>6. TrapTypeOK /\ hart' \in [Hart -> HartType] /\ hart'[h] = r
  BY <1>4, <1>5, HartTyped DEF TrapInv
<1>7. TrapTypeOK'
  BY <1>6 DEF TrapTypeOK, Restore
<1>8. HartOK(h)'
  <2>1. /\ hart'[h].pc = KernelPc("sret") /\ hart'[h].regs = HandlerRegs(t)
        /\ hart'[h].satp = "kernel" /\ hart'[h].tp = h /\ hart'[h].stvec = "kernelvec"
        /\ hart'[h].sie = FALSE /\ hart'[h].sepc = KernelPc(l) /\ hart'[h].spie
        /\ hart'[h].spp = "S" /\ ThreadOn(h)' = t
    BY <1>1, <1>2, <1>6 DEF HartType, Restore, ThreadOn
  <2>2. ~UserMode(h)' /\ \A z : AtPlace(h, z)' <=> z = "sret"
    BY <2>1, OnePlaceNext DEF Place, Masked
  <2>3. HandlerOK(t)' /\ frame'[t].sepc = KernelPc(l)
    BY <1>2, <1>3, SameThread DEF Restore
  <2> QED
    BY <2>1, <2>2, <2>3 DEF HartOK, Masked, Trapping, Handling
<1> QED
  BY <1>4, <1>7, <1>8, StepKeeps DEF Restore

LEMMA SretKeeps ==
  ASSUME TrapAssumption, TrapInv, NEW h \in Hart, Sret(h)
  PROVE  TrapInv'
<1>1. PICK t \in Thread : t = ThreadOn(h) /\ (t \in Process \/ t = h)
  BY RunningThread
<1>2. /\ HandlerOK(t) /\ hart[h].regs = HandlerRegs(t)
      /\ hart[h].satp = "kernel" /\ hart[h].tp = h /\ hart[h].stvec = "kernelvec"
      /\ hart[h].sie = FALSE /\ hart[h] \in HartType
  BY <1>1, HandlingFacts DEF Sret, Handling
<1>3. PICK l \in Interruptible :
        /\ ResumeOK(t, l)
        /\ frame[t] = [regs |-> KernelRegs(t), sepc |-> KernelPc(l), spie |-> TRUE, spp |-> "S"]
  BY <1>2 DEF HandlerOK
<1>4. hart[h].sepc = KernelPc(l) /\ hart[h].spie = TRUE
  BY <1>1, <1>2, <1>3 DEF Sret, TrapInv, HartOK, HartType
<1> DEFINE r == [hart[h] EXCEPT !.pc = KernelPc(l), !.regs = KernelRegs(t), !.sie = TRUE]
<1>5. Becomes(h, r)
  <2>1. frame[t].regs = KernelRegs(t)
    BY <1>3
  <2> QED
    BY <1>1, <1>4, <2>1 DEF Sret
<1>6. r \in HartType
  <2>1. KernelPc(l) \in Pc /\ KernelRegs(t) \in Regs
    BY PlacePc DEF Place, Trapping, Interruptible, Regs
  <2> QED
    BY <1>2, <2>1 DEF HartType
<1>7. TrapTypeOK /\ hart' \in [Hart -> HartType] /\ hart'[h] = r
  BY <1>5, <1>6, HartTyped DEF TrapInv
<1>8. TrapTypeOK'
  BY <1>7 DEF TrapTypeOK, Sret, FrameType, LeftType
<1>9. HartOK(h)'
  <2>1. /\ hart'[h].pc = KernelPc(l) /\ hart'[h].regs = KernelRegs(t)
        /\ hart'[h].satp = "kernel" /\ hart'[h].tp = h /\ hart'[h].stvec = "kernelvec"
        /\ hart'[h].sie = TRUE /\ ThreadOn(h)' = t
    BY <1>1, <1>2, <1>7 DEF HartType, Sret, ThreadOn
  <2>2. ~UserMode(h)' /\ \A z : AtPlace(h, z)' <=> z = l
    BY <2>1, OnePlaceNext DEF Place, Trapping, Interruptible
  <2>3. (t \in Hart => l = "loop") /\ (t \in Process => l # "loop" /\ TrapframeOK(t, l)')
    BY <1>3 DEF ResumeOK, TrapframeOK, Sret
  <2>4. l = "loop" => t = h
    BY <1>1, <2>3
  <2>5. l # "loop" => l \in Trapping /\ t \in Process
    BY <1>1, <2>3 DEF Trapping, Interruptible
  <2> QED
    BY <2>1, <2>2, <2>3, <2>4, <2>5 DEF HartOK, Masked, Trapping, Handling, Interruptible
<1> QED
  BY <1>1, <1>5, <1>7, <1>8, <1>9, StepKeeps DEF Sret, TrapTypeOK

-----------------------------------------------------------------------------
(* Switching between threads                                               *)

\* A switch on hart h between the scheduler of h and process p: the other harts and the
\* other processes that none runs stay as they were.
LEMMA SwitchKeeps ==
  ASSUME TrapAssumption, TrapInv, NEW h \in Hart, NEW p \in Process, NEW r, Becomes(h, r),
         NEW q, proc' = [proc EXCEPT ![h] = q],
         NEW t \in {h, p}, NEW c, context' = [context EXCEPT ![t] = c],
         UNCHANGED <<tf, frame, user, left>>
  PROVE  /\ \A g \in Hart \ {h} : HartOK(g)' /\ (proc'[g] # Null => SchedulerOK(g)')
         /\ \A x \in Process \ {p} : x \notin {proc[g] : g \in Hart} => WaitingOK(x)'
<1>1. ASSUME NEW g \in Hart \ {h}
      PROVE  HartOK(g)' /\ (proc'[g] # Null => SchedulerOK(g)')
  <2>1. hart'[g] = hart[g] /\ proc'[g] = proc[g]
    BY DEF Becomes, TrapInv, TrapTypeOK
  <2>2. ThreadOn(g) \in Thread
    BY RunningThread
  <2>3. HartOK(g)'
    BY <2>1, SameHart
  <2>4. context'[g] = context[g]
    BY DEF TrapInv, TrapTypeOK, TrapAssumption, Thread
  <2> QED
    BY <2>1, <2>3, <2>4 DEF TrapInv, SchedulerOK
<1>2. ASSUME NEW x \in Process \ {p}, x \notin {proc[g] : g \in Hart}
      PROVE  WaitingOK(x)'
  <2>1. context'[x] = context[x]
    BY DEF TrapInv, TrapTypeOK, TrapAssumption, Thread
  <2> QED
    BY <1>2, <2>1, SameWaiting DEF TrapInv
<1> QED
  BY <1>1, <1>2

LEMMA SchedKeeps ==
  ASSUME TrapAssumption, TrapInv, NEW h \in Hart, Sched(h)
  PROVE  TrapInv'
<1>1. PICK place \in {"yield", "kernelyield", "syscall"} :
        /\ AtPlace(h, place)
        /\ context' = [context EXCEPT ![ThreadOn(h)] = Saved(h, GoesOn[place], hart[h].sie)]
  BY DEF Sched, GoesOn
<1>2. TrapTypeOK /\ HartOK(h) /\ hart[h] \in HartType
  BY DEF TrapInv, TrapTypeOK
<1>3. /\ hart[h].satp = "kernel" /\ hart[h].tp = h /\ hart[h].stvec = "kernelvec"
  BY <1>1, TrappingFacts, HandlingFacts DEF Trapping, Handling
<1>4. PICK p \in Process : p = ThreadOn(h) /\ p = proc[h]
  BY <1>1, <1>2, RunningThread DEF HartOK, Trapping
<1> DEFINE c == [place |-> GoesOn[place], regs |-> hart[h].regs, sie |-> hart[h].sie]
           r == [hart[h] EXCEPT !.pc = KernelPc("loop"), !.regs = KernelRegs(h)]
<1>5. context' = [context EXCEPT ![p] = c]
  BY <1>1, <1>4 DEF Saved
<1>6. Becomes(h, r) /\ proc' = [proc EXCEPT ![h] = Null]
  <2>1. context[h].place = "loop" /\ context[h].regs = KernelRegs(h)
    BY <1>4 DEF TrapInv, SchedulerOK, TrapAssumption
  <2> QED
    BY <1>3, <2>1 DEF Sched, Loaded
<1>7. GoesOn[place] \in Place
  BY DEF GoesOn, Place, Masked, Trapping
<1>8. r \in HartType /\ c \in ContextType
  <2>1. KernelPc("loop") \in Pc /\ KernelRegs(h) \in Regs
    BY PlacePc DEF Place, Regs, Thread
  <2>2. hart[h].regs \in Regs /\ hart[h].sie \in BOOLEAN
    BY <1>2 DEF HartType
  <2>3. r \in HartType
    BY <1>2, <2>1 DEF HartType
  <2>4. c \in ContextType
    BY <1>7, <2>2 DEF ContextType
  <2> QED
    BY <2>3, <2>4
<1>9. hart' \in [Hart -> HartType] /\ hart'[h] = r
  BY <1>2, <1>6, <1>8, HartTyped
<1>10. context' \in [Thread -> ContextType] /\ context'[p] = c /\ proc'[h] = Null
  BY <1>2, <1>5, <1>6, <1>8 DEF TrapTypeOK, Thread
<1>11. TrapTypeOK'
  BY <1>2, <1>6, <1>9, <1>10 DEF TrapTypeOK, Sched
<1>12. HartOK(h)'
  <2>1. /\ hart'[h].pc = KernelPc("loop") /\ hart'[h].regs = KernelRegs(h)
        /\ hart'[h].satp = "kernel" /\ hart'[h].tp = h /\ hart'[h].stvec = "kernelvec"
        /\ ThreadOn(h)' = h
    BY <1>2, <1>3, <1>9, <1>10 DEF HartType, ThreadOn
  <2>2. ~UserMode(h)' /\ \A z : AtPlace(h, z)' <=> z = "loop"
    BY <2>1, OnePlaceNext DEF Place
  <2> QED
    BY <2>1, <2>2 DEF HartOK, Masked, Trapping, Handling
<1>13. WaitingOK(p)'
  <2>1. CASE place = "kernelyield"
    <3>1. HandlerOK(p) /\ hart[h].regs = HandlerRegs(p) /\ hart[h].sie = FALSE
      BY <1>1, <1>4, <2>1, HandlingFacts DEF Handling
    <3>2. HandlerOK(p)'
      BY <3>1, SameThread DEF Sched, Thread
    <3>3. context'[p].place = "restore" /\ context'[p].regs = HandlerRegs(p) /\ context'[p].sie = FALSE
      BY <1>10, <2>1, <3>1 DEF GoesOn
    <3> QED
      BY <3>2, <3>3 DEF WaitingOK
  <2>2. CASE place # "kernelyield"
    <3>1. hart[h].regs = KernelRegs(p) /\ TrapframeOK(p, place)
      BY <1>1, <1>4, <2>2, TrappingFacts DEF Trapping
    <3>2. TrapframeOK(p, GoesOn[place])' /\ GoesOn[place] \in {"usertrapret", "syscall"}
      BY <2>2, <3>1 DEF TrapframeOK, GoesOn, Sched
    <3>3. GoesOn[place] = "syscall" => hart[h].sie = TRUE
      BY <1>1, <1>2, <2>2 DEF HartOK, GoesOn, HartType
    <3>4. context'[p].place = GoesOn[place] /\ context'[p].regs = KernelRegs(p)
          /\ context'[p].sie = hart[h].sie
      BY <1>10, <3>1
    <3> QED
      BY <3>2, <3>3, <3>4 DEF WaitingOK
  <2> QED
    BY <2>1, <2>2
<1>14. /\ \A g \in Hart \ {h} : HartOK(g)' /\ (proc'[g] # Null => SchedulerOK(g)')
       /\ \A x \in Process \ {p} : x \notin {proc[g] : g \in Hart} => WaitingOK(x)'
  <2> HIDE DEF c, r
  <2>1. p \in {h, p} /\ UNCHANGED <<tf, frame, user, left>>
    BY DEF Sched
  <2> QED
    BY <1>5, <1>6, <2>1, SwitchKeeps
<1>15. Apart' /\ \A x \in Process \ {p} : x \notin {proc'[g] : g \in Hart} => x \notin {proc[g] : g \in Hart}
  BY <1>2, <1>4, <1>6 DEF TrapInv, Apart, TrapTypeOK
<1> QED
  BY <1>10, <1>11, <1>12, <1>13, <1>14, <1>15 DEF TrapInv

LEMMA NextScanKeeps ==
  ASSUME TrapAssumption, TrapInv, NEW h \in Hart, NextScan(h)
  PROVE  TrapInv'
<1>1. TrapTypeOK /\ HartOK(h) /\ AtPlace(h, "loop") /\ hart[h] \in HartType
  BY DEF NextScan, TrapInv, TrapTypeOK
<1>2. /\ hart[h].satp = "kernel" /\ hart[h].tp = h /\ hart[h].stvec = "kernelvec"
      /\ hart[h].regs = KernelRegs(h) /\ ThreadOn(h) = h
  <2>1. ~UserMode(h) /\ ~AtPlace(h, "uservec")
    BY <1>1, OnePlace DEF AtPlace, Place
  <2> QED
    BY <1>1, <2>1 DEF HartOK, Place, Masked, Trapping
<1> DEFINE r == [hart[h] EXCEPT !.sie = TRUE]
<1>3. Becomes(h, r) /\ r \in HartType
  BY <1>1 DEF NextScan, HartType
<1>4. hart' \in [Hart -> HartType] /\ hart'[h] = r
  BY <1>1, <1>3, HartTyped
<1>5. TrapTypeOK'
  BY <1>1, <1>4 DEF TrapTypeOK, NextScan
<1>6. HartOK(h)'
  <2>1. /\ hart'[h].pc = KernelPc("loop") /\ hart'[h].regs = KernelRegs(h)
        /\ hart'[h].satp = "kernel" /\ hart'[h].tp = h /\ hart'[h].stvec = "kernelvec"
        /\ ThreadOn(h)' = h
    BY <1>1, <1>2, <1>4 DEF HartType, ThreadOn, AtPlace, NextScan
  <2>2. ~UserMode(h)' /\ \A z : AtPlace(h, z)' <=> z = "loop"
    BY <2>1, OnePlaceNext DEF Place
  <2> QED
    BY <2>1, <2>2 DEF HartOK, Masked, Trapping, Handling
<1> QED
  BY <1>3, <1>5, <1>6, StepKeeps DEF NextScan

LEMMA SchedulerKeeps ==
  ASSUME TrapAssumption, TrapInv, NEW h \in Hart, Scheduler(h)
  PROVE  TrapInv'
<1>1. TrapTypeOK /\ HartOK(h) /\ AtPlace(h, "loop") /\ hart[h] \in HartType
  BY DEF Scheduler, TrapInv, TrapTypeOK
<1>2. /\ hart[h].satp = "kernel" /\ hart[h].tp = h /\ hart[h].stvec = "kernelvec"
      /\ hart[h].regs = KernelRegs(h) /\ ThreadOn(h) = h
  <2>1. ~UserMode(h) /\ ~AtPlace(h, "uservec")
    BY <1>1, OnePlace DEF AtPlace, Place
  <2> QED
    BY <1>1, <2>1 DEF HartOK, Place, Masked, Trapping
<1>3. PICK p \in Process \ {proc[g] : g \in Hart} :
        /\ proc' = [proc EXCEPT ![h] = p]
        /\ context' = [context EXCEPT ![h] = Saved(h, "loop", Null)]
        /\ Becomes(h, [Loaded(h, p) EXCEPT !.sie = IF context[p].sie = Null THEN @ ELSE context[p].sie])
  BY DEF Scheduler
<1>4. WaitingOK(p) /\ context[p] \in ContextType
  BY <1>1 DEF TrapInv, TrapTypeOK, Thread
<1>5. PICK l \in Place : l = context[p].place
  BY <1>4 DEF ContextType
<1> DEFINE i == IF context[p].sie = Null THEN hart[h].sie ELSE context[p].sie
           c == [place |-> "loop", regs |-> KernelRegs(h), sie |-> Null]
           r == [hart[h] EXCEPT !.pc = KernelPc(l), !.regs = context[p].regs, !.sie = i]
<1>6. context' = [context EXCEPT ![h] = c]
  BY <1>2, <1>3 DEF Saved
<1>7. i \in BOOLEAN /\ context[p].regs \in Regs
  BY <1>1, <1>4 DEF HartType, ContextType
<1>8. Becomes(h, r)
  BY <1>1, <1>3, <1>5 DEF Loaded, HartType
<1>9. r \in HartType /\ c \in ContextType
  <2>1. KernelPc(l) \in Pc
    BY PlacePc
  <2>2. r \in HartType
    <3> HIDE DEF i
    <3> QED
      BY <1>1, <1>7, <2>1 DEF HartType
  <2>3. c \in ContextType
    BY DEF ContextType, Place, Regs, Thread
  <2> QED
    BY <2>2, <2>3
<1>10. hart' \in [Hart -> HartType] /\ hart'[h] = r
  BY <1>1, <1>8, <1>9, HartTyped
<1>11. context' \in [Thread -> ContextType] /\ context'[h] = c /\ proc'[h] = p
  BY <1>1, <1>3, <1>6, <1>9 DEF TrapTypeOK, Thread
<1>12. TrapTypeOK'
  BY <1>1, <1>3, <1>10, <1>11 DEF TrapTypeOK, Scheduler
<1>13. HartOK(h)' /\ SchedulerOK(h)'
  <2>1. /\ hart'[h].pc = KernelPc(l) /\ hart'[h].regs = context[p].regs
        /\ hart'[h].satp = "kernel" /\ hart'[h].tp = h /\ hart'[h].stvec = "kernelvec"
        /\ hart'[h].sie = i
    BY <1>1, <1>2, <1>10 DEF HartType
  <2>2. ThreadOn(h)' = p
    BY <1>11 DEF ThreadOn, TrapAssumption
  <2>3. ~UserMode(h)' /\ \A z : AtPlace(h, z)' <=> z = l
    BY <2>1, OnePlaceNext
  <2>4. CASE l = "restore"
    <3>1. context[p].regs = HandlerRegs(p) /\ i = FALSE /\ HandlerOK(p)
      BY <1>4, <1>5, <2>4 DEF WaitingOK, TrapAssumption
    <3>2. HandlerOK(p)'
      BY <3>1, SameThread DEF Scheduler, Thread
    <3> QED
      BY <1>11, <2>1, <2>2, <2>3, <2>4, <3>1, <3>2
      DEF HartOK, Masked, Trapping, Handling, SchedulerOK
  <2>5. CASE l # "restore"
    <3>1. context[p].regs = KernelRegs(p) /\ TrapframeOK(p, l) /\ l \in {"usertrapret", "syscall"}
      BY <1>4, <1>5, <2>5 DEF WaitingOK
    <3>2. TrapframeOK(p, l)'
      BY <3>1 DEF TrapframeOK, Scheduler
    <3>3. l = "syscall" => i
      BY <1>4, <1>5 DEF WaitingOK, TrapAssumption
    <3> QED
      BY <1>11, <2>1, <2>2, <2>3, <3>1, <3>2, <3>3
      DEF HartOK, Masked, Trapping, Handling, SchedulerOK
  <2> QED
    BY <2>4, <2>5
<1>14. /\ \A g \in Hart \ {h} : HartOK(g)' /\ (proc'[g] # Null => SchedulerOK(g)')
       /\ \A x \in Process \ {p} : x \notin {proc[g] : g \in Hart} => WaitingOK(x)'
  BY <1>3, <1>6, <1>8, SwitchKeeps DEF Scheduler
<1>15. /\ Apart' /\ p \in {proc'[g] : g \in Hart}
       /\ \A x \in Process \ {p} : x \notin {proc'[g] : g \in Hart} => x \notin {proc[g] : g \in Hart}
  <2>1. proc[h] = Null
    BY <1>2, RunningThread
  <2> QED
    BY <1>1, <1>3, <2>1 DEF TrapInv, Apart, TrapTypeOK, TrapAssumption
<1> QED
  BY <1>12, <1>13, <1>14, <1>15 DEF TrapInv

-----------------------------------------------------------------------------

LEMMA InitKeeps ==
  ASSUME TrapAssumption, TrapInit
  PROVE  TrapInv
<1>1. 0 \in Insn
  BY DEF Insn, TrapAssumption
<1>2. TrapTypeOK
  <2>1. KernelPc("loop") \in Pc
    BY PlacePc DEF Place
  <2>2. /\ \A t \in Thread : KernelRegs(t) \in Regs
        /\ \A p \in Process : Computed(p, 0) \in Regs
    BY <1>1 DEF Regs
  <2>3. hart \in [Hart -> HartType]
    BY <2>1, <2>2 DEF TrapInit, HartType, Thread
  <2>4. tf \in [Process -> TfType]
    BY <1>1, <2>2 DEF TrapInit, TfType
  <2>5. context \in [Thread -> ContextType]
    BY <2>2 DEF TrapInit, ContextType, Place, Trapping
  <2> QED
    BY <1>1, <2>3, <2>4, <2>5 DEF TrapInit, TrapTypeOK, FrameType, LeftType
<1>3. ASSUME NEW h \in Hart
      PROVE  HartOK(h) /\ proc[h] = Null
  <2>1. hart[h].pc = KernelPc("loop")
    BY DEF TrapInit
  <2>2. ~UserMode(h) /\ \A y : AtPlace(h, y) <=> y = "loop"
    BY <2>1, OnePlace DEF Place
  <2>3. ThreadOn(h) = h /\ proc[h] = Null
    BY DEF TrapInit, ThreadOn
  <2>4. /\ hart[h].regs = KernelRegs(h) /\ hart[h].tp = h /\ hart[h].satp = "kernel"
        /\ hart[h].stvec = "kernelvec"
    BY DEF TrapInit
  <2> QED
    BY <2>2, <2>3, <2>4 DEF HartOK, Masked, Trapping, Handling
<1>4. ASSUME NEW p \in Process
      PROVE  WaitingOK(p)
  <2>1. context[p].place = "usertrapret" /\ context[p].regs = KernelRegs(p)
    BY DEF TrapInit, Thread
  <2>2. TrapframeOK(p, "usertrapret")
    BY DEF TrapInit, TrapframeOK
  <2> QED
    BY <2>1, <2>2 DEF WaitingOK
<1> QED
  BY <1>2, <1>3, <1>4 DEF TrapInv, Apart

LEMMA NextKeeps ==
  ASSUME TrapAssumption, TrapInv, [TrapNext]_trapVars
  PROVE  TrapInv'
<1>1. ASSUME NEW h \in Hart,
             \/ Instruction(h) \/ UserTrap(h) \/ Interrupt(h)
             \/ Uservec(h) \/ Usertrap(h) \/ Syscall(h) \/ Usertrapret(h) \/ Leaving(h) \/ Userret(h)
             \/ Kernelvec(h) \/ Restore(h) \/ Sret(h)
             \/ Sched(h) \/ NextScan(h) \/ Scheduler(h)
      PROVE  TrapInv'
  BY <1>1, InstructionKeeps, UserTrapKeeps, InterruptKeeps, UservecKeeps, UsertrapKeeps,
     SyscallKeeps, UsertrapretKeeps, LeavingKeeps, UserretKeeps, KernelvecKeeps, RestoreKeeps,
     SretKeeps, SchedKeeps, NextScanKeeps, SchedulerKeeps
<1>2. CASE UNCHANGED trapVars
  <2>1. TrapTypeOK' /\ Apart'
    BY <1>2 DEF trapVars, TrapInv, TrapTypeOK, Apart
  <2>2. \A h \in Hart : HartOK(h)'
    BY <1>2, SameHart DEF trapVars
  <2>3. \A h \in Hart : proc'[h] # Null => SchedulerOK(h)'
    BY <1>2 DEF trapVars, TrapInv, SchedulerOK
  <2>4. \A p \in Process : p \notin {proc'[g] : g \in Hart} => WaitingOK(p)'
    BY <1>2, SameWaiting DEF trapVars, TrapInv
  <2> QED
    BY <2>1, <2>2, <2>3, <2>4 DEF TrapInv
<1> QED
  BY <1>1, <1>2 DEF TrapNext

LEMMA InvExact ==
  ASSUME TrapAssumption, TrapInv
  PROVE  TrapsExact
<1> SUFFICES ASSUME NEW h \in Hart
             PROVE  LET r == hart[h]
                        t == ThreadOn(h)
                    IN /\ UserMode(h) =>
                            /\ r.pc = UserPc(user[t]) /\ r.regs = Computed(t, user[t]) /\ r.satp = t
                            /\ r.stvec = "uservec" /\ tf[t].hartid = h
                       /\ AtPlace(h, "uservec") => r.spp = "U" /\ r.satp = t
                       /\ ~UserMode(h) /\ ~AtPlace(h, "uservec") => r.satp = "kernel" /\ r.tp = h
                       /\ ~UserMode(h) /\ r.sie => r.stvec = "kernelvec" /\ r.regs = KernelRegs(t)
                       /\ AtPlace(h, "kernelvec") => r.spp = "S"
                       /\ AtPlace(h, "sret")
                            => [pc |-> r.sepc, regs |-> frame[t].regs] = left[t] /\ r.spp = "S" /\ r.spie
                       /\ AtPlace(h, "syscall") => r.sie
  BY Zenon DEF TrapsExact
<1>1. HartOK(h) /\ TrapTypeOK
  BY DEF TrapInv
<1>2. ~UserMode(h) /\ hart[h].sie => hart[h].stvec = "kernelvec" /\ hart[h].regs = KernelRegs(ThreadOn(h))
  <2> SUFFICES ASSUME ~UserMode(h), hart[h].sie
               PROVE  hart[h].stvec = "kernelvec" /\ hart[h].regs = KernelRegs(ThreadOn(h))
    OBVIOUS
  <2>1. PICK l \in Place : AtPlace(h, l)
    BY <1>1, SomePlace
  <2>2. l \notin Masked
    BY <1>1, <2>1 DEF HartOK
  <2>3. l \in Interruptible
    BY <2>2 DEF Place, Masked, Trapping, Interruptible
  <2> QED
    BY <1>1, <2>1, <2>2, <2>3 DEF HartOK, Place, Masked, Trapping, Interruptible
<1>3. AtPlace(h, "sret") => [pc |-> hart[h].sepc, regs |-> frame[ThreadOn(h)].regs] = left[ThreadOn(h)]
  <2> SUFFICES ASSUME AtPlace(h, "sret")
               PROVE  [pc |-> hart[h].sepc, regs |-> frame[ThreadOn(h)].regs] = left[ThreadOn(h)]
    OBVIOUS
  <2>1. HandlerOK(ThreadOn(h)) /\ hart[h].sepc = frame[ThreadOn(h)].sepc
    BY <1>1 DEF HartOK, Handling
  <2>2. PICK l \in Interruptible :
          /\ left[ThreadOn(h)] = [pc |-> KernelPc(l), regs |-> KernelRegs(ThreadOn(h))]
          /\ frame[ThreadOn(h)] = [regs |-> KernelRegs(ThreadOn(h)), sepc |-> KernelPc(l),
                                  spie |-> TRUE, spp |-> "S"]
    BY <2>1 DEF HandlerOK, ResumeOK
  <2>3. frame[ThreadOn(h)].sepc = KernelPc(l) /\ frame[ThreadOn(h)].regs = KernelRegs(ThreadOn(h))
    BY <2>2
  <2> QED
    BY <2>1, <2>2, <2>3
<1>4. /\ UserMode(h) => UserOK(h)
      /\ AtPlace(h, "uservec") => UservecOK(h)
      /\ AtPlace(h, "kernelvec") => KernelvecOK(h)
  BY <1>1 DEF HartOK
<1> QED
  BY <1>1, <1>2, <1>3, <1>4 DEF HartOK, UserOK, UservecOK, KernelvecOK

\* Whatever traps come in user code and in the kernel, and wherever a thread goes on:
\* what a trap has interrupted goes on as it was, and a trap finds the way to its handler
\* on this hart (uservec, userret, kernelvec, usertrap(), usertrapret() and kerneltrap()
\* in kernel/trampoline.S, kernel/kernelvec.S and kernel/trap.c of XV6-2).
THEOREM TrapsReturn == TrapSpec => []TrapsExact
<1>1. TrapInit => TrapInv
  BY TrapConstants, InitKeeps
<1>2. TrapInv /\ [TrapNext]_trapVars => TrapInv'
  BY TrapConstants, NextKeeps
<1>3. TrapInv => TrapsExact
  BY TrapConstants, InvExact
<1> QED
  BY <1>1, <1>2, <1>3, PTL DEF TrapSpec

=============================================================================
