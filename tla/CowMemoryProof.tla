---------------------------- MODULE CowMemoryProof ----------------------------
(***************************************************************************)
(* Proofs about CowMemory for any number of processes, pages and frames    *)
(* and for any order in which kalloc() hands out the free pages: sharing   *)
(* and reference counts, then the page tables.  At the end, the kernel     *)
(* without the steps of the memory findings (SoundSpec), whichever         *)
(* kalloc() fails: copy-on-write implements PrivateMemory, and no page is  *)
(* lost.                                                                   *)
(***************************************************************************)
EXTENDS CowPrivate, FiniteSetTheorems, WellFoundedInduction, TLAPS

\* Labels at which np is the child that fork() builds or wait() releases.
Building == {"allocproc", "uvmcopy", "uvmcopy_map", "uvmcopy_err", "freeproc"}

\* Labels at which cur is a user page.
Paging == {"cow_copy", "cow_kfree", "cow_map", "copyout", "copyout_write",
           "uvmcopy_map", "uvmalloc_map"}

\* Every process table entry that is being built or released is so by one
\* process, the one whose np it is.
OwnerOK ==
  /\ \A p \in Proc : loc[p].np # None => pc[loc[p].np] \in {"embryo", "reaped"}
  /\ \A p, q \in Proc : loc[p].np = loc[q].np /\ loc[p].np # None => p = q
  /\ \A p \in Proc : pc[p] \in Building => loc[p].np # None

\* What the locals of a thread mean where it is.
LocalsOK ==
  \A p \in Proc :
    /\ pc[p] \in Paging => loc[p].cur \in Page
    /\ pc[p] \in {"copyout", "copyout_write"} => loc[p].val # None
    /\ pc[p] \in {"cow_copy", "cow_kfree"} => pa[p][loc[p].cur] # None
    /\ pc[p] = "uvmcopy_map" => pa[p][Pa] = pa[p][loc[p].cur]

ThreadInv == TypeOK /\ OwnerOK /\ LocalsOK

-----------------------------------------------------------------------------
(* Types of the slots and of the locals                                    *)

LEMMA PageSlot == Page \subseteq Slot /\ Leaf \subseteq Slot /\ Root \subseteq Slot
                  /\ {Trapframe, Mem, Pa} \subseteq Slot
  BY DEF Slot

LEMMA InitThread == Init => ThreadInv
<1> SUFFICES ASSUME Init PROVE ThreadInv
  OBVIOUS
<1>1. TypeOK
  <2>1. NoLocals \in Locals
    BY PageAssumption DEF NoLocals, Locals
  <2>2. [s \in Slot |-> None] \in [Slot -> Frame \cup {None}]
    OBVIOUS
  <2>3. pa \in [Proc -> [Slot -> Frame \cup {None}]]
    BY <2>2, InitAssumption DEF Init
  <2>4. flags \in [Proc -> [Page -> SUBSET Flag]]
    BY PageAssumption DEF Init
  <2>5. freelist \in SUBSET Frame
    BY InitAssumption DEF Init
  <2>6. sz \in [Proc -> 0 .. MaxPage]
    BY PageAssumption DEF Init
  <2> QED
    BY <2>1, <2>3, <2>4, <2>5, <2>6, ProcAssumption, ValueAssumption
       DEF Init, TypeOK, PcLabel
<1>2. OwnerOK
  BY DEF Init, OwnerOK, NoLocals, Building
<1>3. LocalsOK
  BY DEF Init, LocalsOK, Paging
<1> QED
  BY <1>1, <1>2, <1>3 DEF ThreadInv

LEMMA KallocEffect ==
  ASSUME TypeOK, NEW q \in Proc, NEW s \in Slot, NEW c \in Value \cup {Junk}, Kalloc(q, s, c)
  PROVE  /\ freelist' \in SUBSET Frame
         /\ useReference' \in [Frame -> Int]
         /\ limbo' \in [Proc -> Frame \cup {None}]
         /\ mem' \in [Frame -> Value \cup {Junk}]
         /\ pa' \in [Proc -> [Slot -> Frame \cup {None}]]
         /\ \A r \in Proc : r # q => pa'[r] = pa[r]
         /\ \A t \in Slot : t # s => pa'[q][t] = pa[q][t]
         /\ pa'[q][s] # None
  BY HeadsAssumption, FrameAssumption DEF TypeOK, Kalloc

LEMMA KfreeEffect ==
  ASSUME TypeOK, NEW p \in Proc, NEW q \in Proc, NEW s \in Slot, Kfree(p, q, s)
  PROVE  /\ freelist' \in SUBSET Frame
         /\ useReference' \in [Frame -> Int]
         /\ limbo' \in [Proc -> Frame \cup {None}]
         /\ mem' \in [Frame -> Value \cup {Junk}]
         /\ pa' \in [Proc -> [Slot -> Frame \cup {None}]]
         /\ \A r \in Proc : r # q => pa'[r] = pa[r]
         /\ \A t \in Slot : t # s => pa'[q][t] = pa[q][t]
  BY DEF TypeOK, Kfree


\* The types of what an uvmunmap() changes.
UnmapType ==
  /\ freelist' \in SUBSET Frame
  /\ useReference' \in [Frame -> Int]
  /\ limbo' \in [Proc -> Frame \cup {None}]
  /\ mem' \in [Frame -> Value \cup {Junk}]
  /\ pa' \in [Proc -> [Slot -> Frame \cup {None}]]
  /\ flags' \in [Proc -> [Page -> SUBSET Flag]]

LEMMA UnmapEffect ==
  ASSUME TypeOK, NEW p \in Proc, NEW q \in Proc, NEW v \in Page, Unmap(p, q, v)
  PROVE  UnmapType /\ \A r \in Proc : r # q => pa'[r] = pa[r]
<1>1. Kfree(p, q, v) /\ v \in Slot
  BY PageSlot DEF Unmap
<1>2. flags' \in [Proc -> [Page -> SUBSET Flag]]
  BY DEF TypeOK, Unmap
<1> QED
  BY <1>1, <1>2, KfreeEffect DEF UnmapType

LEMMA LocType == TypeOK => loc \in [Proc -> Locals] /\ pc \in [Proc -> PcLabel]
  BY DEF TypeOK

LEMMA LocFields ==
  TypeOK => \A q \in Proc : /\ loc[q].np \in Proc \cup {None}
                            /\ loc[q].cur \in 0 .. MaxPage
                            /\ loc[q].lim \in 0 .. MaxPage
                            /\ loc[q].newsz \in 0 .. MaxPage
                            /\ loc[q].val \in Value \cup {None}
  BY DEF TypeOK, Locals

LEMMA NoLocalsType == NoLocals \in Locals /\ NoLocals.np = None
  BY PageAssumption DEF NoLocals, Locals

LEMMA Child ==
  ASSUME ThreadInv, NEW p \in Proc, pc[p] \in Building
  PROVE  /\ loc[p].np \in Proc /\ loc[p].np # p
         /\ pc[loc[p].np] \in {"embryo", "reaped"}
  BY LocFields DEF ThreadInv, OwnerOK, Building

\* One thread moves on and keeps its child; ...
LEMMA OwnerKeep ==
  ASSUME TypeOK, OwnerOK, NEW p \in Proc,
         \A q \in Proc : loc'[q].np = loc[q].np,
         \A q \in Proc : q # p => pc'[q] = pc[q],
         pc[p] \notin {"embryo", "reaped"},
         pc'[p] \in Building => loc[p].np # None
  PROVE  OwnerOK'
  BY LocFields, ProcAssumption DEF OwnerOK

\* ... or lets go of it, whatever becomes of it; ...
LEMMA OwnerDrop ==
  ASSUME TypeOK, OwnerOK, NEW p \in Proc,
         \A q \in Proc : q # p => loc'[q].np = loc[q].np,
         loc'[p].np = None,
         pc[p] \notin {"embryo", "reaped"},
         \A q \in Proc : q # p /\ q # loc[p].np => pc'[q] = pc[q],
         pc'[p] \notin Building,
         \A q \in Proc : pc'[q] # pc[q] => pc'[q] \notin Building
  PROVE  OwnerOK'
  BY LocFields, ProcAssumption DEF OwnerOK

\* ... or takes a new one that nobody has.
LEMMA OwnerTake ==
  ASSUME TypeOK, OwnerOK, NEW p \in Proc, NEW c \in Proc,
         \A q \in Proc : q # p => loc'[q].np = loc[q].np,
         loc'[p].np = c,
         pc[p] \notin {"embryo", "reaped"},
         pc[c] \notin {"embryo", "reaped"}, pc'[c] \in {"embryo", "reaped"},
         \A q \in Proc : q # p /\ q # c => pc'[q] = pc[q]
  PROVE  OwnerOK'
  BY LocFields, ProcAssumption DEF OwnerOK, Building

\* A step of p leaves the threads alone that are busy with their own pages.
LEMMA LocalsKeep ==
  ASSUME LocalsOK, NEW p \in Proc,
         \A q \in Proc : q # p => loc'[q] = loc[q],
         \A q \in Proc : q # p => pc'[q] = pc[q] \/ pc'[q] \notin Paging,
         \A q \in Proc : q # p /\ pc[q] \in Paging => pa'[q] = pa[q],
         pc'[p] \in Paging => loc'[p].cur \in Page,
         pc'[p] \in {"copyout", "copyout_write"} => loc'[p].val # None,
         pc'[p] \in {"cow_copy", "cow_kfree"} => pa'[p][loc'[p].cur] # None,
         pc'[p] = "uvmcopy_map" => pa'[p][Pa] = pa'[p][loc'[p].cur]
  PROVE  LocalsOK'
  BY DEF LocalsOK, Paging

-----------------------------------------------------------------------------
(* Every action keeps ThreadInv                                            *)

LEMMA KfreePushThread ==
  ASSUME ThreadInv, NEW p \in Proc, KfreePush(p)
  PROVE  ThreadInv'
<1>1. loc' = loc /\ pc' = pc /\ pa' = pa
  BY DEF KfreePush
<1>2. TypeOK'
  BY <1>1, ValueAssumption DEF ThreadInv, TypeOK, KfreePush
<1>3. OwnerOK' /\ LocalsOK'
  BY <1>1 DEF ThreadInv, OwnerOK, LocalsOK
<1> QED
  BY <1>2, <1>3 DEF ThreadInv

LEMMA StoreThread ==
  ASSUME ThreadInv, NEW p \in Proc, NEW v \in Page, NEW x \in Value, Store(p, v, x)
  PROVE  ThreadInv'
<1>1. loc' = loc /\ pc' = pc /\ pa' = pa
  BY DEF Store
<1>2. TypeOK'
  BY <1>1 DEF ThreadInv, TypeOK, Store
<1>3. OwnerOK' /\ LocalsOK'
  BY <1>1 DEF ThreadInv, OwnerOK, LocalsOK
<1> QED
  BY <1>2, <1>3 DEF ThreadInv

LEMMA StoreKillThread ==
  ASSUME ThreadInv, NEW p \in Proc, NEW v \in Page, StoreKill(p, v)
  PROVE  ThreadInv'
<1>1. loc' = loc /\ pc' = pc /\ pa' = pa
  BY DEF StoreKill
<1>2. TypeOK'
  BY <1>1 DEF ThreadInv, TypeOK, StoreKill, memory
<1>3. OwnerOK' /\ LocalsOK'
  BY <1>1 DEF ThreadInv, OwnerOK, LocalsOK
<1> QED
  BY <1>2, <1>3 DEF ThreadInv

LEMMA AllocprocFailThread ==
  ASSUME ThreadInv, NEW p \in Proc, AllocprocFail(p)
  PROVE  ThreadInv'
<1>1. loc' = loc /\ pa' = pa /\ pc[p] = "allocproc" /\ pc' = [pc EXCEPT ![p] = "freeproc"]
  BY DEF AllocprocFail, At, Goto
<1>2. TypeOK'
  BY <1>1 DEF ThreadInv, TypeOK, AllocprocFail, PcLabel, memory
<1>3. OwnerOK'
  BY <1>1, LocType, OwnerKeep DEF ThreadInv, OwnerOK, Building
<1>4. LocalsOK'
  BY <1>1, LocType, LocalsKeep DEF ThreadInv, Paging
<1> QED
  BY <1>2, <1>3, <1>4 DEF ThreadInv

LEMMA AllocprocDoneThread ==
  ASSUME ThreadInv, NEW p \in Proc, AllocprocDone(p)
  PROVE  ThreadInv'
<1>1. loc' = loc /\ pa' = pa /\ pc[p] = "allocproc" /\ pc' = [pc EXCEPT ![p] = "uvmcopy"]
  BY DEF AllocprocDone, At, Goto
<1>2. TypeOK'
  BY <1>1 DEF ThreadInv, TypeOK, AllocprocDone, PcLabel, memory
<1>3. OwnerOK'
  BY <1>1, LocType, OwnerKeep DEF ThreadInv, OwnerOK, Building
<1>4. LocalsOK'
  BY <1>1, LocType, LocalsKeep DEF ThreadInv, Paging
<1> QED
  BY <1>2, <1>3, <1>4 DEF ThreadInv

LEMMA InitPanicThread ==
  ASSUME ThreadInv, NEW p \in Proc, InitPanic(p)
  PROVE  ThreadInv'
<1>1. loc' = loc /\ pa' = pa /\ pc[p] = "user" /\ pc' = [pc EXCEPT ![p] = "panic"]
  BY DEF InitPanic, At, Goto
<1>2. TypeOK'
  BY <1>1 DEF ThreadInv, TypeOK, InitPanic, PcLabel, memory
<1>3. OwnerOK'
  BY <1>1, LocType, OwnerKeep DEF ThreadInv, OwnerOK, Building
<1>4. LocalsOK'
  BY <1>1, LocType, LocalsKeep DEF ThreadInv, Paging
<1> QED
  BY <1>2, <1>3, <1>4 DEF ThreadInv

LEMMA ExitThread ==
  ASSUME ThreadInv, NEW p \in Proc, Exit(p)
  PROVE  ThreadInv'
<1>1. loc' = loc /\ pa' = pa /\ pc[p] = "user" /\ pc' = [pc EXCEPT ![p] = "zombie"]
  BY DEF Exit, At, Goto
<1>2. TypeOK'
  BY <1>1, ProcAssumption DEF ThreadInv, TypeOK, Exit, PcLabel, memory
<1>3. OwnerOK'
  BY <1>1, LocType, OwnerKeep DEF ThreadInv, OwnerOK, Building
<1>4. LocalsOK'
  BY <1>1, LocType, LocalsKeep DEF ThreadInv, Paging
<1> QED
  BY <1>2, <1>3, <1>4 DEF ThreadInv

LEMMA CowCopyThread ==
  ASSUME ThreadInv, NEW p \in Proc, CowCopy(p)
  PROVE  ThreadInv'
<1>1. loc' = loc /\ pa' = pa /\ pc[p] = "cow_copy" /\ pc' = [pc EXCEPT ![p] = "cow_kfree"]
  BY DEF CowCopy, At, Goto
<1>2. pa[p][loc[p].cur] \in Frame /\ pa[p][Mem] \in Frame \cup {None}
  BY <1>1, PageSlot DEF ThreadInv, LocalsOK, Paging, TypeOK
<1>3. mem' \in [Frame -> Value \cup {Junk}]
  BY <1>2 DEF ThreadInv, TypeOK, CowCopy
<1>4. TypeOK'
  BY <1>1, <1>3 DEF ThreadInv, TypeOK, CowCopy, PcLabel
<1>5. OwnerOK'
  BY <1>1, LocType, OwnerKeep DEF ThreadInv, Building
<1>6. LocalsOK'
  BY <1>1, LocType, LocalsKeep DEF ThreadInv, LocalsOK, Paging
<1> QED
  BY <1>4, <1>5, <1>6 DEF ThreadInv

LEMMA CopyoutThread ==
  ASSUME ThreadInv, NEW p \in Proc, NEW v \in Page, NEW x \in Value, Copyout(p, v, x)
  PROVE  ThreadInv'
<1>1. loc' = [loc EXCEPT ![p].cur = v, ![p].val = x]
  BY DEF Copyout
<1>2. loc \in [Proc -> Locals] /\ v \in 0 .. MaxPage
  BY LocType, PageAssumption DEF ThreadInv, Page
<1>3. /\ loc' \in [Proc -> Locals]
      /\ \A q \in Proc : q # p => loc'[q] = loc[q]
      /\ loc'[p].cur = v /\ loc'[p].val = x /\ loc'[p].np = loc[p].np
  BY <1>1, <1>2 DEF Locals
<1>4. pa' = pa /\ pc[p] = "user" /\ pc' = [pc EXCEPT ![p] = "copyout"]
  BY DEF Copyout, InUser, At, Goto
<1>5. TypeOK'
  BY <1>3, <1>4 DEF ThreadInv, TypeOK, Copyout, memory, PcLabel
<1>6. OwnerOK'
  BY <1>3, <1>4, LocType, OwnerKeep DEF ThreadInv, Building
<1>7. LocalsOK'
  BY <1>3, <1>4, LocType, ValueAssumption, LocalsKeep DEF ThreadInv
<1> QED
  BY <1>5, <1>6, <1>7 DEF ThreadInv

LEMMA StoreFaultThread ==
  ASSUME ThreadInv, NEW p \in Proc, NEW v \in Page, StoreFault(p, v)
  PROVE  ThreadInv'
<1>1. loc' = [loc EXCEPT ![p].cur = v]
  BY DEF StoreFault
<1>2. loc \in [Proc -> Locals] /\ v \in 0 .. MaxPage
  BY LocType, PageAssumption DEF ThreadInv, Page
<1>3. /\ loc' \in [Proc -> Locals]
      /\ \A q \in Proc : q # p => loc'[q] = loc[q]
      /\ loc'[p].cur = v /\ loc'[p].np = loc[p].np
  BY <1>1, <1>2 DEF Locals
<1>4. pc[p] = "user" /\ pc' = [pc EXCEPT ![p] = "cow_copy"] /\ pa[p][v] # None
  BY DEF StoreFault, InUser, At, Goto, CowFault, Mapped
<1>5. Kalloc(p, Mem, Junk)
  BY DEF StoreFault
<1>6. /\ freelist' \in SUBSET Frame
      /\ useReference' \in [Frame -> Int]
      /\ limbo' \in [Proc -> Frame \cup {None}]
      /\ mem' \in [Frame -> Value \cup {Junk}]
      /\ pa' \in [Proc -> [Slot -> Frame \cup {None}]]
      /\ \A q \in Proc : q # p => pa'[q] = pa[q]
      /\ pa'[p][v] = pa[p][v]
  BY <1>5, PageSlot, SlotAssumption, KallocEffect DEF ThreadInv
<1>7. TypeOK'
  BY <1>3, <1>4, <1>6 DEF ThreadInv, TypeOK, StoreFault, PcLabel
<1>8. OwnerOK'
  BY <1>3, <1>4, LocType, OwnerKeep DEF ThreadInv, Building
<1>9. LocalsOK'
  BY <1>3, <1>4, <1>6, LocType, LocalsKeep DEF ThreadInv
<1> QED
  BY <1>7, <1>8, <1>9 DEF ThreadInv

LEMMA CopyoutPageThread ==
  ASSUME ThreadInv, NEW p \in Proc, CopyoutPage(p)
  PROVE  ThreadInv'
<1> DEFINE v == loc[p].cur
<1>1. /\ loc' = loc /\ pc[p] = "copyout" /\ pa[p][v] # None
      /\ v \in Page /\ loc[p].val # None
  BY DEF CopyoutPage, At, Mapped, ThreadInv, LocalsOK, Paging
<1>2. CASE Kalloc(p, Mem, Junk) /\ pc' = [pc EXCEPT ![p] = "cow_copy"] /\ killed' = killed
  <2>1. /\ freelist' \in SUBSET Frame
        /\ useReference' \in [Frame -> Int]
        /\ limbo' \in [Proc -> Frame \cup {None}]
        /\ mem' \in [Frame -> Value \cup {Junk}]
        /\ pa' \in [Proc -> [Slot -> Frame \cup {None}]]
        /\ \A q \in Proc : q # p => pa'[q] = pa[q]
        /\ pa'[p][v] = pa[p][v]
    BY <1>1, <1>2, PageSlot, SlotAssumption, KallocEffect DEF ThreadInv
  <2>2. TypeOK'
    BY <1>1, <1>2, <2>1 DEF ThreadInv, TypeOK, CopyoutPage, PcLabel
  <2>3. OwnerOK'
    BY <1>1, <1>2, LocType, OwnerKeep DEF ThreadInv, Building
  <2>4. LocalsOK'
    BY <1>1, <1>2, <2>1, LocType, LocalsKeep DEF ThreadInv
  <2> QED
    BY <2>2, <2>3, <2>4 DEF ThreadInv
<1>3. CASE /\ pc' = [pc EXCEPT ![p] = "copyout_write"] /\ UNCHANGED <<memory, pa>>
           /\ killed' \subseteq killed \cup {p}
  <2>1. TypeOK'
    BY <1>1, <1>3 DEF ThreadInv, TypeOK, CopyoutPage, PcLabel, memory
  <2>2. OwnerOK'
    BY <1>1, <1>3, LocType, OwnerKeep DEF ThreadInv, Building
  <2>3. LocalsOK'
    BY <1>1, <1>3, LocType, LocalsKeep DEF ThreadInv
  <2> QED
    BY <2>1, <2>2, <2>3 DEF ThreadInv
<1> QED
  BY <1>2, <1>3 DEF CopyoutPage, Goto

LEMMA CopyoutFailThread ==
  ASSUME ThreadInv, NEW p \in Proc, CopyoutFail(p)
  PROVE  ThreadInv'
<1>1. /\ pa' = pa /\ pc[p] = "copyout"
      /\ pc' = [q \in Proc |-> IF q = p THEN "user"
                               ELSE IF q = loc[p].np THEN "zombie" ELSE pc[q]]
      /\ loc' = [loc EXCEPT ![p] = NoLocals]
  BY DEF CopyoutFail, At
<1>2. TypeOK'
  BY <1>1, NoLocalsType DEF ThreadInv, TypeOK, CopyoutFail, memory, PcLabel
<1>3. OwnerOK'
  BY <1>1, LocType, NoLocalsType, OwnerDrop DEF ThreadInv, Building
<1>4. LocalsOK'
  BY <1>1, LocType, LocalsKeep DEF ThreadInv, Paging
<1> QED
  BY <1>2, <1>3, <1>4 DEF ThreadInv

LEMMA CowKfreeThread ==
  ASSUME ThreadInv, NEW p \in Proc, CowKfree(p)
  PROVE  ThreadInv'
<1>1. /\ loc' = loc /\ pc[p] = "cow_kfree" /\ pc' = [pc EXCEPT ![p] = "cow_map"]
      /\ Kfree(p, p, loc[p].cur) /\ loc[p].cur \in Page
  BY DEF CowKfree, At, Goto, ThreadInv, LocalsOK, Paging
<1>2. /\ freelist' \in SUBSET Frame
      /\ useReference' \in [Frame -> Int]
      /\ limbo' \in [Proc -> Frame \cup {None}]
      /\ mem' \in [Frame -> Value \cup {Junk}]
      /\ pa' \in [Proc -> [Slot -> Frame \cup {None}]]
      /\ \A q \in Proc : q # p => pa'[q] = pa[q]
  BY <1>1, PageSlot, KfreeEffect DEF ThreadInv
<1>3. TypeOK'
  BY <1>1, <1>2 DEF ThreadInv, TypeOK, CowKfree, PcLabel
<1>4. OwnerOK'
  BY <1>1, LocType, OwnerKeep DEF ThreadInv, Building
<1>5. LocalsOK'
  BY <1>1, <1>2, LocType, LocalsKeep DEF ThreadInv
<1> QED
  BY <1>3, <1>4, <1>5 DEF ThreadInv

LEMMA CowMapThread ==
  ASSUME ThreadInv, NEW p \in Proc, CowMap(p)
  PROVE  ThreadInv'
<1> DEFINE v == loc[p].cur
<1>1. pc[p] = "cow_map" /\ v \in Page
  BY DEF CowMap, At, ThreadInv, LocalsOK, Paging
<1>2. pa' = [pa EXCEPT ![p][v] = pa[p][Mem], ![p][Mem] = None]
  BY DEF CowMap
<1>3. pa \in [Proc -> [Slot -> Frame \cup {None}]]
  BY DEF ThreadInv, TypeOK
<1>4. /\ pa' \in [Proc -> [Slot -> Frame \cup {None}]]
      /\ \A q \in Proc : q # p => pa'[q] = pa[q]
  BY <1>1, <1>2, <1>3, PageSlot
<1>5. \/ pc' = [pc EXCEPT ![p] = "user"] /\ loc' = [loc EXCEPT ![p] = NoLocals]
      \/ pc' = [pc EXCEPT ![p] = "copyout_write"] /\ loc' = loc /\ loc[p].val # None
  BY DEF CowMap, Return, Goto
<1>6. flags' \in [Proc -> [Page -> SUBSET Flag]]
  BY <1>1 DEF CowMap, CowFlags, ThreadInv, TypeOK, Flag
<1>7. CASE pc' = [pc EXCEPT ![p] = "user"] /\ loc' = [loc EXCEPT ![p] = NoLocals]
  <2>1. TypeOK'
    BY <1>4, <1>6, <1>7, NoLocalsType DEF ThreadInv, TypeOK, CowMap, memory, PcLabel
  <2>2. OwnerOK'
    BY <1>1, <1>7, NoLocalsType, LocType, OwnerDrop DEF ThreadInv, Building
  <2>3. LocalsOK'
    BY <1>4, <1>7, LocType, LocalsKeep DEF ThreadInv, Paging
  <2> QED
    BY <2>1, <2>2, <2>3 DEF ThreadInv
<1>8. CASE pc' = [pc EXCEPT ![p] = "copyout_write"] /\ loc' = loc /\ loc[p].val # None
  <2>1. TypeOK'
    BY <1>4, <1>6, <1>8 DEF ThreadInv, TypeOK, CowMap, memory, PcLabel
  <2>2. OwnerOK'
    BY <1>1, <1>8, LocType, OwnerKeep DEF ThreadInv, Building
  <2>3. LocalsOK'
    BY <1>1, <1>4, <1>8, LocType, LocalsKeep DEF ThreadInv
  <2> QED
    BY <2>1, <2>2, <2>3 DEF ThreadInv
<1> QED
  BY <1>5, <1>7, <1>8

LEMMA CopyoutWriteThread ==
  ASSUME ThreadInv, NEW p \in Proc, CopyoutWrite(p)
  PROVE  ThreadInv'
<1>1. pa' = pa /\ pc[p] = "copyout_write" /\ loc[p].cur \in Page /\ loc[p].val # None
  BY DEF CopyoutWrite, At, ThreadInv, LocalsOK, Paging
<1>2. loc \in [Proc -> Locals] /\ loc[p].val \in Value
  BY <1>1, LocType, LocFields DEF ThreadInv
<1>3. mem' \in [Frame -> Value \cup {Junk}]
  BY <1>2 DEF CopyoutWrite, ThreadInv, TypeOK
<1>4. CASE /\ loc[p].cur + 1 \in Page /\ pc' = [pc EXCEPT ![p] = "copyout"]
           /\ loc' = [loc EXCEPT ![p].cur = @ + 1]
  <2>1. loc[p].cur + 1 \in 0 .. MaxPage
    BY <1>4, PageAssumption DEF Page
  <2>2. /\ loc' \in [Proc -> Locals]
        /\ \A q \in Proc : q # p => loc'[q] = loc[q]
        /\ loc'[p].cur \in Page /\ loc'[p].val = loc[p].val /\ loc'[p].np = loc[p].np
    BY <1>2, <1>4, <2>1 DEF Locals
  <2>3. TypeOK'
    BY <1>3, <1>4, <2>2 DEF ThreadInv, TypeOK, CopyoutWrite, PcLabel
  <2>4. OwnerOK'
    BY <1>1, <1>4, <2>2, LocType, OwnerKeep DEF ThreadInv, Building
  <2>5. LocalsOK'
    BY <1>1, <1>4, <2>2, LocType, LocalsKeep DEF ThreadInv
  <2> QED
    BY <2>3, <2>4, <2>5 DEF ThreadInv
<1>5. CASE pc' = [pc EXCEPT ![p] = "user"] /\ loc' = [loc EXCEPT ![p] = NoLocals]
  <2>1. TypeOK'
    BY <1>3, <1>5, NoLocalsType DEF ThreadInv, TypeOK, CopyoutWrite, PcLabel
  <2>2. OwnerOK'
    BY <1>1, <1>5, LocType, NoLocalsType, OwnerDrop DEF ThreadInv, Building
  <2>3. LocalsOK'
    BY <1>1, <1>5, LocType, LocalsKeep DEF ThreadInv, Paging
  <2> QED
    BY <2>1, <2>2, <2>3 DEF ThreadInv
<1>6. CASE /\ loc[p].np # None /\ pc' = [pc EXCEPT ![p] = "freeproc"]
           /\ loc' = [loc EXCEPT ![p].cur = 0, ![p].val = None]
  <2>1. 0 \in 0 .. MaxPage
    BY PageAssumption
  <2>2. /\ loc' \in [Proc -> Locals]
        /\ \A q \in Proc : q # p => loc'[q] = loc[q]
        /\ loc'[p].np = loc[p].np
    BY <1>2, <1>6, <2>1, ZenonT(30) DEF Locals
  <2>3. TypeOK'
    BY <1>3, <1>6, <2>2 DEF ThreadInv, TypeOK, CopyoutWrite, PcLabel
  <2>4. OwnerOK'
    BY <1>1, <1>6, <2>2, LocType, OwnerKeep DEF ThreadInv
  <2>5. LocalsOK'
    BY <1>1, <1>6, <2>2, LocType, LocalsKeep DEF ThreadInv, Paging
  <2> QED
    BY <2>3, <2>4, <2>5 DEF ThreadInv
<1> QED
  BY <1>4, <1>5, <1>6 DEF CopyoutWrite, Return, Goto

LEMMA ForkThread ==
  ASSUME ThreadInv, NEW p \in Proc, NEW c \in Proc, Fork(p, c)
  PROVE  ThreadInv'
<1>1. loc' = [loc EXCEPT ![p].np = c]
  BY DEF Fork
<1>2. loc \in [Proc -> Locals]
  BY LocType DEF ThreadInv
<1>3. /\ loc' \in [Proc -> Locals]
      /\ \A q \in Proc : q # p => loc'[q] = loc[q]
      /\ loc'[p].np = c
  BY <1>1, <1>2 DEF Locals
<1>4. /\ pa' = pa /\ pc[p] = "user" /\ pc[c] = "unused"
      /\ pc' = [pc EXCEPT ![p] = "allocproc", ![c] = "embryo"]
  BY DEF Fork, InUser, At
<1>5. TypeOK'
  BY <1>3, <1>4 DEF ThreadInv, TypeOK, Fork, memory, PcLabel
<1>6. OwnerOK'
  BY <1>3, <1>4, LocType, OwnerTake DEF ThreadInv
<1>7. LocalsOK'
  BY <1>3, <1>4, LocType, LocalsKeep DEF ThreadInv, Paging
<1> QED
  BY <1>5, <1>6, <1>7 DEF ThreadInv

LEMMA AllocprocThread ==
  ASSUME ThreadInv, NEW p \in Proc, Allocproc(p)
  PROVE  ThreadInv'
<1> DEFINE c == loc[p].np
<1>1. /\ loc' = loc /\ pc' = pc /\ pc[p] = "allocproc"
      /\ c \in Proc /\ c # p /\ pc[c] \in {"embryo", "reaped"}
  BY Child DEF Allocproc, At, Building
<1>2. PICK s \in Slot : Kalloc(c, s, Junk)
  BY PageSlot DEF Allocproc, Missing
<1>3. /\ freelist' \in SUBSET Frame
      /\ useReference' \in [Frame -> Int]
      /\ limbo' \in [Proc -> Frame \cup {None}]
      /\ mem' \in [Frame -> Value \cup {Junk}]
      /\ pa' \in [Proc -> [Slot -> Frame \cup {None}]]
      /\ \A q \in Proc : q # c => pa'[q] = pa[q]
  BY <1>1, <1>2, KallocEffect DEF ThreadInv
<1>4. TypeOK'
  BY <1>1, <1>3 DEF ThreadInv, TypeOK, Allocproc
<1>5. OwnerOK'
  BY <1>1 DEF ThreadInv, OwnerOK
<1>6. LocalsOK'
  BY <1>1, <1>3, LocalsKeep DEF ThreadInv, Paging
<1> QED
  BY <1>4, <1>5, <1>6 DEF ThreadInv

LEMMA UvmcopyRefThread ==
  ASSUME ThreadInv, NEW p \in Proc, UvmcopyRef(p)
  PROVE  ThreadInv'
<1> DEFINE v == loc[p].cur
<1>1. /\ loc' = loc /\ pc[p] = "uvmcopy" /\ pc' = [pc EXCEPT ![p] = "uvmcopy_map"]
      /\ v < sz[p]
  BY DEF UvmcopyRef, At, Goto
<1>2. sz[p] \in 0 .. MaxPage /\ v \in 0 .. MaxPage
  BY LocFields DEF ThreadInv, TypeOK
<1>3. v \in Page
  BY <1>1, <1>2, PageAssumption DEF Page
<1>4. pa \in [Proc -> [Slot -> Frame \cup {None}]] /\ pa' = [pa EXCEPT ![p][Pa] = pa[p][v]]
  BY DEF ThreadInv, TypeOK, UvmcopyRef
<1>5. v \in Slot /\ Pa \in Slot /\ v # Pa
  BY <1>3, PageSlot, SlotAssumption
<1>6. /\ pa' \in [Proc -> [Slot -> Frame \cup {None}]]
      /\ \A q \in Proc : q # p => pa'[q] = pa[q]
      /\ pa'[p][Pa] = pa'[p][v]
  BY <1>4, <1>5
<1>7. flags' \in [Proc -> [Page -> SUBSET Flag]]
  BY <1>3 DEF ThreadInv, TypeOK, UvmcopyRef, MarkCow, Flag
<1>8. useReference' \in [Frame -> Int]
  <2>1. useReference \in [Frame -> Int] /\ CountReference(pa[p][v])
    BY DEF ThreadInv, TypeOK, UvmcopyRef
  <2>2. \A f \in Frame : useReference[f] + 1 \in Int
    BY <2>1
  <2> QED
    BY <2>1, <2>2 DEF CountReference
<1>9. TypeOK'
  BY <1>1, <1>6, <1>7, <1>8 DEF ThreadInv, TypeOK, UvmcopyRef, PcLabel
<1>10. OwnerOK'
  BY <1>1, LocType, OwnerKeep DEF ThreadInv, OwnerOK, Building
<1>11. LocalsOK'
  BY <1>1, <1>3, <1>6, LocType, LocalsKeep DEF ThreadInv
<1> QED
  BY <1>9, <1>10, <1>11 DEF ThreadInv

LEMMA UvmcopyWalkThread ==
  ASSUME ThreadInv, NEW p \in Proc, UvmcopyWalk(p)
  PROVE  ThreadInv'
<1> DEFINE c == loc[p].np
           v == loc[p].cur
<1>1. /\ loc' = loc /\ pc' = pc /\ pc[p] = "uvmcopy_map"
      /\ c \in Proc /\ c # p /\ pc[c] \in {"embryo", "reaped"}
  BY Child DEF UvmcopyWalk, At, Building
<1>2. v \in Page /\ pa[p][Pa] = pa[p][v]
  BY <1>1 DEF ThreadInv, LocalsOK, Paging
<1>3. Kalloc(c, LeafOf[v], Zero) /\ LeafOf[v] \in Slot
  BY <1>2, SlotAssumption, PageSlot DEF UvmcopyWalk
<1>4. /\ freelist' \in SUBSET Frame
      /\ useReference' \in [Frame -> Int]
      /\ limbo' \in [Proc -> Frame \cup {None}]
      /\ mem' \in [Frame -> Value \cup {Junk}]
      /\ pa' \in [Proc -> [Slot -> Frame \cup {None}]]
      /\ \A q \in Proc : q # c => pa'[q] = pa[q]
  BY <1>1, <1>3, ValueAssumption, KallocEffect DEF ThreadInv
<1>5. TypeOK'
  BY <1>1, <1>4 DEF ThreadInv, TypeOK, UvmcopyWalk
<1>6. OwnerOK'
  BY <1>1 DEF ThreadInv, OwnerOK
<1>7. LocalsOK'
  BY <1>1, <1>2, <1>4, LocalsKeep DEF ThreadInv, Paging
<1> QED
  BY <1>5, <1>6, <1>7 DEF ThreadInv

LEMMA UvmcopyMapThread ==
  ASSUME ThreadInv, NEW p \in Proc, UvmcopyMap(p)
  PROVE  ThreadInv'
<1> DEFINE v == loc[p].cur
           c == loc[p].np
<1>1. /\ pc[p] = "uvmcopy_map" /\ v \in Page
      /\ c \in Proc /\ c # p /\ pc[c] \in {"embryo", "reaped"}
  BY Child DEF UvmcopyMap, At, Building, ThreadInv, LocalsOK, Paging
<1>2. /\ pa \in [Proc -> [Slot -> Frame \cup {None}]]
      /\ pa' = [pa EXCEPT ![c][v] = pa[p][Pa], ![p][Pa] = None]
  BY DEF ThreadInv, TypeOK, UvmcopyMap
<1>3. /\ pa' \in [Proc -> [Slot -> Frame \cup {None}]]
      /\ \A q \in Proc : q # p /\ q # c => pa'[q] = pa[q]
  BY <1>1, <1>2, PageSlot
<1>4. /\ loc \in [Proc -> Locals] /\ loc' = [loc EXCEPT ![p].cur = v + 1]
      /\ v + 1 \in 0 .. MaxPage
  BY <1>1, LocType, PageAssumption DEF ThreadInv, UvmcopyMap, Page
<1>5. /\ loc' \in [Proc -> Locals]
      /\ \A q \in Proc : q # p => loc'[q] = loc[q]
      /\ loc'[p].np = c
  BY <1>4 DEF Locals
<1>6. pc' = [pc EXCEPT ![p] = "uvmcopy"]
  BY DEF UvmcopyMap, Goto
<1>7. flags' \in [Proc -> [Page -> SUBSET Flag]]
  BY <1>1 DEF UvmcopyMap, ThreadInv, TypeOK
<1>8. TypeOK'
  BY <1>3, <1>5, <1>6, <1>7 DEF ThreadInv, TypeOK, UvmcopyMap, memory, PcLabel
<1>9. c # None
  BY <1>1, ProcAssumption
<1>10. OwnerOK'
  BY <1>1, <1>5, <1>6, <1>9, LocType, OwnerKeep DEF ThreadInv
<1>11. LocalsOK'
  BY <1>1, <1>3, <1>5, <1>6, LocType, LocalsKeep DEF ThreadInv, Paging
<1> QED
  BY <1>8, <1>10, <1>11 DEF ThreadInv

LEMMA UvmcopyFailThread ==
  ASSUME ThreadInv, NEW p \in Proc, UvmcopyFail(p)
  PROVE  ThreadInv'
<1> DEFINE v == loc[p].cur
<1>1. /\ pc[p] = "uvmcopy_map" /\ pc' = [pc EXCEPT ![p] = "uvmcopy_err"]
      /\ loc[p].np \in Proc /\ loc[p].np # None
  BY Child, ProcAssumption DEF UvmcopyFail, At, Goto, Building
<1>2. /\ loc \in [Proc -> Locals] /\ loc' = [loc EXCEPT ![p].lim = v, ![p].cur = 0]
      /\ v \in 0 .. MaxPage /\ 0 \in 0 .. MaxPage
  BY LocType, LocFields, PageAssumption DEF ThreadInv, UvmcopyFail
<1>3. /\ loc' \in [Proc -> Locals]
      /\ \A q \in Proc : q # p => loc'[q] = loc[q]
      /\ loc'[p].np = loc[p].np
  BY <1>2 DEF Locals
<1>4. /\ pa \in [Proc -> [Slot -> Frame \cup {None}]] /\ pa' = [pa EXCEPT ![p][Pa] = None]
  BY DEF ThreadInv, TypeOK, UvmcopyFail
<1>5. /\ pa' \in [Proc -> [Slot -> Frame \cup {None}]]
      /\ \A q \in Proc : q # p => pa'[q] = pa[q]
  BY <1>4, PageSlot
<1>6. TypeOK'
  BY <1>1, <1>3, <1>5 DEF ThreadInv, TypeOK, UvmcopyFail, memory, PcLabel
<1>7. OwnerOK'
  BY <1>1, <1>3, LocType, OwnerKeep DEF ThreadInv
<1>8. LocalsOK'
  BY <1>1, <1>3, <1>5, LocType, LocalsKeep DEF ThreadInv, Paging
<1> QED
  BY <1>6, <1>7, <1>8 DEF ThreadInv

LEMMA UvmcopyErrThread ==
  ASSUME ThreadInv, NEW p \in Proc, UvmcopyErr(p)
  PROVE  ThreadInv'
<1> DEFINE v == loc[p].cur
           c == loc[p].np
<1>1. /\ pc[p] = "uvmcopy_err" /\ c \in Proc /\ c # p /\ c # None
      /\ pc[c] \in {"embryo", "reaped"}
  BY Child, ProcAssumption DEF UvmcopyErr, At, Building
<1>2. /\ loc \in [Proc -> Locals] /\ v \in 0 .. MaxPage /\ loc[p].lim \in 0 .. MaxPage
      /\ 0 \in 0 .. MaxPage
  BY LocType, LocFields, PageAssumption DEF ThreadInv
<1>3. CASE v < loc[p].lim
  <2>1. v \in Page /\ v + 1 \in 0 .. MaxPage
    BY <1>2, <1>3, PageAssumption DEF Page
  <2>2. loc' = [loc EXCEPT ![p].cur = @ + 1] /\ pc' = pc /\ Unmap(p, c, v)
    BY <1>3 DEF UvmcopyErr
  <2>3. /\ loc' \in [Proc -> Locals]
        /\ \A q \in Proc : q # p => loc'[q] = loc[q]
        /\ loc'[p].np = c
    BY <1>2, <2>1, <2>2 DEF Locals
  <2>4. UnmapType /\ \A q \in Proc : q # c => pa'[q] = pa[q]
    BY <1>1, <2>1, <2>2, UnmapEffect DEF ThreadInv
  <2>5. TypeOK'
    BY <2>2, <2>3, <2>4 DEF ThreadInv, TypeOK, UnmapType, UvmcopyErr
  <2>6. OwnerOK'
    BY <1>1, <2>2, <2>3, OwnerKeep DEF ThreadInv
  <2>7. LocalsOK'
    BY <1>1, <2>2, <2>3, <2>4, LocalsKeep DEF ThreadInv, Paging
  <2> QED
    BY <2>5, <2>6, <2>7 DEF ThreadInv
<1>4. CASE ~(v < loc[p].lim)
  <2>1. /\ loc' = [loc EXCEPT ![p].cur = 0, ![p].lim = 0]
        /\ pc' = [pc EXCEPT ![p] = "freeproc"] /\ UNCHANGED <<memory, pa, flags>>
    BY <1>4 DEF UvmcopyErr, Goto
  <2>2. /\ loc' \in [Proc -> Locals]
        /\ \A q \in Proc : q # p => loc'[q] = loc[q]
        /\ loc'[p].np = c
    BY <1>2, <2>1 DEF Locals
  <2>3. TypeOK'
    BY <2>1, <2>2 DEF ThreadInv, TypeOK, UvmcopyErr, memory, PcLabel
  <2>4. OwnerOK'
    BY <1>1, <2>1, <2>2, LocType, OwnerKeep DEF ThreadInv
  <2>5. LocalsOK'
    BY <1>1, <2>1, <2>2, LocType, LocalsKeep DEF ThreadInv, Paging
  <2> QED
    BY <2>3, <2>4, <2>5 DEF ThreadInv
<1> QED
  BY <1>3, <1>4

LEMMA ForkDoneThread ==
  ASSUME ThreadInv, NEW p \in Proc, ForkDone(p)
  PROVE  ThreadInv'
<1> DEFINE c == loc[p].np
<1>1. /\ pc[p] = "uvmcopy" /\ c \in Proc /\ c # p /\ c # None
      /\ pc[c] \in {"embryo", "reaped"}
      /\ pa' = pa /\ pc' = [pc EXCEPT ![p] = "user", ![c] = "user"]
      /\ loc' = [loc EXCEPT ![p] = NoLocals]
  BY Child, ProcAssumption DEF ForkDone, At, Building
<1>2. sz' \in [Proc -> 0 .. MaxPage] /\ parent' \in [Proc -> Proc \cup {None}]
  BY DEF ThreadInv, TypeOK, ForkDone
<1>3. TypeOK'
  <2>1. pc' \in [Proc -> PcLabel] /\ loc' \in [Proc -> Locals]
    BY <1>1, LocType, NoLocalsType DEF ThreadInv, PcLabel
  <2> QED
    BY <1>1, <1>2, <2>1 DEF ThreadInv, TypeOK, ForkDone, memory
<1>4. OwnerOK'
  BY <1>1, LocType, NoLocalsType, OwnerDrop DEF ThreadInv, Building
<1>5. LocalsOK'
  BY <1>1, LocType, LocalsKeep DEF ThreadInv, Paging
<1> QED
  BY <1>3, <1>4, <1>5 DEF ThreadInv

LEMMA WaitThread ==
  ASSUME ThreadInv, NEW p \in Proc, NEW c \in Proc, Wait(p, c)
  PROVE  ThreadInv'
<1>1. pc[p] = "user" /\ pc[c] = "zombie" /\ c # p /\ pa' = pa
  BY DEF Wait, InUser, At
<1>2. loc \in [Proc -> Locals]
  BY LocType DEF ThreadInv
<1>3. /\ loc' \in [Proc -> Locals]
      /\ \A q \in Proc : q # p => loc'[q] = loc[q]
      /\ loc'[p].np = c
      /\ \/ pc' = [pc EXCEPT ![p] = "freeproc", ![c] = "reaped"]
         \/ /\ pc' = [pc EXCEPT ![p] = "copyout", ![c] = "reaped"]
            /\ loc'[p].cur \in Page /\ loc'[p].val # None
  <2>1. CASE /\ pc' = [pc EXCEPT ![p] = "freeproc", ![c] = "reaped"]
             /\ loc' = [loc EXCEPT ![p].np = c]
    BY <1>2, <2>1 DEF Locals
  <2>2. CASE \E v \in Page, x \in Value :
               /\ pc' = [pc EXCEPT ![p] = "copyout", ![c] = "reaped"]
               /\ loc' = [loc EXCEPT ![p].np = c, ![p].cur = v, ![p].val = x]
    <3>1. PICK v \in Page, x \in Value :
               /\ pc' = [pc EXCEPT ![p] = "copyout", ![c] = "reaped"]
               /\ loc' = [loc EXCEPT ![p].np = c, ![p].cur = v, ![p].val = x]
      BY <2>2
    <3>2. v \in 0 .. MaxPage /\ x # None
      BY PageAssumption, ValueAssumption DEF Page
    <3>3. /\ loc' \in [Proc -> Locals]
          /\ \A q \in Proc : q # p => loc'[q] = loc[q]
          /\ loc'[p].np = c /\ loc'[p].cur = v /\ loc'[p].val = x
      BY <1>2, <3>1, <3>2 DEF Locals
    <3> QED
      BY <3>1, <3>2, <3>3
  <2> QED
    BY <2>1, <2>2 DEF Wait
<1>4. TypeOK'
  <2>1. pc' \in [Proc -> PcLabel]
    BY <1>3, LocType DEF ThreadInv, PcLabel
  <2> QED
    BY <1>1, <1>3, <2>1 DEF ThreadInv, TypeOK, Wait, memory
<1>5. OwnerOK'
  BY <1>1, <1>3, LocType, OwnerTake DEF ThreadInv
<1>6. LocalsOK'
  BY <1>1, <1>3, LocType, LocalsKeep DEF ThreadInv, Paging
<1> QED
  BY <1>4, <1>5, <1>6 DEF ThreadInv

LEMMA FreeprocThread ==
  ASSUME ThreadInv, NEW p \in Proc, Freeproc(p)
  PROVE  ThreadInv'
<1> DEFINE c == loc[p].np
<1>1. /\ loc' = loc /\ pc' = pc /\ pc[p] = "freeproc"
      /\ c \in Proc /\ c # p /\ pc[c] \in {"embryo", "reaped"}
  BY Child DEF Freeproc, At, Building
<1>2. UnmapType /\ \A q \in Proc : q # c => pa'[q] = pa[q]
  <2>1. PICK s \in FreeNext(c) :
          IF s \in Page THEN Unmap(p, c, s) ELSE Kfree(p, c, s) /\ UNCHANGED flags
    BY DEF Freeproc
  <2>2. s \in Slot
    BY PageSlot DEF FreeNext
  <2>3. CASE s \in Page
    BY <1>1, <2>1, <2>3, UnmapEffect DEF ThreadInv
  <2>4. CASE s \notin Page
    BY <1>1, <2>1, <2>2, <2>4, KfreeEffect DEF ThreadInv, UnmapType, TypeOK
  <2> QED
    BY <2>3, <2>4
<1>3. TypeOK'
  BY <1>1, <1>2 DEF ThreadInv, TypeOK, UnmapType, Freeproc
<1>4. OwnerOK'
  BY <1>1 DEF ThreadInv, OwnerOK
<1>5. LocalsOK'
  BY <1>1, <1>2, LocalsKeep DEF ThreadInv, Paging
<1> QED
  BY <1>3, <1>4, <1>5 DEF ThreadInv

LEMMA FreeprocDoneThread ==
  ASSUME ThreadInv, NEW p \in Proc, FreeprocDone(p)
  PROVE  ThreadInv'
<1> DEFINE c == loc[p].np
<1>1. /\ pc[p] = "freeproc" /\ c \in Proc /\ c # p /\ c # None
      /\ pc[c] \in {"embryo", "reaped"}
      /\ pa' = pa /\ pc' = [pc EXCEPT ![p] = "user", ![c] = "unused"]
      /\ loc' = [loc EXCEPT ![p] = NoLocals]
  BY Child, ProcAssumption DEF FreeprocDone, At, Building
<1>2. sz' \in [Proc -> 0 .. MaxPage] /\ parent' \in [Proc -> Proc \cup {None}]
  <2>1. 0 \in 0 .. MaxPage
    BY PageAssumption
  <2> QED
    BY <2>1 DEF ThreadInv, TypeOK, FreeprocDone
<1>3. TypeOK'
  <2>1. pc' \in [Proc -> PcLabel] /\ loc' \in [Proc -> Locals]
    BY <1>1, LocType, NoLocalsType DEF ThreadInv, PcLabel
  <2> QED
    BY <1>1, <1>2, <2>1 DEF ThreadInv, TypeOK, FreeprocDone, memory
<1>4. OwnerOK'
  BY <1>1, LocType, NoLocalsType, OwnerDrop DEF ThreadInv, Building
<1>5. LocalsOK'
  BY <1>1, LocType, LocalsKeep DEF ThreadInv, Paging
<1> QED
  BY <1>3, <1>4, <1>5 DEF ThreadInv

LEMMA GrowThread ==
  ASSUME ThreadInv, NEW p \in Proc, NEW n \in 0 .. MaxPage, Grow(p, n)
  PROVE  ThreadInv'
<1>1. /\ loc \in [Proc -> Locals] /\ loc' = [loc EXCEPT ![p].cur = sz[p], ![p].lim = n]
      /\ sz[p] \in 0 .. MaxPage
  BY LocType, LocFields DEF ThreadInv, TypeOK, Grow
<1>2. /\ loc' \in [Proc -> Locals]
      /\ \A q \in Proc : q # p => loc'[q] = loc[q]
      /\ loc'[p].np = loc[p].np
  BY <1>1 DEF Locals
<1>3. pa' = pa /\ pc[p] = "user" /\ pc' = [pc EXCEPT ![p] = "uvmalloc"]
  BY DEF Grow, At, Goto, InUser
<1>4. TypeOK'
  BY <1>2, <1>3 DEF ThreadInv, TypeOK, Grow, memory, PcLabel
<1>5. OwnerOK'
  BY <1>2, <1>3, LocType, OwnerKeep DEF ThreadInv, Building
<1>6. LocalsOK'
  BY <1>2, <1>3, LocType, LocalsKeep DEF ThreadInv, Paging
<1> QED
  BY <1>4, <1>5, <1>6 DEF ThreadInv

LEMMA ShrinkThread ==
  ASSUME ThreadInv, NEW p \in Proc, NEW n \in 0 .. MaxPage, Shrink(p, n)
  PROVE  ThreadInv'
<1>1. /\ loc \in [Proc -> Locals] /\ loc' = [loc EXCEPT ![p].cur = n, ![p].lim = sz[p], ![p].newsz = n]
      /\ sz[p] \in 0 .. MaxPage
  BY LocType, LocFields DEF ThreadInv, TypeOK, Shrink, DeallocFrom
<1>2. /\ loc' \in [Proc -> Locals]
      /\ \A q \in Proc : q # p => loc'[q] = loc[q]
      /\ loc'[p].np = loc[p].np
  BY <1>1, ZenonT(30) DEF Locals
<1>3. pa' = pa /\ pc[p] = "user" /\ pc' = [pc EXCEPT ![p] = "uvmdealloc"]
  BY DEF Shrink, At, Goto, InUser, DeallocFrom
<1>4. TypeOK'
  BY <1>2, <1>3 DEF ThreadInv, TypeOK, Shrink, memory, PcLabel
<1>5. OwnerOK'
  BY <1>2, <1>3, LocType, OwnerKeep DEF ThreadInv, Building
<1>6. LocalsOK'
  BY <1>2, <1>3, LocType, LocalsKeep DEF ThreadInv, Paging
<1> QED
  BY <1>4, <1>5, <1>6 DEF ThreadInv

LEMMA UvmallocNoMemThread ==
  ASSUME ThreadInv, NEW p \in Proc, UvmallocNoMem(p)
  PROVE  ThreadInv'
<1>1. /\ loc \in [Proc -> Locals] /\ loc' = [loc EXCEPT ![p].cur = sz[p], ![p].lim = loc[p].cur, ![p].newsz = sz[p]]
      /\ sz[p] \in 0 .. MaxPage /\ loc[p].cur \in 0 .. MaxPage
  BY LocType, LocFields DEF ThreadInv, TypeOK, UvmallocNoMem, DeallocFrom
<1>2. /\ loc' \in [Proc -> Locals]
      /\ \A q \in Proc : q # p => loc'[q] = loc[q]
      /\ loc'[p].np = loc[p].np
  BY <1>1 DEF Locals
<1>3. pa' = pa /\ pc[p] = "uvmalloc" /\ pc' = [pc EXCEPT ![p] = "uvmdealloc"]
  BY DEF UvmallocNoMem, At, Goto, DeallocFrom
<1>4. TypeOK'
  BY <1>2, <1>3 DEF ThreadInv, TypeOK, UvmallocNoMem, memory, PcLabel
<1>5. OwnerOK'
  BY <1>2, <1>3, LocType, OwnerKeep DEF ThreadInv, Building
<1>6. LocalsOK'
  BY <1>2, <1>3, LocType, LocalsKeep DEF ThreadInv, Paging
<1> QED
  BY <1>4, <1>5, <1>6 DEF ThreadInv

LEMMA UvmallocThread ==
  ASSUME ThreadInv, NEW p \in Proc, Uvmalloc(p)
  PROVE  ThreadInv'
<1>1. /\ loc' = loc /\ pc[p] = "uvmalloc" /\ pc' = [pc EXCEPT ![p] = "uvmalloc_map"]
      /\ loc[p].cur < loc[p].lim /\ Kalloc(p, Mem, Zero)
  BY DEF Uvmalloc, At, Goto
<1>2. loc[p].cur \in Page
  BY <1>1, LocFields, PageAssumption DEF ThreadInv, Page
<1>3. /\ freelist' \in SUBSET Frame
      /\ useReference' \in [Frame -> Int]
      /\ limbo' \in [Proc -> Frame \cup {None}]
      /\ mem' \in [Frame -> Value \cup {Junk}]
      /\ pa' \in [Proc -> [Slot -> Frame \cup {None}]]
      /\ \A q \in Proc : q # p => pa'[q] = pa[q]
  BY <1>1, PageSlot, ValueAssumption, KallocEffect DEF ThreadInv
<1>4. TypeOK'
  BY <1>1, <1>3 DEF ThreadInv, TypeOK, Uvmalloc, PcLabel
<1>5. OwnerOK'
  BY <1>1, LocType, OwnerKeep DEF ThreadInv, Building
<1>6. LocalsOK'
  BY <1>1, <1>2, <1>3, LocType, LocalsKeep DEF ThreadInv
<1> QED
  BY <1>4, <1>5, <1>6 DEF ThreadInv

LEMMA UvmallocWalkThread ==
  ASSUME ThreadInv, NEW p \in Proc, UvmallocWalk(p)
  PROVE  ThreadInv'
<1> DEFINE v == loc[p].cur
<1>1. /\ loc' = loc /\ pc' = pc /\ pc[p] = "uvmalloc_map" /\ v \in Page
  BY DEF UvmallocWalk, At, ThreadInv, LocalsOK, Paging
<1>2. Kalloc(p, LeafOf[v], Zero) /\ LeafOf[v] \in Slot
  BY <1>1, SlotAssumption, PageSlot DEF UvmallocWalk
<1>3. /\ freelist' \in SUBSET Frame
      /\ useReference' \in [Frame -> Int]
      /\ limbo' \in [Proc -> Frame \cup {None}]
      /\ mem' \in [Frame -> Value \cup {Junk}]
      /\ pa' \in [Proc -> [Slot -> Frame \cup {None}]]
      /\ \A q \in Proc : q # p => pa'[q] = pa[q]
  BY <1>1, <1>2, ValueAssumption, KallocEffect DEF ThreadInv
<1>4. TypeOK'
  BY <1>1, <1>3 DEF ThreadInv, TypeOK, UvmallocWalk
<1>5. OwnerOK'
  BY <1>1 DEF ThreadInv, OwnerOK
<1>6. LocalsOK'
  BY <1>1, <1>3, LocalsKeep DEF ThreadInv
<1> QED
  BY <1>4, <1>5, <1>6 DEF ThreadInv

LEMMA UvmallocMapThread ==
  ASSUME ThreadInv, NEW p \in Proc, UvmallocMap(p)
  PROVE  ThreadInv'
<1> DEFINE v == loc[p].cur
<1>1. /\ pc[p] = "uvmalloc_map" /\ v \in Page
      /\ pc' = [pc EXCEPT ![p] = "uvmalloc"]
  BY DEF UvmallocMap, At, Goto, ThreadInv, LocalsOK, Paging
<1>2. /\ pa \in [Proc -> [Slot -> Frame \cup {None}]]
      /\ pa' = [pa EXCEPT ![p][v] = pa[p][Mem], ![p][Mem] = None]
  BY DEF ThreadInv, TypeOK, UvmallocMap
<1>3. /\ pa' \in [Proc -> [Slot -> Frame \cup {None}]]
      /\ \A q \in Proc : q # p => pa'[q] = pa[q]
  BY <1>1, <1>2, PageSlot
<1>4. /\ loc \in [Proc -> Locals] /\ loc' = [loc EXCEPT ![p].cur = v + 1]
      /\ v + 1 \in 0 .. MaxPage
  BY <1>1, LocType, PageAssumption DEF ThreadInv, UvmallocMap, Page
<1>5. /\ loc' \in [Proc -> Locals]
      /\ \A q \in Proc : q # p => loc'[q] = loc[q]
      /\ loc'[p].np = loc[p].np
  BY <1>4 DEF Locals
<1>6. flags' \in [Proc -> [Page -> SUBSET Flag]]
  BY <1>1 DEF UvmallocMap, ThreadInv, TypeOK, Flag
<1>7. TypeOK'
  BY <1>1, <1>3, <1>5, <1>6 DEF ThreadInv, TypeOK, UvmallocMap, memory, PcLabel
<1>8. OwnerOK'
  BY <1>1, <1>5, LocType, OwnerKeep DEF ThreadInv, Building
<1>9. LocalsOK'
  BY <1>1, <1>3, <1>5, LocType, LocalsKeep DEF ThreadInv, Paging
<1> QED
  BY <1>7, <1>8, <1>9 DEF ThreadInv

LEMMA UvmallocFailThread ==
  ASSUME ThreadInv, NEW p \in Proc, UvmallocFail(p)
  PROVE  ThreadInv'
<1>1. /\ pc[p] = "uvmalloc_map" /\ pc' = [pc EXCEPT ![p] = "uvmdealloc"]
      /\ Kfree(p, p, Mem)
  BY DEF UvmallocFail, At, Goto, DeallocFrom
<1>2. /\ loc \in [Proc -> Locals]
      /\ loc' = [loc EXCEPT ![p].cur = sz[p], ![p].lim = loc[p].cur, ![p].newsz = sz[p]]
      /\ sz[p] \in 0 .. MaxPage /\ loc[p].cur \in 0 .. MaxPage
  BY LocType, LocFields DEF ThreadInv, TypeOK, UvmallocFail, DeallocFrom
<1>3. /\ loc' \in [Proc -> Locals]
      /\ \A q \in Proc : q # p => loc'[q] = loc[q]
      /\ loc'[p].np = loc[p].np
  BY <1>2 DEF Locals
<1>4. /\ freelist' \in SUBSET Frame
      /\ useReference' \in [Frame -> Int]
      /\ limbo' \in [Proc -> Frame \cup {None}]
      /\ mem' \in [Frame -> Value \cup {Junk}]
      /\ pa' \in [Proc -> [Slot -> Frame \cup {None}]]
      /\ \A q \in Proc : q # p => pa'[q] = pa[q]
  BY <1>1, PageSlot, KfreeEffect DEF ThreadInv
<1>5. TypeOK'
  BY <1>1, <1>3, <1>4 DEF ThreadInv, TypeOK, UvmallocFail, PcLabel
<1>6. OwnerOK'
  BY <1>1, <1>3, LocType, OwnerKeep DEF ThreadInv, Building
<1>7. LocalsOK'
  BY <1>1, <1>3, <1>4, LocType, LocalsKeep DEF ThreadInv, Paging
<1> QED
  BY <1>5, <1>6, <1>7 DEF ThreadInv

LEMMA GrowDoneThread ==
  ASSUME ThreadInv, NEW p \in Proc, GrowDone(p)
  PROVE  ThreadInv'
<1>1. /\ pc[p] = "uvmalloc" /\ pa' = pa /\ pc' = [pc EXCEPT ![p] = "user"]
      /\ loc' = [loc EXCEPT ![p] = NoLocals]
  BY DEF GrowDone, At, Return, Goto
<1>2. sz' \in [Proc -> 0 .. MaxPage]
  BY LocFields DEF ThreadInv, TypeOK, GrowDone
<1>3. TypeOK'
  BY <1>1, <1>2, NoLocalsType DEF ThreadInv, TypeOK, GrowDone, memory, PcLabel
<1>4. OwnerOK'
  BY <1>1, LocType, NoLocalsType, OwnerDrop DEF ThreadInv, Building
<1>5. LocalsOK'
  BY <1>1, LocType, LocalsKeep DEF ThreadInv, Paging
<1> QED
  BY <1>3, <1>4, <1>5 DEF ThreadInv

LEMMA UvmdeallocThread ==
  ASSUME ThreadInv, NEW p \in Proc, Uvmdealloc(p)
  PROVE  ThreadInv'
<1> DEFINE v == loc[p].cur
<1>1. pc[p] = "uvmdealloc"
  BY DEF Uvmdealloc, At
<1>2. /\ loc \in [Proc -> Locals] /\ v \in 0 .. MaxPage /\ loc[p].lim \in 0 .. MaxPage
      /\ loc[p].newsz \in 0 .. MaxPage
  BY LocType, LocFields DEF ThreadInv
<1>3. CASE v < loc[p].lim
  <2>1. v \in Page /\ v + 1 \in 0 .. MaxPage
    BY <1>2, <1>3, PageAssumption DEF Page
  <2>2. /\ loc' = [loc EXCEPT ![p].cur = @ + 1] /\ pc' = pc /\ sz' = sz
        /\ Unmap(p, p, v)
    BY <1>3 DEF Uvmdealloc
  <2>3. /\ loc' \in [Proc -> Locals]
        /\ \A q \in Proc : q # p => loc'[q] = loc[q]
        /\ loc'[p].np = loc[p].np
    BY <1>2, <2>1, <2>2 DEF Locals
  <2>4. UnmapType /\ \A q \in Proc : q # p => pa'[q] = pa[q]
    BY <2>1, <2>2, UnmapEffect DEF ThreadInv
  <2>5. TypeOK'
    BY <2>2, <2>3, <2>4 DEF ThreadInv, TypeOK, UnmapType, Uvmdealloc
  <2>6. OwnerOK'
    BY <1>1, <2>2, <2>3, OwnerKeep DEF ThreadInv, Building
  <2>7. LocalsOK'
    BY <1>1, <2>2, <2>3, <2>4, LocalsKeep DEF ThreadInv, Paging
  <2> QED
    BY <2>5, <2>6, <2>7 DEF ThreadInv
<1>4. CASE ~(v < loc[p].lim)
  <2>1. /\ loc' = [loc EXCEPT ![p] = NoLocals]
        /\ pc' = [pc EXCEPT ![p] = "user"] /\ UNCHANGED <<memory, pa, flags>>
        /\ sz' = [sz EXCEPT ![p] = loc[p].newsz]
    BY <1>4 DEF Uvmdealloc, Return, Goto
  <2>2. sz' \in [Proc -> 0 .. MaxPage]
    BY <1>2, <2>1 DEF ThreadInv, TypeOK
  <2>3. TypeOK'
    BY <2>1, <2>2, NoLocalsType DEF ThreadInv, TypeOK, Uvmdealloc, memory, PcLabel
  <2>4. OwnerOK'
    BY <1>1, <2>1, LocType, NoLocalsType, OwnerDrop DEF ThreadInv, Building
  <2>5. LocalsOK'
    BY <2>1, LocType, LocalsKeep DEF ThreadInv, Paging
  <2> QED
    BY <2>3, <2>4, <2>5 DEF ThreadInv
<1> QED
  BY <1>3, <1>4

LEMMA NextThread == ThreadInv /\ [Next]_vars => ThreadInv'
<1> SUFFICES ASSUME ThreadInv, [Next]_vars PROVE ThreadInv'
  OBVIOUS
<1>1. CASE UNCHANGED vars
  BY <1>1 DEF ThreadInv, TypeOK, OwnerOK, LocalsOK, vars, memory
<1>2. CASE Next
  <2>1. PICK p \in Proc : KfreePush(p) \/ Fault(p) \/ ForkStep(p) \/ ExitStep(p) \/ SbrkStep(p)
    BY <1>2 DEF Next
  <2>2. CASE KfreePush(p)
    BY <2>2, KfreePushThread
  <2>3. CASE Fault(p)
    BY <2>3, StoreThread, CopyoutThread, StoreFaultThread, StoreKillThread, CopyoutPageThread,
       CopyoutFailThread, CowCopyThread, CowKfreeThread, CowMapThread, CopyoutWriteThread DEF Fault
  <2>4. CASE ForkStep(p)
    BY <2>4, ForkThread, AllocprocThread, AllocprocFailThread, AllocprocDoneThread,
       UvmcopyRefThread, UvmcopyWalkThread, UvmcopyMapThread, UvmcopyFailThread,
       UvmcopyErrThread, ForkDoneThread DEF ForkStep
  <2>5. CASE ExitStep(p)
    BY <2>5, ExitThread, InitPanicThread, WaitThread, FreeprocThread, FreeprocDoneThread DEF ExitStep
  <2>6. CASE SbrkStep(p)
    BY <2>6, GrowThread, ShrinkThread, UvmallocThread, UvmallocNoMemThread, UvmallocWalkThread,
       UvmallocMapThread, UvmallocFailThread, GrowDoneThread, UvmdeallocThread DEF SbrkStep
  <2> QED
    BY <2>1, <2>2, <2>3, <2>4, <2>5, <2>6
<1> QED
  BY <1>1, <1>2

LEMMA AlwaysThread == Spec => []ThreadInv
  BY InitThread, NextThread, PTL DEF Spec

\* Every variable keeps its type: in particular no loop of fork(), sbrk() or
\* exit() runs past the last page, whatever fails on the way.
THEOREM TypeCorrect == Spec => []TypeOK
<1>1. ThreadInv => TypeOK
  BY DEF ThreadInv
<1> QED
  BY <1>1, AlwaysThread, PTL

-----------------------------------------------------------------------------
(* What a step does to the free list, the counts and the slots.  Every     *)
(* action is one of seven kinds.                                           *)

Lists == <<freelist, useReference, limbo>>

\* Flags are only taken away.
FlagsShrink == \A q \in Proc, v \in Page : flags'[q][v] \subseteq flags[q][v]

NoEffect == UNCHANGED <<Lists, pa, flags>>

AllocEffect(q, s) == \E c \in Value \cup {Junk} : Kalloc(q, s, c) /\ flags' = flags

FreeEffect(p, q, s) == limbo[p] = None /\ Kfree(p, q, s) /\ FlagsShrink

\* uvmcopy() counts a reference to page v, which becomes read-only.
ShareEffect(p, v) ==
  /\ pa[p][v] # None
  /\ pa' = [pa EXCEPT ![p][Pa] = pa[p][v]]
  /\ CountReference(pa[p][v])
  /\ flags' = [flags EXCEPT ![p][v] = MarkCow(@)]
  /\ UNCHANGED <<freelist, limbo>>

\* A local of p gives its page to page v of q, writable if nobody shares it.
MoveEffect(p, t, q, v) ==
  /\ pa' = [pa EXCEPT ![q][v] = pa[p][t], ![p][t] = None]
  /\ t = Pa /\ pa[p][Pa] # None => "PTE_W" \notin flags'[q][v]
  /\ \A r \in Proc, w \in Page : <<r, w>> # <<q, v>> => flags'[r][w] = flags[r][w]
  /\ UNCHANGED Lists

\* uvmcopy() forgets a page and keeps the count.
DropEffect(p) == pa' = [pa EXCEPT ![p][Pa] = None] /\ UNCHANGED <<Lists, flags>>

Effect ==
  \/ NoEffect
  \/ \E q \in Proc, s \in Slot : AllocEffect(q, s)
  \/ \E p, q \in Proc, s \in Slot : FreeEffect(p, q, s)
  \/ \E p \in Proc : KfreePush(p)
  \/ \E p \in Proc, v \in Page : ShareEffect(p, v)
  \/ \E p, q \in Proc, t \in {Mem, Pa}, v \in Page : MoveEffect(p, t, q, v)
  \/ \E p \in Proc : DropEffect(p)

LEMMA UnmapShrinks ==
  ASSUME TypeOK, NEW p \in Proc, NEW q \in Proc, NEW v \in Page, Unmap(p, q, v)
  PROVE  Kfree(p, q, v) /\ FlagsShrink
  BY DEF TypeOK, Unmap, FlagsShrink

LEMMA NextEffect ==
  ASSUME ThreadInv, SharedReadOnly, Next
  PROVE  Effect
<1>1. PICK p \in Proc : KfreePush(p) \/ Fault(p) \/ ForkStep(p) \/ ExitStep(p) \/ SbrkStep(p)
  BY DEF Next
<1>2. Junk \in Value \cup {Junk} /\ Zero \in Value \cup {Junk} /\ Mem \in Slot /\ Pa \in Slot
      /\ pa \in [Proc -> [Slot -> Frame \cup {None}]]
      /\ flags \in [Proc -> [Page -> SUBSET Flag]]
  BY ValueAssumption, PageSlot DEF ThreadInv, TypeOK
<1>3. ASSUME NEW s \in Slot, NEW q \in Proc, Kalloc(q, s, Junk) \/ Kalloc(q, s, Zero), flags' = flags
      PROVE  Effect
  BY <1>2, <1>3 DEF Effect, AllocEffect
<1>4. CASE KfreePush(p)
  BY <1>4 DEF Effect
<1>5. CASE Fault(p)
  <2>1. ASSUME NEW v \in Page, NEW x \in Value, Store(p, v, x) \/ Copyout(p, v, x)  PROVE Effect
    BY <2>1 DEF Store, Copyout, memory, Effect, NoEffect, Lists
  <2>2. ASSUME NEW v \in Page, StoreFault(p, v)  PROVE Effect
    BY <1>2, <1>3, <2>2 DEF StoreFault
  <2>3. ASSUME NEW v \in Page, StoreKill(p, v)  PROVE Effect
    BY <2>3 DEF StoreKill, memory, Effect, NoEffect, Lists
  <2>4. CASE CopyoutPage(p)
    <3>1. flags' = flags /\ (Kalloc(p, Mem, Junk) \/ UNCHANGED <<memory, pa>>)
      BY <2>4 DEF CopyoutPage
    <3> QED
      BY <1>2, <1>3, <3>1 DEF memory, Effect, NoEffect, Lists
  <2>5. CASE CopyoutFail(p) \/ CowCopy(p) \/ CopyoutWrite(p)
    BY <2>5 DEF CopyoutFail, CowCopy, CopyoutWrite, memory, Effect, NoEffect, Lists
  <2>6. CASE CowKfree(p)
    <3>1. Kfree(p, p, loc[p].cur) /\ limbo[p] = None /\ flags' = flags
      BY <2>6 DEF CowKfree, At
    <3>2. loc[p].cur \in Slot
      BY <2>6, PageSlot DEF CowKfree, At, ThreadInv, LocalsOK, Paging
    <3>3. FreeEffect(p, p, loc[p].cur)
      BY <3>1 DEF FreeEffect, FlagsShrink
    <3> QED
      BY <3>2, <3>3 DEF Effect
  <2>7. CASE CowMap(p)
    <3>1. loc[p].cur \in Page
      BY <2>7 DEF CowMap, At, ThreadInv, LocalsOK, Paging
    <3>2. MoveEffect(p, Mem, p, loc[p].cur)
      BY <1>2, <2>7, <3>1, SlotAssumption DEF CowMap, MoveEffect, memory, Lists
    <3> QED
      BY <3>1, <3>2 DEF Effect
  <2> QED
    BY <1>5, <2>1, <2>2, <2>3, <2>4, <2>5, <2>6, <2>7 DEF Fault
<1>6. CASE ForkStep(p)
  <2>1. ASSUME NEW c \in Proc, Fork(p, c)  PROVE Effect
    BY <2>1 DEF Fork, memory, Effect, NoEffect, Lists
  <2>2. CASE Allocproc(p)
    <3>1. PICK s \in Missing(loc[p].np) : Kalloc(loc[p].np, s, Junk)
      BY <2>2 DEF Allocproc
    <3>2. s \in Slot /\ loc[p].np \in Proc /\ flags' = flags
      BY <2>2, PageSlot, Child DEF Missing, Allocproc, At, Building
    <3> QED
      BY <1>3, <3>1, <3>2
  <2>3. CASE AllocprocFail(p) \/ AllocprocDone(p) \/ ForkDone(p)
    BY <2>3 DEF AllocprocFail, AllocprocDone, ForkDone, memory, Effect, NoEffect, Lists
  <2>4. CASE UvmcopyRef(p)
    <3>1. loc[p].cur \in Page
      BY <2>4, LocFields, PageAssumption DEF UvmcopyRef, At, ThreadInv, TypeOK, Page
    <3>2. ShareEffect(p, loc[p].cur)
      BY <2>4 DEF UvmcopyRef, ShareEffect, Mapped
    <3> QED
      BY <3>1, <3>2 DEF Effect
  <2>5. CASE UvmcopyWalk(p)
    <3>1. pc[p] = "uvmcopy_map" /\ Kalloc(loc[p].np, LeafOf[loc[p].cur], Zero) /\ flags' = flags
      BY <2>5 DEF UvmcopyWalk, At
    <3>2. loc[p].np \in Proc /\ loc[p].cur \in Page
      BY <3>1, Child DEF Building, ThreadInv, LocalsOK, Paging
    <3>3. LeafOf[loc[p].cur] \in Slot
      BY <3>2, SlotAssumption, PageSlot
    <3> QED
      BY <1>3, <3>1, <3>2, <3>3
  <2>6. CASE UvmcopyMap(p)
    <3> DEFINE v == loc[p].cur
               c == loc[p].np
    <3>1. pc[p] = "uvmcopy_map"
      BY <2>6 DEF UvmcopyMap, At
    <3>2. c \in Proc /\ c # p /\ v \in Page /\ pa[p][Pa] = pa[p][v]
      BY <3>1, Child DEF Building, ThreadInv, LocalsOK, Paging
    <3>3. /\ pa' = [pa EXCEPT ![c][v] = pa[p][Pa], ![p][Pa] = None]
          /\ flags' = [flags EXCEPT ![c][v] = flags[p][v]]
          /\ UNCHANGED Lists
      BY <2>6 DEF UvmcopyMap, memory, Lists
    <3>4. v \in Slot /\ Pa \in Slot /\ v # Pa /\ <<p, v>> # <<p, Pa>>
      BY <3>2, PageSlot, SlotAssumption
    <3>5. pa[p][Pa] # None => "PTE_W" \notin flags[p][v]
      BY <3>2, <3>4 DEF SharedReadOnly
    <3>6. MoveEffect(p, Pa, c, v)
      BY <1>2, <3>2, <3>3, <3>5 DEF MoveEffect
    <3> QED
      BY <3>2, <3>6 DEF Effect
  <2>7. CASE UvmcopyFail(p)
    BY <2>7 DEF UvmcopyFail, memory, Effect, DropEffect, Lists
  <2>8. CASE UvmcopyErr(p)
    <3>1. CASE loc[p].cur < loc[p].lim
      <4>1. Unmap(p, loc[p].np, loc[p].cur) /\ limbo[p] = None
        BY <2>8, <3>1 DEF UvmcopyErr, At
      <4>2. loc[p].np \in Proc /\ loc[p].cur \in Page
        BY <2>8, <3>1, Child, LocFields, PageAssumption DEF UvmcopyErr, At, Building, ThreadInv, Page
      <4>3. FreeEffect(p, loc[p].np, loc[p].cur)
        BY <4>1, <4>2, UnmapShrinks DEF FreeEffect, ThreadInv
      <4> QED
        BY <4>2, <4>3, PageSlot DEF Effect
    <3>2. CASE ~(loc[p].cur < loc[p].lim)
      BY <2>8, <3>2 DEF UvmcopyErr, memory, Effect, NoEffect, Lists
    <3> QED
      BY <3>1, <3>2
  <2> QED
    BY <1>6, <2>1, <2>2, <2>3, <2>4, <2>5, <2>6, <2>7, <2>8 DEF ForkStep
<1>7. CASE ExitStep(p)
  <2>1. CASE Exit(p) \/ InitPanic(p) \/ FreeprocDone(p)
    BY <2>1 DEF Exit, InitPanic, FreeprocDone, memory, Effect, NoEffect, Lists
  <2>2. ASSUME NEW c \in Proc, Wait(p, c)  PROVE Effect
    BY <2>2 DEF Wait, memory, Effect, NoEffect, Lists
  <2>3. CASE Freeproc(p)
    <3> DEFINE c == loc[p].np
    <3>1. PICK s \in FreeNext(c) :
            IF s \in Page THEN Unmap(p, c, s) ELSE Kfree(p, c, s) /\ UNCHANGED flags
      BY <2>3 DEF Freeproc
    <3>2. s \in Slot /\ c \in Proc /\ limbo[p] = None
      BY <2>3, PageSlot, Child DEF FreeNext, Freeproc, At, Building
    <3>3. Kfree(p, c, s) /\ FlagsShrink
      BY <3>1, <3>2, UnmapShrinks DEF FlagsShrink, ThreadInv
    <3> QED
      BY <3>2, <3>3 DEF Effect, FreeEffect
  <2> QED
    BY <1>7, <2>1, <2>2, <2>3 DEF ExitStep
<1>8. CASE SbrkStep(p)
  <2>1. ASSUME NEW n \in 0 .. MaxPage, Grow(p, n) \/ Shrink(p, n)  PROVE Effect
    BY <2>1 DEF Grow, Shrink, memory, Effect, NoEffect, Lists
  <2>2. CASE Uvmalloc(p)
    BY <1>2, <1>3, <2>2 DEF Uvmalloc
  <2>3. CASE UvmallocNoMem(p) \/ GrowDone(p)
    BY <2>3 DEF UvmallocNoMem, GrowDone, memory, Effect, NoEffect, Lists
  <2>4. CASE UvmallocWalk(p)
    <3>1. Kalloc(p, LeafOf[loc[p].cur], Zero) /\ flags' = flags /\ loc[p].cur \in Page
      BY <2>4 DEF UvmallocWalk, At, ThreadInv, LocalsOK, Paging
    <3>2. LeafOf[loc[p].cur] \in Slot
      BY <3>1, SlotAssumption, PageSlot
    <3> QED
      BY <1>3, <3>1, <3>2
  <2>5. CASE UvmallocMap(p)
    <3>1. loc[p].cur \in Page
      BY <2>5 DEF UvmallocMap, At, ThreadInv, LocalsOK, Paging
    <3>2. MoveEffect(p, Mem, p, loc[p].cur)
      BY <1>2, <2>5, <3>1, SlotAssumption DEF UvmallocMap, MoveEffect, memory, Lists
    <3> QED
      BY <3>1, <3>2 DEF Effect
  <2>6. CASE UvmallocFail(p)
    <3>1. Kfree(p, p, Mem) /\ limbo[p] = None /\ flags' = flags
      BY <2>6 DEF UvmallocFail, At
    <3> QED
      BY <1>2, <3>1 DEF Effect, FreeEffect, FlagsShrink
  <2>7. CASE Uvmdealloc(p)
    <3>1. CASE loc[p].cur < loc[p].lim
      <4>1. Unmap(p, p, loc[p].cur) /\ limbo[p] = None
        BY <2>7, <3>1 DEF Uvmdealloc, At
      <4>2. loc[p].cur \in Page
        BY <3>1, LocFields, PageAssumption DEF ThreadInv, Page
      <4>3. FreeEffect(p, p, loc[p].cur)
        BY <4>1, <4>2, UnmapShrinks DEF FreeEffect, ThreadInv
      <4> QED
        BY <4>2, <4>3, PageSlot DEF Effect
    <3>2. CASE ~(loc[p].cur < loc[p].lim)
      BY <2>7, <3>2 DEF Uvmdealloc, memory, Effect, NoEffect, Lists
    <3> QED
      BY <3>1, <3>2
  <2> QED
    BY <1>8, <2>1, <2>2, <2>3, <2>4, <2>5, <2>6, <2>7 DEF SbrkStep
<1> QED
  BY <1>1, <1>4, <1>5, <1>6, <1>7, <1>8

-----------------------------------------------------------------------------
(* Sharing, freeing and counting                                           *)

FrameInv == SharedReadOnly /\ NoUseAfterFree /\ RefCount

LEMMA PaType == TypeOK => /\ pa \in [Proc -> [Slot -> Frame \cup {None}]]
                          /\ flags \in [Proc -> [Page -> SUBSET Flag]]
                          /\ useReference \in [Frame -> Int]
                          /\ limbo \in [Proc -> Frame \cup {None}]
                          /\ freelist \in SUBSET Frame
  BY DEF TypeOK

LEMMA RefsFinite == \A f : IsFiniteSet(Refs(f)) /\ Cardinality(Refs(f)) \in Nat
<1>1. IsFiniteSet(Page)
  <2>1. 0 \in Int /\ MaxPage - 1 \in Int
    BY PageAssumption
  <2> QED
    BY <2>1, FS_Interval DEF Page
<1>2. IsFiniteSet({}) 
  BY FS_EmptySet
<1>3. IsFiniteSet({Pa}) /\ IsFiniteSet({Mem}) /\ IsFiniteSet({Trapframe})
  BY FS_Singleton
<1>4. IsFiniteSet(Root) /\ IsFiniteSet(Leaf)
  BY SlotAssumption
<1>5. IsFiniteSet(Page \cup Root)
  BY <1>1, <1>4, FS_Union
<1>6. IsFiniteSet((Page \cup Root) \cup Leaf)
  BY <1>4, <1>5, FS_Union
<1>7. IsFiniteSet(((Page \cup Root) \cup Leaf) \cup {Trapframe})
  BY <1>6, FS_AddElement
<1>8. IsFiniteSet((((Page \cup Root) \cup Leaf) \cup {Trapframe}) \cup {Mem})
  BY <1>7, FS_AddElement
<1>9. IsFiniteSet(((((Page \cup Root) \cup Leaf) \cup {Trapframe}) \cup {Mem}) \cup {Pa})
  BY <1>8, FS_AddElement
<1>10. Slot = ((((Page \cup Root) \cup Leaf) \cup {Trapframe}) \cup {Mem}) \cup {Pa}
  BY DEF Slot
<1>11. IsFiniteSet(Proc \X Slot)
  BY <1>9, <1>10, ProcAssumption, FS_Product
<1>12. \A f : Refs(f) \subseteq Proc \X Slot
  BY DEF Refs
<1> QED
  BY <1>11, <1>12, FS_Subset, FS_CardinalityType

\* Fewer references to a page and the same count, or one reference and a count
\* of at least one, are safe.
LEMMA FewerRefs ==
  ASSUME NEW f, Refs(f)' \subseteq Refs(f)
  PROVE  /\ IsFiniteSet(Refs(f)') /\ Cardinality(Refs(f)') \in Nat
         /\ Cardinality(Refs(f)') <= Cardinality(Refs(f))
<1>1. IsFiniteSet(Refs(f)) /\ Refs(f)' \in SUBSET Refs(f)
  BY RefsFinite
<1> QED
  BY <1>1, FS_Subset, FS_CardinalityType

LEMMA OneMore ==
  ASSUME NEW S, NEW x, IsFiniteSet(S)
  PROVE  /\ IsFiniteSet(S \cup {x}) /\ Cardinality(S \cup {x}) \in Nat
         /\ Cardinality(S \cup {x}) <= Cardinality(S) + 1
<1>1. IsFiniteSet(S \cup {x}) /\ Cardinality(S) \in Nat
  BY FS_AddElement, FS_CardinalityType
<1>2. Cardinality(S \cup {x}) = Cardinality(S) \/ Cardinality(S \cup {x}) = Cardinality(S) + 1
  BY FS_AddElement
<1> QED
  BY <1>1, <1>2

LEMMA InitFrame == Init => FrameInv
<1> SUFFICES ASSUME Init PROVE FrameInv
  OBVIOUS
<1>1. \A p \in Proc, s \in Slot : pa[p][s] # None => p = InitProc /\ pa[p][s] = InitPa[s]
  BY DEF Init
<1>2. SharedReadOnly
  BY <1>1, InitAssumption DEF SharedReadOnly
<1>3. NoUseAfterFree
  <2>1. None \notin freelist
    BY InitAssumption, FrameAssumption DEF Init
  <2>2. \A p \in Proc : limbo[p] = None
    BY DEF Init
  <2>3. \A p \in Proc, s \in Slot : pa[p][s] \notin freelist
    <3> SUFFICES ASSUME NEW p \in Proc, NEW s \in Slot, pa[p][s] # None
                 PROVE  pa[p][s] \notin freelist
      BY <2>1
    <3> QED
      BY <1>1, InitAssumption DEF Init
  <2> QED
    BY <2>1, <2>2, <2>3 DEF NoUseAfterFree
<1>4. RefCount
  <2> SUFFICES ASSUME NEW f \in Frame, Refs(f) # {}
               PROVE  useReference[f] >= Cardinality(Refs(f))
    BY DEF RefCount
  <2>1. PICK s \in Slot : InitPa[s] = f
    BY <1>1, FrameAssumption DEF Refs
  <2>2. Refs(f) \subseteq {<<InitProc, s>>}
    <3> SUFFICES ASSUME NEW r \in Refs(f) PROVE r = <<InitProc, s>>
      OBVIOUS
    <3>1. r \in Proc \X Slot /\ pa[r[1]][r[2]] = f
      BY DEF Refs
    <3>2. r[1] = InitProc /\ InitPa[r[2]] = f
      BY <1>1, <3>1, FrameAssumption
    <3>3. r[2] = s
      BY <2>1, <3>1, <3>2, InitAssumption, FrameAssumption
    <3> QED
      BY <3>1, <3>2, <3>3
  <2>3. Refs(f) = {<<InitProc, s>>}
    BY <2>2
  <2>4. Cardinality(Refs(f)) = 1
    BY <2>3, FS_Singleton
  <2>5. f \notin freelist
    BY <2>1, InitAssumption DEF Init
  <2>6. useReference[f] = 1
    BY <2>5 DEF Init
  <2> QED
    BY <2>4, <2>6
<1> QED
  BY <1>2, <1>3, <1>4 DEF FrameInv

LEMMA FrameAlloc ==
  ASSUME TypeOK, FrameInv, NEW q \in Proc, NEW s \in Slot, AllocEffect(q, s)
  PROVE  FrameInv'
<1>1. PICK f \in Heads(freelist) :
        /\ freelist' = freelist \ {f}
        /\ useReference' = [useReference EXCEPT ![f] = 1]
        /\ pa' = [pa EXCEPT ![q][s] = f]
        /\ limbo' = limbo /\ flags' = flags
  BY DEF AllocEffect, Kalloc
<1>2. f \in freelist /\ f \in Frame /\ f # None
  BY <1>1, HeadsAssumption, FrameAssumption, PaType
<1>3. \A p \in Proc, t \in Slot : pa[p][t] # f
  BY <1>2 DEF FrameInv, NoUseAfterFree
<1>4. \A p \in Proc, t \in Slot : pa'[p][t] = IF p = q /\ t = s THEN f ELSE pa[p][t]
  BY <1>1, PaType
<1>5. SharedReadOnly'
  BY <1>1, <1>3, <1>4 DEF FrameInv, SharedReadOnly
<1>6. NoUseAfterFree'
  BY <1>1, <1>2, <1>4, PaType DEF FrameInv, NoUseAfterFree
<1>7. RefCount'
  <2> SUFFICES ASSUME NEW g \in Frame, Refs(g)' # {}
               PROVE  useReference'[g] >= Cardinality(Refs(g)')
    BY DEF RefCount
  <2>1. CASE g = f
    <3>1. Refs(g)' = {<<q, s>>}
      BY <1>3, <1>4, <2>1 DEF Refs
    <3>2. Cardinality(Refs(g)') = 1
      BY <3>1, FS_Singleton
    <3> QED
      BY <1>1, <1>2, <2>1, <3>2, PaType
  <2>2. CASE g # f
    <3>1. Refs(g)' \subseteq Refs(g)
      BY <1>4, <2>2 DEF Refs
    <3>2. useReference'[g] = useReference[g] /\ useReference[g] \in Int
      BY <1>1, <2>2, PaType
    <3>3. Refs(g) # {}
      BY <3>1
    <3> QED
      BY <3>1, <3>2, <3>3, FewerRefs, RefsFinite DEF FrameInv, RefCount
  <2> QED
    BY <2>1, <2>2
<1> QED
  BY <1>5, <1>6, <1>7 DEF FrameInv

LEMMA FrameFree ==
  ASSUME TypeOK, FrameInv, NEW p \in Proc, NEW q \in Proc, NEW s \in Slot, FreeEffect(p, q, s)
  PROVE  FrameInv'
<1> SUFFICES ASSUME NEW f, f = pa[q][s] PROVE FrameInv'
  OBVIOUS
<1> DEFINE temp == useReference[f] - 1
<1>1. /\ f # None /\ freelist' = freelist
      /\ useReference' = [useReference EXCEPT ![f] = temp]
      /\ limbo' = [limbo EXCEPT ![p] = IF temp <= 0 THEN f ELSE None]
      /\ pa' = [pa EXCEPT ![q][s] = None]
      /\ limbo[p] = None /\ FlagsShrink
  BY DEF FreeEffect, Kfree, Unreferenced
<1>2. f \in Frame /\ useReference[f] \in Int
  BY <1>1, PaType
<1>3. \A r \in Proc, t \in Slot : pa'[r][t] = IF r = q /\ t = s THEN None ELSE pa[r][t]
  BY <1>1, PaType
<1>4. SharedReadOnly'
  BY <1>1, <1>3 DEF FrameInv, SharedReadOnly, FlagsShrink
<1>5. Refs(f)' = Refs(f) \ {<<q, s>>} /\ <<q, s>> \in Refs(f)
  BY <1>1, <1>3 DEF Refs
<1>6. IsFiniteSet(Refs(f)') /\ Cardinality(Refs(f)') = Cardinality(Refs(f)) - 1
      /\ Cardinality(Refs(f)') \in Nat
  BY <1>5, RefsFinite, FS_RemoveElement, FS_CardinalityType
<1>7. useReference[f] >= Cardinality(Refs(f))
  BY <1>2, <1>5 DEF FrameInv, RefCount
<1>8. temp <= 0 => Refs(f)' = {}
  <2>1. temp <= 0 => Cardinality(Refs(f)') = 0
    BY <1>2, <1>6, <1>7, RefsFinite
  <2> QED
    BY <1>6, <2>1, FS_EmptySet
<1>9. temp <= 0 => \A r \in Proc, t \in Slot : pa'[r][t] # f
  <2> SUFFICES ASSUME temp <= 0, NEW r \in Proc, NEW t \in Slot, pa'[r][t] = f PROVE FALSE
    OBVIOUS
  <2>1. <<r, t>> \in Refs(f)'
    BY DEF Refs
  <2> QED
    BY <1>8, <2>1
<1>10. NoUseAfterFree'
  <2>1. \A r \in Proc : limbo'[r] = IF r = p THEN (IF temp <= 0 THEN f ELSE None) ELSE limbo[r]
    BY <1>1, PaType
  <2>2. None \notin freelist /\ f \notin freelist
    BY FrameAssumption, PaType DEF FrameInv, NoUseAfterFree
  <2>3. \A r \in Proc, t \in Slot : pa'[r][t] \notin freelist'
    BY <1>1, <1>3, <2>2 DEF FrameInv, NoUseAfterFree
  <2>4. \A r, u \in Proc, t \in Slot : limbo'[r] # None => pa'[u][t] # limbo'[r]
    BY <1>1, <1>3, <1>9, <2>1 DEF FrameInv, NoUseAfterFree
  <2>5. \A r \in Proc : limbo'[r] \notin freelist'
    BY <1>1, <2>1, <2>2 DEF FrameInv, NoUseAfterFree
  <2>6. \A r, u \in Proc : limbo'[r] = limbo'[u] /\ limbo'[r] # None => r = u
    BY <2>1 DEF FrameInv, NoUseAfterFree
  <2> QED
    BY <2>3, <2>4, <2>5, <2>6 DEF NoUseAfterFree
<1>11. RefCount'
  <2> SUFFICES ASSUME NEW g \in Frame, Refs(g)' # {}
               PROVE  useReference'[g] >= Cardinality(Refs(g)')
    BY DEF RefCount
  <2>1. CASE g = f
    <3>1. useReference'[g] = temp
      BY <1>1, <1>2, <2>1, PaType
    <3> QED
      BY <1>2, <1>6, <1>7, <2>1, <3>1, RefsFinite
  <2>2. CASE g # f
    <3>1. Refs(g)' \subseteq Refs(g)
      BY <1>3, <2>2, FrameAssumption DEF Refs
    <3>2. useReference'[g] = useReference[g] /\ useReference[g] \in Int
      BY <1>1, <2>2, PaType
    <3>3. Refs(g) # {}
      BY <3>1
    <3> QED
      BY <3>1, <3>2, <3>3, FewerRefs, RefsFinite DEF FrameInv, RefCount
  <2> QED
    BY <2>1, <2>2
<1> QED
  BY <1>4, <1>10, <1>11 DEF FrameInv

LEMMA FramePush ==
  ASSUME TypeOK, FrameInv, NEW p \in Proc, KfreePush(p)
  PROVE  FrameInv'
<1>1. /\ limbo[p] # None /\ freelist' = freelist \cup {limbo[p]}
      /\ limbo' = [limbo EXCEPT ![p] = None]
      /\ useReference' = useReference /\ pa' = pa /\ flags' = flags
  BY DEF KfreePush
<1>2. SharedReadOnly'
  BY <1>1 DEF FrameInv, SharedReadOnly
<1>3. NoUseAfterFree'
  <2>1. \A r \in Proc : limbo'[r] = IF r = p THEN None ELSE limbo[r]
    BY <1>1, PaType
  <2>2. None \notin freelist'
    BY <1>1, FrameAssumption, PaType
  <2> QED
    BY <1>1, <2>1, <2>2 DEF FrameInv, NoUseAfterFree
<1>4. RefCount'
  BY <1>1 DEF FrameInv, RefCount, Refs
<1> QED
  BY <1>2, <1>3, <1>4 DEF FrameInv

LEMMA FrameShare ==
  ASSUME TypeOK, FrameInv, NEW p \in Proc, NEW v \in Page, ShareEffect(p, v)
  PROVE  FrameInv'
<1> SUFFICES ASSUME NEW f, f = pa[p][v] PROVE FrameInv'
  OBVIOUS
<1>1. /\ f # None /\ freelist' = freelist /\ limbo' = limbo
      /\ pa' = [pa EXCEPT ![p][Pa] = f]
      /\ useReference' = [useReference EXCEPT ![f] = @ + 1]
      /\ flags' = [flags EXCEPT ![p][v] = MarkCow(@)]
  BY DEF ShareEffect, CountReference
<1>2. v \in Slot /\ Pa \in Slot /\ v # Pa /\ f \in Frame
  BY <1>1, PageSlot, SlotAssumption, PaType
<1>3. \A r \in Proc, t \in Slot : pa'[r][t] = IF r = p /\ t = Pa THEN f ELSE pa[r][t]
  BY <1>1, PaType
<1>4. /\ "PTE_W" \notin flags'[p][v]
      /\ \A r \in Proc, w \in Page : "PTE_W" \in flags'[r][w] => "PTE_W" \in flags[r][w]
  BY <1>1, PaType DEF MarkCow
<1>5. SharedReadOnly'
  <2> SUFFICES ASSUME NEW r \in Proc, NEW u \in Proc, NEW s \in Slot, NEW t \in Slot,
                      <<r, s>> # <<u, t>>, pa'[r][s] = pa'[u][t], pa'[r][s] # None
               PROVE  s \in Page \cup {Pa} /\ (s \in Page => "PTE_W" \notin flags'[r][s])
    BY DEF SharedReadOnly
  <2>1. CASE pa[r][s] = f
    <3>1. CASE r = p /\ s = v
      BY <1>4, <3>1
    <3>2. CASE ~(r = p /\ s = v)
      <4>1. s \in Page \cup {Pa} /\ (s \in Page => "PTE_W" \notin flags[r][s])
        BY <1>1, <1>2, <2>1, <3>2 DEF FrameInv, SharedReadOnly
      <4> QED
        BY <1>4, <4>1
    <3> QED
      BY <3>1, <3>2
  <2>2. CASE pa[r][s] # f /\ r = p /\ s = Pa
    BY <2>2, SlotAssumption
  <2>3. CASE pa[r][s] # f /\ ~(r = p /\ s = Pa)
    <3>1. pa'[r][s] = pa[r][s] /\ pa'[u][t] = pa[u][t]
      BY <1>3, <2>3
    <3>2. s \in Page \cup {Pa} /\ (s \in Page => "PTE_W" \notin flags[r][s])
      BY <3>1 DEF FrameInv, SharedReadOnly
    <3> QED
      BY <1>4, <3>2
  <2> QED
    BY <2>1, <2>2, <2>3
<1>6. NoUseAfterFree'
  BY <1>1, <1>2, <1>3 DEF FrameInv, NoUseAfterFree
<1>7. RefCount'
  <2> SUFFICES ASSUME NEW g \in Frame, Refs(g)' # {}
               PROVE  useReference'[g] >= Cardinality(Refs(g)')
    BY DEF RefCount
  <2>1. CASE g = f
    <3>1. Refs(f)' = Refs(f) \cup {<<p, Pa>>}
      BY <1>2, <1>3 DEF Refs
    <3> DEFINE R == Refs(f)
    <3>2. Cardinality(Refs(f)') <= Cardinality(Refs(f)) + 1 /\ Cardinality(Refs(f)') \in Nat
      <4>1. IsFiniteSet(R) /\ Cardinality(R) \in Nat
        BY RefsFinite
      <4> HIDE DEF R
      <4>2. /\ Cardinality(R \cup {<<p, Pa>>}) \in Nat
            /\ Cardinality(R \cup {<<p, Pa>>}) <= Cardinality(R) + 1
        BY <4>1, OneMore
      <4> QED
        BY <3>1, <4>2 DEF R
    <3>3. Refs(f) # {}
      <4>1. <<p, v>> \in Refs(f)
        BY <1>2 DEF Refs
      <4> QED
        BY <4>1
    <3>4. useReference'[f] = useReference[f] + 1 /\ useReference[f] \in Int
      BY <1>1, <1>2, PaType
    <3> QED
      BY <1>2, <2>1, <3>2, <3>3, <3>4, RefsFinite DEF FrameInv, RefCount
  <2>2. CASE g # f
    <3>1. Refs(g)' \subseteq Refs(g)
      BY <1>3, <2>2 DEF Refs
    <3>2. useReference'[g] = useReference[g] /\ useReference[g] \in Int
      BY <1>1, <2>2, PaType
    <3>3. Refs(g) # {}
      BY <3>1
    <3> QED
      BY <3>1, <3>2, <3>3, FewerRefs, RefsFinite DEF FrameInv, RefCount
  <2> QED
    BY <2>1, <2>2
<1> QED
  BY <1>5, <1>6, <1>7 DEF FrameInv

LEMMA FrameMove ==
  ASSUME TypeOK, FrameInv, NEW p \in Proc, NEW q \in Proc, NEW t \in {Mem, Pa}, NEW v \in Page,
         MoveEffect(p, t, q, v)
  PROVE  FrameInv'
<1> SUFFICES ASSUME NEW f, f = pa[p][t] PROVE FrameInv'
  OBVIOUS
<1>1. /\ freelist' = freelist /\ limbo' = limbo /\ useReference' = useReference
      /\ pa' = [pa EXCEPT ![q][v] = f, ![p][t] = None]
      /\ t = Pa /\ f # None => "PTE_W" \notin flags'[q][v]
      /\ \A r \in Proc, w \in Page : <<r, w>> # <<q, v>> => flags'[r][w] = flags[r][w]
  BY DEF MoveEffect, Lists
<1>2. v \in Slot /\ t \in Slot /\ t # v /\ t \notin Page
  BY PageSlot, SlotAssumption
<1>3. \A r \in Proc, s \in Slot :
        pa'[r][s] = IF r = p /\ s = t THEN None ELSE IF r = q /\ s = v THEN f ELSE pa[r][s]
  BY <1>1, <1>2, PaType
<1>4. SharedReadOnly'
  <2> SUFFICES ASSUME NEW r \in Proc, NEW u \in Proc, NEW s \in Slot, NEW w \in Slot,
                      <<r, s>> # <<u, w>>, pa'[r][s] = pa'[u][w], pa'[r][s] # None
               PROVE  s \in Page \cup {Pa} /\ (s \in Page => "PTE_W" \notin flags'[r][s])
    BY DEF SharedReadOnly
  <2>1. ~(r = p /\ s = t) /\ ~(u = p /\ w = t)
    BY <1>3
  <2>2. CASE r = q /\ s = v
    <3>1. pa[u][w] = f /\ f # None /\ <<u, w>> # <<p, t>>
      BY <1>3, <2>1, <2>2
    <3>2. t = Pa
      BY <1>2, <3>1, SlotAssumption DEF FrameInv, SharedReadOnly
    <3> QED
      BY <1>1, <2>2, <3>1, <3>2
  <2>3. CASE u = q /\ w = v
    <3>1. pa[r][s] = f /\ f # None /\ <<r, s>> # <<p, t>> /\ ~(r = q /\ s = v)
      BY <1>3, <2>1, <2>3
    <3>2. s \in Page \cup {Pa} /\ (s \in Page => "PTE_W" \notin flags[r][s])
      BY <1>2, <3>1 DEF FrameInv, SharedReadOnly
    <3> QED
      BY <1>1, <3>1, <3>2
  <2>4. CASE ~(r = q /\ s = v) /\ ~(u = q /\ w = v)
    <3>1. pa[r][s] = pa[u][w] /\ pa[r][s] # None
      BY <1>3, <2>1, <2>4
    <3>2. s \in Page \cup {Pa} /\ (s \in Page => "PTE_W" \notin flags[r][s])
      BY <3>1 DEF FrameInv, SharedReadOnly
    <3> QED
      BY <1>1, <2>4, <3>2
  <2> QED
    BY <2>2, <2>3, <2>4
<1>5. NoUseAfterFree'
  <2>1. None \notin freelist
    BY FrameAssumption, PaType
  <2>2. f \notin freelist /\ \A r \in Proc : limbo[r] # None => f # limbo[r]
    BY <1>2 DEF FrameInv, NoUseAfterFree
  <2>3. \A r \in Proc, s \in Slot : pa'[r][s] \notin freelist
    BY <1>3, <2>1, <2>2 DEF FrameInv, NoUseAfterFree
  <2>4. \A r, u \in Proc, s \in Slot : limbo[r] # None => pa'[u][s] # limbo[r]
    BY <1>3, <2>2 DEF FrameInv, NoUseAfterFree
  <2> QED
    <3>1. \A r \in Proc, s \in Slot : pa'[r][s] \notin freelist'
      BY <1>1, <2>3
    <3>2. \A r, u \in Proc, s \in Slot : limbo'[r] # None => pa'[u][s] # limbo'[r]
      <4>1. limbo' = limbo
        BY <1>1
      <4> QED
        BY <2>4, <4>1
    <3>3. /\ \A r \in Proc : limbo'[r] \notin freelist'
          /\ \A r, u \in Proc : limbo'[r] = limbo'[u] /\ limbo'[r] # None => r = u
      BY <1>1 DEF FrameInv, NoUseAfterFree
    <3> QED
      BY <3>1, <3>2, <3>3 DEF NoUseAfterFree
<1>6. RefCount'
  <2> SUFFICES ASSUME NEW g \in Frame, Refs(g)' # {}
               PROVE  useReference[g] >= Cardinality(Refs(g)')
    BY <1>1 DEF RefCount
  <2>1. useReference[g] \in Int
    BY PaType
  <2>2. CASE g = f
    <3>1. Refs(f)' \subseteq (Refs(f) \ {<<p, t>>}) \cup {<<q, v>>} /\ <<p, t>> \in Refs(f)
      BY <1>2, <1>3, <2>2, FrameAssumption DEF Refs
    <3> DEFINE R == Refs(f) \ {<<p, t>>}
               S == R \cup {<<q, v>>}
    <3>2. IsFiniteSet(R) /\ Cardinality(R) = Cardinality(Refs(f)) - 1 /\ Cardinality(R) \in Nat
      BY <3>1, RefsFinite, FS_RemoveElement, FS_CardinalityType
    <3>3. IsFiniteSet(S) /\ Cardinality(S) <= Cardinality(R) + 1 /\ Cardinality(S) \in Nat
      <4> HIDE DEF R
      <4> QED
        BY <3>2, OneMore
    <3>4. Cardinality(Refs(f)') <= Cardinality(S) /\ Cardinality(Refs(f)') \in Nat
      BY <3>1, <3>3, FS_Subset, FS_CardinalityType
    <3>5. useReference[f] >= Cardinality(Refs(f))
      BY <2>2, <3>1 DEF FrameInv, RefCount
    <3> QED
      BY <2>1, <2>2, <3>2, <3>3, <3>4, <3>5, RefsFinite
  <2>3. CASE g # f
    <3>1. Refs(g)' \subseteq Refs(g)
      BY <1>3, <2>3, FrameAssumption DEF Refs
    <3>2. Refs(g) # {}
      BY <3>1
    <3> QED
      BY <2>1, <3>1, <3>2, FewerRefs, RefsFinite DEF FrameInv, RefCount
  <2> QED
    BY <2>2, <2>3
<1> QED
  BY <1>4, <1>5, <1>6 DEF FrameInv

LEMMA FrameDrop ==
  ASSUME TypeOK, FrameInv, NEW p \in Proc, DropEffect(p)
  PROVE  FrameInv'
<1>1. /\ freelist' = freelist /\ limbo' = limbo /\ useReference' = useReference
      /\ flags' = flags
      /\ \A r \in Proc, t \in Slot : pa'[r][t] = IF r = p /\ t = Pa THEN None ELSE pa[r][t]
  BY PaType DEF DropEffect, Lists
<1>2. SharedReadOnly'
  BY <1>1 DEF FrameInv, SharedReadOnly
<1>3. NoUseAfterFree'
  <2>1. None \notin freelist
    BY FrameAssumption, PaType
  <2> QED
    BY <1>1, <2>1 DEF FrameInv, NoUseAfterFree
<1>4. RefCount'
  <2> SUFFICES ASSUME NEW g \in Frame, Refs(g)' # {}
               PROVE  useReference[g] >= Cardinality(Refs(g)')
    BY <1>1 DEF RefCount
  <2>1. Refs(g)' \subseteq Refs(g)
    BY <1>1, FrameAssumption DEF Refs
  <2>2. Refs(g) # {} /\ useReference[g] \in Int
    BY <2>1, PaType
  <2> QED
    BY <2>1, <2>2, FewerRefs, RefsFinite DEF FrameInv, RefCount
<1> QED
  BY <1>2, <1>3, <1>4 DEF FrameInv

LEMMA NextFrame == ThreadInv /\ FrameInv /\ [Next]_vars => FrameInv'
<1> SUFFICES ASSUME ThreadInv, FrameInv, [Next]_vars PROVE FrameInv'
  OBVIOUS
<1>1. TypeOK /\ SharedReadOnly
  BY DEF ThreadInv, FrameInv
<1>2. CASE UNCHANGED vars \/ NoEffect
  BY <1>2 DEF vars, memory, NoEffect, Lists, FrameInv, SharedReadOnly, NoUseAfterFree, RefCount, Refs
<1>3. CASE Next
  <2>1. Effect
    BY <1>1, <1>3, NextEffect
  <2> QED
    BY <1>1, <1>2, <2>1, FrameAlloc, FrameFree, FramePush, FrameShare, FrameMove, FrameDrop
       DEF Effect
<1> QED
  BY <1>2, <1>3

LEMMA AlwaysFrame == Spec => []FrameInv
<1>1. Init => FrameInv
  BY InitFrame
<1>2. ThreadInv /\ FrameInv /\ [Next]_vars => FrameInv'
  BY NextFrame
<1> QED
  BY <1>1, <1>2, AlwaysThread, PTL DEF Spec

\* A page with two references is writable through none of them.
THEOREM SharingIsReadOnly == Spec => []SharedReadOnly
<1>1. FrameInv => SharedReadOnly
  BY DEF FrameInv
<1> QED
  BY <1>1, AlwaysFrame, PTL

\* kfree() gives no page away that is in use, and gives none away twice.
THEOREM FreePagesUnused == Spec => []NoUseAfterFree
<1>1. FrameInv => NoUseAfterFree
  BY DEF FrameInv
<1> QED
  BY <1>1, AlwaysFrame, PTL

\* The count of a page in use is at least the number of its references.
THEOREM CountsCover == Spec => []RefCount
<1>1. FrameInv => RefCount
  BY DEF FrameInv
<1> QED
  BY <1>1, AlwaysFrame, PTL

-----------------------------------------------------------------------------
(* Contents                                                                *)

\* kalloc() fills the page it pops.
NewPage == \E g \in freelist, c \in Value \cup {Junk} : mem' = [mem EXCEPT ![g] = c]

LEMMA KallocContents ==
  ASSUME TypeOK, NEW q, NEW s, NEW c \in Value \cup {Junk}, Kalloc(q, s, c)
  PROVE  NewPage
<1>1. PICK g \in Heads(freelist) : mem' = [mem EXCEPT ![g] = c]
  BY DEF Kalloc
<1>2. g \in freelist
  BY HeadsAssumption, PaType
<1> QED
  BY <1>1, <1>2 DEF NewPage

\* The steps that change the contents of a page.
LEMMA NextContents ==
  ASSUME TypeOK, Next
  PROVE  \/ mem' = mem
         \/ NewPage
         \/ \E p \in Proc : \/ KfreePush(p)
                            \/ \E v \in Page, x \in Value : Store(p, v, x)
                            \/ CowCopy(p)
                            \/ CopyoutWrite(p)
<1> DEFINE Goal == \/ mem' = mem
                   \/ NewPage
                   \/ \E p \in Proc : \/ KfreePush(p)
                                      \/ \E v \in Page, x \in Value : Store(p, v, x)
                                      \/ CowCopy(p)
                                      \/ CopyoutWrite(p)
<1> SUFFICES Goal
  OBVIOUS
<1>1. PICK p \in Proc : KfreePush(p) \/ Fault(p) \/ ForkStep(p) \/ ExitStep(p) \/ SbrkStep(p)
  BY DEF Next
<1>2. \A q, s : Kalloc(q, s, Junk) \/ Kalloc(q, s, Zero) => NewPage
  BY KallocContents, ValueAssumption
<1>3. CASE KfreePush(p)
  BY <1>3
<1>4. CASE Fault(p)
  <2>1. CASE \E v \in Page, x \in Value : Store(p, v, x) \/ Copyout(p, v, x)
    BY <2>1 DEF Copyout, memory
  <2>2. CASE \E v \in Page : StoreFault(p, v) \/ StoreKill(p, v)
    BY <1>2, <2>2 DEF StoreFault, StoreKill, memory
  <2>3. CASE CopyoutPage(p)
    BY <1>2, <2>3 DEF CopyoutPage, memory
  <2>4. CASE CopyoutFail(p) \/ CowKfree(p) \/ CowMap(p)
    BY <2>4 DEF CopyoutFail, CowKfree, Kfree, CowMap, memory
  <2>5. CASE CowCopy(p) \/ CopyoutWrite(p)
    BY <2>5
  <2> QED
    BY <1>4, <2>1, <2>2, <2>3, <2>4, <2>5 DEF Fault
<1>5. CASE ForkStep(p)
  <2>1. CASE Allocproc(p) \/ UvmcopyWalk(p)
    BY <1>2, <2>1 DEF Allocproc, UvmcopyWalk
  <2>2. CASE \/ \E c \in Proc : Fork(p, c)
             \/ AllocprocFail(p) \/ AllocprocDone(p) \/ ForkDone(p)
    BY <2>2 DEF Fork, AllocprocFail, AllocprocDone, ForkDone, memory
  <2>3. CASE UvmcopyRef(p) \/ UvmcopyMap(p) \/ UvmcopyFail(p) \/ UvmcopyErr(p)
    BY <2>3 DEF UvmcopyRef, UvmcopyMap, UvmcopyFail, UvmcopyErr, Unmap, Kfree, memory
  <2> QED
    BY <1>5, <2>1, <2>2, <2>3 DEF ForkStep
<1>6. CASE ExitStep(p)
  <2>1. CASE Freeproc(p)
    BY <2>1 DEF Freeproc, Unmap, Kfree
  <2>2. CASE Exit(p) \/ InitPanic(p) \/ FreeprocDone(p) \/ \E c \in Proc : Wait(p, c)
    BY <2>2 DEF Exit, InitPanic, FreeprocDone, Wait, memory
  <2> QED
    BY <1>6, <2>1, <2>2 DEF ExitStep
<1>7. CASE SbrkStep(p)
  <2>1. CASE Uvmalloc(p) \/ UvmallocWalk(p)
    BY <1>2, <2>1 DEF Uvmalloc, UvmallocWalk
  <2>2. CASE \E n \in 0 .. MaxPage : Grow(p, n) \/ Shrink(p, n)
    BY <2>2 DEF Grow, Shrink, memory
  <2>3. CASE UvmallocNoMem(p) \/ UvmallocMap(p) \/ UvmallocFail(p) \/ GrowDone(p) \/ Uvmdealloc(p)
    BY <2>3 DEF UvmallocNoMem, UvmallocMap, UvmallocFail, GrowDone, Uvmdealloc, Unmap, Kfree, memory
  <2> QED
    BY <1>7, <2>1, <2>2, <2>3 DEF SbrkStep
<1> QED
  BY <1>1, <1>3, <1>4, <1>5, <1>6, <1>7

\* A page with more than one reference has one beside any given one.
LEMMA AnotherRef ==
  ASSUME NEW f, Cardinality(Refs(f)) > 1, NEW r \in Refs(f)
  PROVE  \E t \in Refs(f) : t # r
<1> SUFFICES ASSUME \A t \in Refs(f) : t = r PROVE FALSE
  OBVIOUS
<1>1. Refs(f) = {r}
  OBVIOUS
<1>2. Cardinality({r}) = 1
  BY FS_Singleton
<1> QED
  BY <1>1, <1>2

LEMMA SharedSlot ==
  ASSUME SharedReadOnly, NEW p \in Proc, NEW s \in Slot, pa[p][s] # None,
         Cardinality(Refs(pa[p][s])) > 1
  PROVE  s \in Page \cup {Pa} /\ (s \in Page => "PTE_W" \notin flags[p][s])
<1>1. <<p, s>> \in Refs(pa[p][s])
  BY DEF Refs
<1>2. PICK t \in Refs(pa[p][s]) : t # <<p, s>>
  BY <1>1, AnotherRef
<1>3. t[1] \in Proc /\ t[2] \in Slot /\ pa[t[1]][t[2]] = pa[p][s] /\ <<p, s>> # <<t[1], t[2]>>
  BY <1>2 DEF Refs
<1> QED
  BY <1>3 DEF SharedReadOnly

LEMMA KeptContents ==
  ASSUME TypeOK, FrameInv, Next, NEW f \in Frame, Cardinality(Refs(f)) > 1,
         \A p \in Proc : pc[p] = "copyout_write" => Target(p) # f
  PROVE  mem'[f] = mem[f]
<1>1. mem \in [Frame -> Value \cup {Junk}]
  BY DEF TypeOK
<1>2. f # None /\ SharedReadOnly /\ NoUseAfterFree
  BY FrameAssumption DEF FrameInv
<1>3. PICK r \in Refs(f) : TRUE
  <2>1. Refs(f) # {}
    <3>1. Cardinality({}) = 0
      BY FS_EmptySet
    <3> QED
      BY <3>1
  <2> QED
    BY <2>1
<1>4. r[1] \in Proc /\ r[2] \in Slot /\ pa[r[1]][r[2]] = f
  BY <1>3 DEF Refs
<1>5. CASE NewPage
  <2>1. PICK g \in freelist, c \in Value \cup {Junk} : mem' = [mem EXCEPT ![g] = c]
    BY <1>5 DEF NewPage
  <2>2. g # f
    BY <1>2, <1>4 DEF NoUseAfterFree
  <2> QED
    BY <1>1, <2>1, <2>2
<1>6. ASSUME NEW p \in Proc, KfreePush(p) PROVE mem'[f] = mem[f]
  <2>1. limbo[p] # None /\ mem' = [mem EXCEPT ![limbo[p]] = Junk]
    BY <1>6 DEF KfreePush
  <2>2. limbo[p] # f
    BY <1>2, <1>4, <2>1 DEF NoUseAfterFree
  <2> QED
    BY <1>1, <2>1, <2>2
<1>7. ASSUME NEW p \in Proc, NEW v \in Page, NEW x \in Value, Store(p, v, x) PROVE mem'[f] = mem[f]
  <2>1. mem' = [mem EXCEPT ![pa[p][v]] = x] /\ pa[p][v] # None /\ "PTE_W" \in flags[p][v]
    BY <1>7 DEF Store, Writable, Mapped
  <2>2. pa[p][v] # f
    BY <1>2, <2>1, SharedSlot, PageSlot
  <2> QED
    BY <1>1, <2>1, <2>2
<1>8. ASSUME NEW p \in Proc, CowCopy(p) PROVE mem'[f] = mem[f]
  <2>1. mem' = [mem EXCEPT ![pa[p][Mem]] = mem[pa[p][loc[p].cur]]]
    BY <1>8 DEF CowCopy
  <2>2. Mem \in Slot /\ Mem \notin Page \cup {Pa}
    BY SlotAssumption DEF Slot
  <2>3. pa[p][Mem] # f
    BY <1>2, <2>2, SharedSlot
  <2> QED
    BY <1>1, <2>1, <2>3
<1>9. ASSUME NEW p \in Proc, CopyoutWrite(p) PROVE mem'[f] = mem[f]
  <2>1. mem' = [mem EXCEPT ![pa[p][loc[p].cur]] = loc[p].val] /\ pc[p] = "copyout_write"
    BY <1>9 DEF CopyoutWrite, At
  <2>2. pa[p][loc[p].cur] # f
    BY <2>1 DEF Target
  <2> QED
    BY <1>1, <2>1, <2>2
<1> QED
  BY <1>5, <1>6, <1>7, <1>8, <1>9, NextContents

\* No step but the memmove of copyout() changes the contents of a page that two
\* processes share: until one of them makes a copy, both read what was there
\* when fork() returned.
THEOREM SharedContents == Spec => SharedConstant
<1>1. ASSUME TypeOK, FrameInv, [Next]_vars
      PROVE  [\A f \in Frame :
                /\ Cardinality(Refs(f)) > 1
                /\ \A p \in Proc : pc[p] = "copyout_write" => Target(p) # f
                => mem'[f] = mem[f]]_vars
  BY <1>1, KeptContents
<1>2. ThreadInv => TypeOK
  BY DEF ThreadInv
<1> QED
  BY <1>1, <1>2, AlwaysThread, AlwaysFrame, PTL DEF Spec, SharedConstant

-----------------------------------------------------------------------------
(* The page tables map what the loops over them expect                     *)

\* Labels at which the page table of a process maps all of its memory.
Whole == {"user", "zombie", "cow_copy", "cow_kfree", "copyout", "copyout_write",
          "allocproc", "uvmcopy", "uvmcopy_map", "uvmcopy_err", "freeproc"}

\* Labels at which the local `mem' owns a page, and those without locals.
HoldsMem == {"cow_copy", "cow_kfree", "cow_map", "uvmalloc_map"}
Idle == {"user", "zombie", "panic", "unused", "embryo", "reaped"}

\* What the page table of p maps, and where the loops over it have got to.
MapOK(p) ==
  LET cur == loc[p].cur
      lim == loc[p].lim
  IN  /\ pc[p] \in Whole => MapsOnly(p, 0 .. sz[p] - 1)
      /\ pc[p] = "cow_map" => cur < sz[p] /\ MapsOnly(p, (0 .. sz[p] - 1) \ {cur})
      /\ pc[p] \in {"uvmalloc", "uvmalloc_map"}
           => sz[p] <= cur /\ cur <= lim /\ MapsOnly(p, 0 .. cur - 1)
      /\ pc[p] = "uvmalloc_map" => cur < lim
      /\ pc[p] = "uvmdealloc"
           => /\ loc[p].newsz <= cur /\ cur <= lim
              /\ MapsOnly(p, (0 .. loc[p].newsz - 1) \cup (cur .. lim - 1))
      /\ pc[p] = "uvmcopy" => cur <= sz[p]
      /\ pc[p] = "uvmcopy_map" => cur < sz[p]

\* The slots of p that are no user pages.
SlotsOK(p) ==
  /\ pa[p][Mem] # None <=> pc[p] \in HoldsMem
  /\ pc[p] # "uvmcopy_map" => pa[p][Pa] = None
  /\ pc[p] = "unused" => \A s \in Slot : pa[p][s] = None
  /\ pc[p] \in {"unused", "embryo"} => sz[p] = 0
  /\ pc[p] \in Idle => loc[p] = NoLocals

\* What the page table of a child maps that p builds or releases.
ChildOK(p) ==
  LET c == loc[p].np
      cur == loc[p].cur
  IN  c # None =>
        /\ pc[p] \in Building \ {"freeproc"} => pc[c] = "embryo"
        /\ pc[p] = "allocproc" => cur = 0 /\ MapsOnly(c, {})
        /\ pc[p] \in {"uvmcopy", "uvmcopy_map"} => MapsOnly(c, 0 .. cur - 1)
        /\ pc[p] = "uvmcopy_err" => cur <= loc[p].lim /\ MapsOnly(c, cur .. loc[p].lim - 1)
        /\ pc[p] = "freeproc" => \A v \in Page : Mapped(c, v) => v < sz[c]
        /\ pc[p] \notin Building => pc[c] = "reaped" /\ MapsOnly(c, 0 .. sz[c] - 1)

TablesInv == \A p \in Proc : MapOK(p) /\ SlotsOK(p) /\ ChildOK(p)

-----------------------------------------------------------------------------
(* What a step leaves alone                                                *)

\* A step of p changes p and perhaps the child c, which is in nobody else's hands.
LEMMA TablesKeep ==
  ASSUME ThreadInv, TablesInv, NEW p \in Proc, NEW c \in Proc \cup {None},
         pc[p] \notin {"embryo", "reaped"},
         c # None => c # p /\ pc[c] \in {"embryo", "reaped", "unused", "zombie"},
         c # None => c = loc[p].np \/ pc[c] \notin {"embryo", "reaped"},
         \A q \in Proc : q # p /\ q # c => pa'[q] = pa[q] /\ sz'[q] = sz[q] /\ pc'[q] = pc[q],
         \A q \in Proc : q # p => loc'[q] = loc[q],
         MapOK(p)', SlotsOK(p)', ChildOK(p)',
         c # None => MapOK(c)' /\ SlotsOK(c)'
  PROVE  TablesInv'
<1> SUFFICES ASSUME NEW q \in Proc PROVE (MapOK(q) /\ SlotsOK(q) /\ ChildOK(q))'
  BY DEF TablesInv
<1>1. CASE q = p
  BY <1>1
<1>2. CASE q # p /\ q = c
  <2>1. c # None
    BY <1>2, ProcAssumption
  <2>2. loc'[q] = NoLocals
    BY <1>2, <2>1 DEF TablesInv, SlotsOK, Idle
  <2>3. ChildOK(q)'
    BY <2>2, NoLocalsType DEF ChildOK
  <2> QED
    BY <1>2, <2>1, <2>3
<1>3. CASE q # p /\ q # c
  <2>1. pa'[q] = pa[q] /\ sz'[q] = sz[q] /\ pc'[q] = pc[q] /\ loc'[q] = loc[q]
    BY <1>3
  <2>2. MapOK(q)' /\ SlotsOK(q)'
    BY <2>1 DEF TablesInv, MapOK, SlotsOK, MapsOnly, Mapped
  <2> DEFINE d == loc[q].np
  <2>3. ASSUME d # None
        PROVE  pa'[d] = pa[d] /\ sz'[d] = sz[d] /\ pc'[d] = pc[d]
    <3>1. d \in Proc /\ pc[d] \in {"embryo", "reaped"}
      BY <2>3, LocFields DEF ThreadInv, OwnerOK
    <3>2. d # p
      BY <3>1
    <3>3. d # c
      BY <1>3, <2>3, <3>1 DEF ThreadInv, OwnerOK
    <3> QED
      BY <3>1, <3>2, <3>3
  <2>4. ChildOK(q)'
    BY <2>1, <2>3 DEF TablesInv, ChildOK, MapsOnly, Mapped
  <2> QED
    BY <2>2, <2>4
<1> QED
  BY <1>1, <1>2, <1>3

\* A step of p on its own pages, outside fork() and freeproc().
LEMMA OwnKeep ==
  ASSUME ThreadInv, TablesInv, NEW p \in Proc,
         pc[p] \notin {"embryo", "reaped"},
         \A q \in Proc : q # p => pa'[q] = pa[q] /\ pc'[q] = pc[q] /\ loc'[q] = loc[q],
         \A q \in Proc : q # p => sz'[q] = sz[q],
         MapOK(p)', SlotsOK(p)',
         \/ loc'[p].np = None
         \/ loc'[p].np = loc[p].np /\ pc[p] \notin Building /\ pc'[p] \notin Building
  PROVE  TablesInv'
<1>1. ChildOK(p)'
  <2> DEFINE d == loc'[p].np
  <2>1. CASE d = None
    BY <2>1 DEF ChildOK
  <2>2. CASE d # None
    <3>1. d = loc[p].np /\ pc[p] \notin Building /\ pc'[p] \notin Building
      BY <2>2
    <3>2. d \in Proc /\ pc[d] \in {"embryo", "reaped"}
      BY <2>2, <3>1, LocFields DEF ThreadInv, OwnerOK
    <3>3. pa'[d] = pa[d] /\ sz'[d] = sz[d] /\ pc'[d] = pc[d]
      BY <3>2
    <3> QED
      BY <2>2, <3>1, <3>3 DEF TablesInv, ChildOK, MapsOnly, Mapped, Building
  <2> QED
    BY <2>1, <2>2
<1>2. None \in Proc \cup {None} /\ \A q \in Proc : q # None
  BY ProcAssumption
<1> QED
  BY <1>1, <1>2, TablesKeep

LEMMA TablesSame == TablesInv /\ UNCHANGED <<pa, pc, loc, sz>> => TablesInv'
  BY DEF TablesInv, MapOK, SlotsOK, ChildOK, MapsOnly, Mapped

LEMMA SizeType == TypeOK => \A q \in Proc : sz[q] \in Nat /\ sz[q] <= MaxPage
  BY PageAssumption DEF TypeOK

\* Slots that are no pages.
LEMMA NotPage == \A s \in Root \cup Leaf \cup {Trapframe, Mem, Pa} : s \notin Page
  BY SlotAssumption

\* kalloc() into a slot that is no page, ...
LEMMA KallocTables ==
  ASSUME TypeOK, NEW q \in Proc, NEW s \in Slot \ Page, NEW c \in Value \cup {Junk},
         Kalloc(q, s, c)
  PROVE  /\ pa' \in [Proc -> [Slot -> Frame \cup {None}]]
         /\ \A r \in Proc : r # q => pa'[r] = pa[r]
         /\ \A t \in Slot : t # s => pa'[q][t] = pa[q][t]
         /\ \A v \in Page : pa'[q][v] = pa[q][v]
         /\ pa'[q][s] # None
  BY KallocEffect, PageSlot

\* ... and kfree() of any.
LEMMA KfreeTables ==
  ASSUME TypeOK, NEW p \in Proc, NEW q \in Proc, NEW s \in Slot, Kfree(p, q, s)
  PROVE  /\ \A r \in Proc : r # q => pa'[r] = pa[r]
         /\ \A t \in Slot : t # s => pa'[q][t] = pa[q][t]
         /\ pa'[q][s] = None
  BY KfreeEffect DEF TypeOK, Kfree

\* Pages that there are have a least one.
LEMMA LeastPage ==
  \A S \in SUBSET Page : S # {} => \E v \in S : \A w \in S : v <= w
<1> SUFFICES ASSUME NEW S \in SUBSET Page, S # {} PROVE \E v \in S : \A w \in S : v <= w
  OBVIOUS
<1>1. S \subseteq Nat
  BY DEF Page
<1>2. IsWellFoundedOn(OpToRel(<, Nat), Nat)
  BY NatLessThanWellFounded
<1>3. PICK v \in S : \A w \in S : <<w, v>> \notin OpToRel(<, Nat)
  BY <1>1, <1>2, WFMin
<1>4. \A w \in S : ~(w < v)
  BY <1>1, <1>3, Zenon DEF OpToRel
<1> QED
  BY <1>1, <1>4

\* A process keeps all of its memory mapped.
LEMMA WholeKeep ==
  ASSUME NEW p \in Proc, MapOK(p), pc[p] \in Whole,
         pc'[p] \in Whole \ {"uvmcopy", "uvmcopy_map"}, sz'[p] = sz[p],
         \A v \in Page : pa'[p][v] = pa[p][v]
  PROVE  MapOK(p)'
  BY DEF MapOK, MapsOnly, Mapped, Whole

-----------------------------------------------------------------------------
(* Faults and copyout()                                                    *)

LEMMA StoreFaultTables ==
  ASSUME ThreadInv, TablesInv, NEW p \in Proc, NEW v \in Page, StoreFault(p, v)
  PROVE  TablesInv'
<1>1. /\ pc[p] = "user" /\ pc' = [pc EXCEPT ![p] = "cow_copy"] /\ sz' = sz
      /\ loc' = [loc EXCEPT ![p].cur = v] /\ Kalloc(p, Mem, Junk)
  BY DEF StoreFault, InUser, At, Goto
<1>2. /\ \A q \in Proc : q # p => pa'[q] = pa[q]
      /\ \A t \in Slot : t # Mem => pa'[p][t] = pa[p][t]
      /\ \A w \in Page : pa'[p][w] = pa[p][w]
      /\ pa'[p][Mem] # None
  BY <1>1, KallocTables, PageSlot, NotPage DEF ThreadInv
<1>3. pc'[p] = "cow_copy" /\ loc'[p].np = loc[p].np
  BY <1>1, LocType DEF ThreadInv, Locals
<1>4. MapOK(p)'
  BY <1>1, <1>2, <1>3, WholeKeep DEF TablesInv, Whole
<1>5. SlotsOK(p)'
  BY <1>1, <1>2, <1>3, PageSlot, SlotAssumption DEF TablesInv, SlotsOK, HoldsMem, Idle
<1> QED
  BY <1>1, <1>2, <1>3, <1>4, <1>5, OwnKeep, LocType DEF ThreadInv, Building

LEMMA CopyoutTables ==
  ASSUME ThreadInv, TablesInv, NEW p \in Proc, NEW v \in Page, NEW x \in Value, Copyout(p, v, x)
  PROVE  TablesInv'
<1>1. /\ pc[p] = "user" /\ pc' = [pc EXCEPT ![p] = "copyout"] /\ sz' = sz /\ pa' = pa
      /\ loc' = [loc EXCEPT ![p].cur = v, ![p].val = x]
  BY DEF Copyout, InUser, At, Goto
<1>2. pc'[p] = "copyout" /\ loc'[p].np = loc[p].np
  BY <1>1, LocType DEF ThreadInv, Locals
<1>3. MapOK(p)'
  BY <1>1, <1>2, WholeKeep DEF TablesInv, Whole
<1>4. SlotsOK(p)'
  BY <1>1, <1>2 DEF TablesInv, SlotsOK, HoldsMem, Idle
<1> QED
  BY <1>1, <1>2, <1>3, <1>4, OwnKeep, LocType DEF ThreadInv, Building

LEMMA CopyoutPageTables ==
  ASSUME ThreadInv, TablesInv, NEW p \in Proc, CopyoutPage(p)
  PROVE  TablesInv'
<1>1. pc[p] = "copyout" /\ sz' = sz /\ loc' = loc
  BY DEF CopyoutPage, At
<1>2. CASE Kalloc(p, Mem, Junk) /\ pc' = [pc EXCEPT ![p] = "cow_copy"]
  <2>1. /\ \A q \in Proc : q # p => pa'[q] = pa[q]
        /\ \A t \in Slot : t # Mem => pa'[p][t] = pa[p][t]
        /\ \A w \in Page : pa'[p][w] = pa[p][w]
        /\ pa'[p][Mem] # None
    BY <1>2, KallocTables, PageSlot, NotPage DEF ThreadInv
  <2>2. pc'[p] = "cow_copy"
    BY <1>2, LocType DEF ThreadInv
  <2>3. MapOK(p)'
    BY <1>1, <2>1, <2>2, WholeKeep DEF TablesInv, Whole
  <2>4. SlotsOK(p)'
    BY <1>1, <2>1, <2>2, PageSlot, SlotAssumption DEF TablesInv, SlotsOK, HoldsMem, Idle
  <2> QED
    BY <1>1, <1>2, <2>1, <2>2, <2>3, <2>4, OwnKeep, LocType DEF ThreadInv, Building
<1>3. CASE pa' = pa /\ pc' = [pc EXCEPT ![p] = "copyout_write"]
  <2>1. pc'[p] = "copyout_write"
    BY <1>3, LocType DEF ThreadInv
  <2>2. MapOK(p)'
    BY <1>1, <1>3, <2>1, WholeKeep DEF TablesInv, Whole
  <2>3. SlotsOK(p)'
    BY <1>1, <1>3, <2>1 DEF TablesInv, SlotsOK, HoldsMem, Idle
  <2> QED
    BY <1>1, <1>3, <2>1, <2>2, <2>3, OwnKeep, LocType DEF ThreadInv, Building
<1> QED
  BY <1>2, <1>3 DEF CopyoutPage, Goto

\* The child of wait() becomes a zombie again, with all of its memory.
LEMMA CopyoutFailTables ==
  ASSUME ThreadInv, TablesInv, NEW p \in Proc, CopyoutFail(p)
  PROVE  TablesInv'
<1>0. PICK c \in Proc \cup {None} : c = loc[p].np
  BY LocFields DEF ThreadInv
<1>1. /\ pc[p] = "copyout" /\ sz' = sz /\ pa' = pa
      /\ loc' = [loc EXCEPT ![p] = NoLocals]
      /\ pc' = [q \in Proc |-> IF q = p THEN "user" ELSE IF q = c THEN "zombie" ELSE pc[q]]
  BY <1>0 DEF CopyoutFail, At
<1>2. pc'[p] = "user" /\ loc'[p] = NoLocals /\ loc'[p].np = None
  BY <1>1, LocType, NoLocalsType DEF ThreadInv
<1>3. MapOK(p)'
  BY <1>1, <1>2, WholeKeep DEF TablesInv, Whole
<1>4. SlotsOK(p)' /\ ChildOK(p)'
  BY <1>1, <1>2 DEF TablesInv, SlotsOK, ChildOK, HoldsMem, Idle
<1>5. ASSUME c # None
      PROVE  c # p /\ pc[c] = "reaped" /\ MapOK(c)' /\ SlotsOK(c)'
  <2>1. c \in Proc /\ c # p
    BY <1>0, <1>1, <1>5 DEF ThreadInv, OwnerOK
  <2>2. pc[c] = "reaped" /\ MapsOnly(c, 0 .. sz[c] - 1)
    BY <1>0, <1>1, <1>5 DEF TablesInv, ChildOK, Building
  <2>3. pc'[c] = "zombie" /\ loc'[c] = loc[c]
    BY <1>1, <2>1, LocType DEF ThreadInv
  <2>4. MapOK(c)'
    BY <1>1, <2>2, <2>3 DEF MapOK, MapsOnly, Mapped, Whole
  <2>5. SlotsOK(c)'
    BY <1>1, <2>1, <2>2, <2>3 DEF TablesInv, SlotsOK, HoldsMem, Idle
  <2> QED
    BY <2>1, <2>2, <2>4, <2>5
<1> QED
  BY <1>0, <1>1, <1>2, <1>3, <1>4, <1>5, TablesKeep

LEMMA CowCopyTables ==
  ASSUME ThreadInv, TablesInv, NEW p \in Proc, CowCopy(p)
  PROVE  TablesInv'
<1>1. /\ pc[p] = "cow_copy" /\ pc' = [pc EXCEPT ![p] = "cow_kfree"]
      /\ sz' = sz /\ pa' = pa /\ loc' = loc
  BY DEF CowCopy, At, Goto
<1>2. pc'[p] = "cow_kfree"
  BY <1>1, LocType DEF ThreadInv
<1>3. MapOK(p)'
  BY <1>1, <1>2, WholeKeep DEF TablesInv, Whole
<1>4. SlotsOK(p)'
  BY <1>1, <1>2 DEF TablesInv, SlotsOK, HoldsMem, Idle
<1> QED
  BY <1>1, <1>2, <1>3, <1>4, OwnKeep, LocType DEF ThreadInv, Building

LEMMA CowKfreeTables ==
  ASSUME ThreadInv, TablesInv, NEW p \in Proc, CowKfree(p)
  PROVE  TablesInv'
<1> DEFINE v == loc[p].cur
<1>1. /\ pc[p] = "cow_kfree" /\ pc' = [pc EXCEPT ![p] = "cow_map"]
      /\ sz' = sz /\ loc' = loc /\ Kfree(p, p, v)
      /\ v \in Page /\ pa[p][v] # None
  BY DEF CowKfree, At, Goto, ThreadInv, LocalsOK, Paging
<1>2. pc'[p] = "cow_map"
  BY <1>1, LocType DEF ThreadInv
<1>3. /\ \A r \in Proc : r # p => pa'[r] = pa[r]
      /\ \A t \in Slot : t # v => pa'[p][t] = pa[p][t]
      /\ pa'[p][v] = None
  BY <1>1, KfreeTables, PageSlot DEF ThreadInv
<1>4. MapsOnly(p, 0 .. sz[p] - 1) /\ v < sz[p]
  <2>1. MapsOnly(p, 0 .. sz[p] - 1)
    BY <1>1 DEF TablesInv, MapOK, Whole
  <2>2. v \in 0 .. sz[p] - 1
    BY <1>1, <2>1 DEF MapsOnly, Mapped
  <2> QED
    BY <2>1, <2>2, <1>1 DEF ThreadInv, TypeOK
<1>5. MapOK(p)'
  BY <1>1, <1>2, <1>3, <1>4, PageSlot DEF MapOK, MapsOnly, Mapped, Whole
<1>6. SlotsOK(p)'
  BY <1>1, <1>2, <1>3, PageSlot, NotPage DEF TablesInv, SlotsOK, HoldsMem, Idle
<1> QED
  BY <1>1, <1>2, <1>3, <1>5, <1>6, OwnKeep, LocType DEF ThreadInv, Building

LEMMA CowMapTables ==
  ASSUME ThreadInv, TablesInv, NEW p \in Proc, CowMap(p)
  PROVE  TablesInv'
<1> DEFINE v == loc[p].cur
<1>1. /\ pc[p] = "cow_map" /\ sz' = sz /\ v \in Page
      /\ pa' = [pa EXCEPT ![p][v] = pa[p][Mem], ![p][Mem] = None]
  BY DEF CowMap, At, ThreadInv, LocalsOK, Paging
<1>2. pa \in [Proc -> [Slot -> Frame \cup {None}]] /\ v \in Slot /\ Mem \in Slot /\ v # Mem
  BY <1>1, PageSlot, NotPage DEF ThreadInv, TypeOK
<1>3. /\ \A r \in Proc : r # p => pa'[r] = pa[r]
      /\ \A t \in Slot : t # v /\ t # Mem => pa'[p][t] = pa[p][t]
      /\ pa'[p][v] = pa[p][Mem] /\ pa'[p][Mem] = None
  BY <1>1, <1>2
<1>4. /\ pa[p][Mem] # None /\ v < sz[p] /\ MapsOnly(p, (0 .. sz[p] - 1) \ {v})
  BY <1>1 DEF TablesInv, MapOK, SlotsOK, HoldsMem
<1>5. MapsOnly(p, 0 .. sz[p] - 1)'
  <2>1. sz[p] \in Nat /\ v \in Nat /\ sz'[p] = sz[p]
    BY <1>1, PageAssumption DEF ThreadInv, TypeOK, Page
  <2>2. ASSUME NEW w \in Page PROVE pa'[p][w] # None <=> w \in 0 .. sz[p] - 1
    <3>1. CASE w = v
      BY <1>3, <1>4, <2>1, <3>1
    <3>2. CASE w # v
      BY <1>3, <1>4, <2>1, <3>2, PageSlot, NotPage DEF MapsOnly, Mapped
    <3> QED
      BY <3>1, <3>2
  <2> QED
    BY <2>1, <2>2 DEF MapsOnly, Mapped
<1>6. pa'[p][Pa] = None
  BY <1>1, <1>3, PageSlot, NotPage, SlotAssumption DEF TablesInv, SlotsOK
<1>7. CASE pc' = [pc EXCEPT ![p] = "user"] /\ loc' = [loc EXCEPT ![p] = NoLocals]
  <2>1. pc'[p] = "user" /\ loc'[p] = NoLocals /\ loc'[p].np = None
    BY <1>7, LocType, NoLocalsType DEF ThreadInv
  <2>2. MapOK(p)' /\ SlotsOK(p)'
    BY <1>3, <1>5, <1>6, <2>1 DEF MapOK, SlotsOK, HoldsMem
  <2> QED
    BY <1>1, <1>3, <1>7, <2>1, <2>2, OwnKeep, LocType DEF ThreadInv
<1>8. CASE pc' = [pc EXCEPT ![p] = "copyout_write"] /\ loc' = loc
  <2>1. pc'[p] = "copyout_write"
    BY <1>8, LocType DEF ThreadInv
  <2>2. MapOK(p)' /\ SlotsOK(p)'
    BY <1>3, <1>5, <1>6, <2>1 DEF MapOK, SlotsOK, HoldsMem, Idle
  <2> QED
    BY <1>1, <1>3, <1>8, <2>1, <2>2, OwnKeep, LocType DEF ThreadInv, Building
<1> QED
  BY <1>7, <1>8 DEF CowMap, Return, Goto

LEMMA CopyoutWriteTables ==
  ASSUME ThreadInv, TablesInv, NEW p \in Proc, CopyoutWrite(p)
  PROVE  TablesInv'
<1>1. pa' = pa /\ sz' = sz /\ pc[p] = "copyout_write"
  BY DEF CopyoutWrite, At
<1>2. CASE pc' = [pc EXCEPT ![p] = "copyout"] /\ loc' = [loc EXCEPT ![p].cur = @ + 1]
  <2>1. pc'[p] = "copyout" /\ loc'[p].np = loc[p].np
    BY <1>2, LocType DEF ThreadInv, Locals
  <2>2. MapOK(p)'
    BY <1>1, <2>1, WholeKeep DEF TablesInv, Whole
  <2>3. SlotsOK(p)'
    BY <1>1, <2>1 DEF TablesInv, SlotsOK, HoldsMem, Idle
  <2> QED
    BY <1>1, <1>2, <2>1, <2>2, <2>3, OwnKeep, LocType DEF ThreadInv, Building
<1>3. CASE pc' = [pc EXCEPT ![p] = "user"] /\ loc' = [loc EXCEPT ![p] = NoLocals]
  <2>1. pc'[p] = "user" /\ loc'[p] = NoLocals /\ loc'[p].np = None
    BY <1>3, LocType, NoLocalsType DEF ThreadInv
  <2>2. MapOK(p)'
    BY <1>1, <2>1, WholeKeep DEF TablesInv, Whole
  <2>3. SlotsOK(p)'
    BY <1>1, <2>1 DEF TablesInv, SlotsOK, HoldsMem, Idle
  <2> QED
    BY <1>1, <1>3, <2>1, <2>2, <2>3, OwnKeep, LocType DEF ThreadInv
<1>4. CASE /\ loc[p].np # None /\ pc' = [pc EXCEPT ![p] = "freeproc"]
           /\ loc' = [loc EXCEPT ![p].cur = 0, ![p].val = None]
  <2>0. PICK c \in Proc : c = loc[p].np /\ c # p
    BY <1>1, <1>4, LocFields DEF ThreadInv, OwnerOK
  <2>1. loc'[p].np = c
    BY <1>4, <2>0, LocType, ZenonT(30) DEF ThreadInv, Locals
  <2>2. pc'[p] = "freeproc" /\ pc'[c] = pc[c]
    BY <1>4, <2>0, LocType DEF ThreadInv
  <2>3. MapOK(p)'
    BY <1>1, <2>2, WholeKeep DEF TablesInv, Whole
  <2>4. SlotsOK(p)'
    BY <1>1, <2>2 DEF TablesInv, SlotsOK, HoldsMem, Idle
  <2>5. MapsOnly(c, 0 .. sz[c] - 1) /\ c # None
    BY <1>1, <1>4, <2>0 DEF TablesInv, ChildOK, Building
  <2>6. ChildOK(p)'
    <3>1. \A v \in Page : Mapped(c, v) => v < sz[c]
      BY <2>5, SizeType DEF MapsOnly, Page, ThreadInv
    <3> QED
      BY <1>1, <2>1, <2>2, <3>1 DEF ChildOK, Mapped, Building
  <2>7. \A q \in Proc : q # p => loc'[q] = loc[q] /\ pc'[q] = pc[q]
    BY <1>4, LocType, ZenonT(30) DEF ThreadInv
  <2>8. None \in Proc \cup {None} /\ \A q \in Proc : q # None
    BY ProcAssumption
  <2> QED
    BY <1>1, <2>3, <2>4, <2>6, <2>7, <2>8, TablesKeep
<1> QED
  BY <1>2, <1>3, <1>4 DEF CopyoutWrite, Return, Goto

-----------------------------------------------------------------------------
(* fork()                                                                  *)

\* The child that a thread builds or releases.
LEMMA ItsChild ==
  ASSUME ThreadInv, TablesInv, NEW p \in Proc, pc[p] \in Building
  PROVE  \E c \in Proc : /\ c = loc[p].np /\ c # p /\ c # None
                         /\ pc[c] \in {"embryo", "reaped"}
                         /\ loc[c] = NoLocals
                         /\ pa[c][Mem] = None /\ pa[c][Pa] = None
                         /\ pc[p] # "freeproc" => pc[c] = "embryo" /\ sz[c] = 0
<1>1. PICK c \in Proc : c = loc[p].np /\ c # p /\ pc[c] \in {"embryo", "reaped"}
  BY Child
<1>2. c # None
  BY ProcAssumption
<1>3. pc[p] # "freeproc" => pc[c] = "embryo"
  BY <1>1, <1>2 DEF TablesInv, ChildOK
<1> QED
  BY <1>1, <1>2, <1>3 DEF TablesInv, SlotsOK, Idle, HoldsMem

\* An embryo or a reaped entry only has to keep its two locals free.
LEMMA ChildSlots ==
  ASSUME NEW c \in Proc, pc'[c] \in {"embryo", "reaped"}, pa'[c][Mem] = None, pa'[c][Pa] = None,
         pc'[c] = "embryo" => sz'[c] = 0, loc'[c] = NoLocals
  PROVE  MapOK(c)' /\ SlotsOK(c)'
  BY DEF MapOK, SlotsOK, Whole, HoldsMem, Idle

LEMMA ForkTables ==
  ASSUME ThreadInv, TablesInv, NEW p \in Proc, NEW c \in Proc, Fork(p, c)
  PROVE  TablesInv'
<1>1. /\ pc[p] = "user" /\ pc[c] = "unused" /\ pa' = pa /\ sz' = sz
      /\ pc' = [pc EXCEPT ![p] = "allocproc", ![c] = "embryo"]
      /\ loc' = [loc EXCEPT ![p].np = c]
  BY DEF Fork, InUser, At
<1>2. c # p /\ c # None
  BY <1>1, ProcAssumption
<1>3. /\ pc'[p] = "allocproc" /\ pc'[c] = "embryo"
      /\ \A q \in Proc : q # p /\ q # c => pc'[q] = pc[q]
      /\ \A q \in Proc : q # p => loc'[q] = loc[q]
  BY <1>1, <1>2, LocType DEF ThreadInv
<1>4. loc[p].cur = 0 /\ loc'[p].cur = 0 /\ loc'[p].np = c
  <2>1. loc[p] = NoLocals
    BY <1>1 DEF TablesInv, SlotsOK, Idle
  <2>2. loc[p].cur = 0
    BY <2>1 DEF NoLocals
  <2> QED
    BY <1>1, <2>2, LocType DEF ThreadInv, Locals
<1>5. MapOK(p)'
  BY <1>1, <1>3, WholeKeep DEF TablesInv, Whole
<1>6. SlotsOK(p)'
  BY <1>1, <1>3 DEF TablesInv, SlotsOK, HoldsMem, Idle
<1>7. loc[c] = NoLocals /\ sz[c] = 0 /\ \A s \in Slot : pa[c][s] = None
  BY <1>1 DEF TablesInv, SlotsOK, Idle
<1>8. MapOK(c)' /\ SlotsOK(c)'
  BY <1>1, <1>2, <1>3, <1>7, ChildSlots, PageSlot
<1>9. ChildOK(p)'
  BY <1>1, <1>3, <1>4, <1>7, PageSlot DEF ChildOK, MapsOnly, Mapped, Building
<1> QED
  BY <1>1, <1>2, <1>3, <1>5, <1>6, <1>8, <1>9, TablesKeep

LEMMA AllocprocTables ==
  ASSUME ThreadInv, TablesInv, NEW p \in Proc, Allocproc(p)
  PROVE  TablesInv'
<1>1. pc[p] = "allocproc" /\ loc' = loc /\ pc' = pc /\ sz' = sz
  BY DEF Allocproc, At
<1>2. PICK c \in Proc : /\ c = loc[p].np /\ c # p /\ c # None
                        /\ pc[c] = "embryo" /\ sz[c] = 0 /\ loc[c] = NoLocals
                        /\ pa[c][Mem] = None /\ pa[c][Pa] = None
  BY <1>1, ItsChild DEF Building
<1>3. PICK s \in Slot \ Page : Kalloc(c, s, Junk) /\ s # Mem /\ s # Pa
  BY <1>2, PageSlot, NotPage, SlotAssumption DEF Allocproc, Missing
<1>4. /\ \A q \in Proc : q # c => pa'[q] = pa[q]
      /\ \A t \in Slot : t # s => pa'[c][t] = pa[c][t]
      /\ \A w \in Page : pa'[c][w] = pa[c][w]
  BY <1>3, KallocTables DEF ThreadInv
<1>5. MapOK(p)' /\ SlotsOK(p)'
  BY <1>1, <1>2, <1>4 DEF TablesInv, MapOK, SlotsOK, MapsOnly, Mapped
<1>6. MapOK(c)' /\ SlotsOK(c)'
  BY <1>1, <1>2, <1>3, <1>4, ChildSlots, PageSlot
<1>7. ChildOK(p)'
  BY <1>1, <1>2, <1>4 DEF TablesInv, ChildOK, MapsOnly, Mapped, Building
<1> QED
  BY <1>1, <1>2, <1>4, <1>5, <1>6, <1>7, TablesKeep

LEMMA AllocprocFailTables ==
  ASSUME ThreadInv, TablesInv, NEW p \in Proc, AllocprocFail(p)
  PROVE  TablesInv'
<1>1. /\ pc[p] = "allocproc" /\ loc' = loc /\ pc' = [pc EXCEPT ![p] = "freeproc"]
      /\ pa' = pa /\ sz' = sz
  BY DEF AllocprocFail, At, Goto
<1>2. PICK c \in Proc : c = loc[p].np /\ c # p /\ c # None
  BY <1>1, ItsChild DEF Building
<1>3. pc'[p] = "freeproc" /\ pc'[c] = pc[c]
  BY <1>1, <1>2, LocType DEF ThreadInv
<1>4. MapOK(p)'
  BY <1>1, <1>3, WholeKeep DEF TablesInv, Whole
<1>5. SlotsOK(p)'
  BY <1>1, <1>3 DEF TablesInv, SlotsOK, HoldsMem, Idle
<1>6. MapsOnly(c, {})
  BY <1>1, <1>2 DEF TablesInv, ChildOK
<1>7. ChildOK(p)'
  BY <1>1, <1>2, <1>3, <1>6 DEF ChildOK, MapsOnly, Mapped, Building
<1>8. None \in Proc \cup {None} /\ \A q \in Proc : q # None
  BY ProcAssumption
<1> QED
  BY <1>1, <1>4, <1>5, <1>7, <1>8, TablesKeep

LEMMA AllocprocDoneTables ==
  ASSUME ThreadInv, TablesInv, NEW p \in Proc, AllocprocDone(p)
  PROVE  TablesInv'
<1>1. /\ pc[p] = "allocproc" /\ loc' = loc /\ pc' = [pc EXCEPT ![p] = "uvmcopy"]
      /\ pa' = pa /\ sz' = sz
  BY DEF AllocprocDone, At, Goto
<1>2. PICK c \in Proc : c = loc[p].np /\ c # p /\ c # None /\ pc[c] = "embryo"
  BY <1>1, ItsChild DEF Building
<1>3. pc'[p] = "uvmcopy" /\ pc'[c] = pc[c]
  BY <1>1, <1>2, LocType DEF ThreadInv
<1>4. loc[p].cur = 0 /\ MapsOnly(c, {})
  BY <1>1, <1>2 DEF TablesInv, ChildOK
<1>5. MapOK(p)'
  <2>1. MapsOnly(p, 0 .. sz[p] - 1)
    BY <1>1 DEF TablesInv, MapOK, Whole
  <2>2. 0 <= sz[p]
    BY SizeType DEF ThreadInv
  <2> QED
    BY <1>1, <1>3, <1>4, <2>1, <2>2 DEF MapOK, MapsOnly, Mapped
<1>6. SlotsOK(p)'
  BY <1>1, <1>3 DEF TablesInv, SlotsOK, HoldsMem, Idle
<1>7. ChildOK(p)'
  BY <1>1, <1>2, <1>3, <1>4 DEF ChildOK, MapsOnly, Mapped, Building
<1>8. None \in Proc \cup {None} /\ \A q \in Proc : q # None
  BY ProcAssumption
<1> QED
  BY <1>1, <1>5, <1>6, <1>7, <1>8, TablesKeep

LEMMA UvmcopyRefTables ==
  ASSUME ThreadInv, TablesInv, NEW p \in Proc, UvmcopyRef(p)
  PROVE  TablesInv'
<1>1. /\ pc[p] = "uvmcopy" /\ loc' = loc /\ pc' = [pc EXCEPT ![p] = "uvmcopy_map"]
      /\ loc[p].cur < sz[p] /\ sz' = sz
      /\ pa' = [pa EXCEPT ![p][Pa] = pa[p][loc[p].cur]]
  BY DEF UvmcopyRef, At, Goto
<1>2. PICK c \in Proc : c = loc[p].np /\ c # p /\ c # None /\ pc[c] = "embryo"
  BY <1>1, ItsChild DEF Building
<1>3. pc'[p] = "uvmcopy_map" /\ pc'[c] = pc[c]
  BY <1>1, <1>2, LocType DEF ThreadInv
<1>4. /\ \A q \in Proc : q # p => pa'[q] = pa[q]
      /\ \A t \in Slot : t # Pa => pa'[p][t] = pa[p][t]
      /\ \A w \in Page : pa'[p][w] = pa[p][w]
  BY <1>1, PageSlot, NotPage DEF ThreadInv, TypeOK
<1>5. MapOK(p)'
  BY <1>1, <1>3, <1>4 DEF TablesInv, MapOK, MapsOnly, Mapped, Whole
<1>6. SlotsOK(p)'
  BY <1>1, <1>3, <1>4, PageSlot, SlotAssumption DEF TablesInv, SlotsOK, HoldsMem, Idle
<1>7. ChildOK(p)'
  BY <1>1, <1>2, <1>3, <1>4 DEF TablesInv, ChildOK, MapsOnly, Mapped, Building
<1>8. None \in Proc \cup {None} /\ \A q \in Proc : q # None
  BY ProcAssumption
<1> QED
  BY <1>1, <1>4, <1>5, <1>6, <1>7, <1>8, TablesKeep

LEMMA UvmcopyWalkTables ==
  ASSUME ThreadInv, TablesInv, NEW p \in Proc, UvmcopyWalk(p)
  PROVE  TablesInv'
<1>1. pc[p] = "uvmcopy_map" /\ loc' = loc /\ pc' = pc /\ sz' = sz
  BY DEF UvmcopyWalk, At
<1>2. PICK c \in Proc : /\ c = loc[p].np /\ c # p /\ c # None
                        /\ pc[c] = "embryo" /\ sz[c] = 0 /\ loc[c] = NoLocals
                        /\ pa[c][Mem] = None /\ pa[c][Pa] = None
  BY <1>1, ItsChild DEF Building
<1>3. PICK s \in Slot \ Page : Kalloc(c, s, Zero) /\ s # Mem /\ s # Pa
  <2>1. loc[p].cur \in Page
    BY <1>1 DEF ThreadInv, LocalsOK, Paging
  <2> QED
    BY <1>2, <2>1, PageSlot, NotPage, SlotAssumption DEF UvmcopyWalk
<1>4. /\ \A q \in Proc : q # c => pa'[q] = pa[q]
      /\ \A t \in Slot : t # s => pa'[c][t] = pa[c][t]
      /\ \A w \in Page : pa'[c][w] = pa[c][w]
  BY <1>3, KallocTables, ValueAssumption DEF ThreadInv
<1>5. MapOK(p)' /\ SlotsOK(p)'
  BY <1>1, <1>2, <1>4 DEF TablesInv, MapOK, SlotsOK, MapsOnly, Mapped
<1>6. MapOK(c)' /\ SlotsOK(c)'
  BY <1>1, <1>2, <1>3, <1>4, ChildSlots, PageSlot
<1>7. ChildOK(p)'
  BY <1>1, <1>2, <1>4 DEF TablesInv, ChildOK, MapsOnly, Mapped, Building
<1> QED
  BY <1>1, <1>2, <1>4, <1>5, <1>6, <1>7, TablesKeep

LEMMA UvmcopyMapTables ==
  ASSUME ThreadInv, TablesInv, NEW p \in Proc, UvmcopyMap(p)
  PROVE  TablesInv'
<1>0. PICK v \in Page : v = loc[p].cur
  BY DEF UvmcopyMap, At, ThreadInv, LocalsOK, Paging
<1>1. /\ pc[p] = "uvmcopy_map" /\ pc' = [pc EXCEPT ![p] = "uvmcopy"] /\ sz' = sz
      /\ loc' = [loc EXCEPT ![p].cur = v + 1]
  BY <1>0 DEF UvmcopyMap, At, Goto
<1>2. PICK c \in Proc : /\ c = loc[p].np /\ c # p /\ c # None
                        /\ pc[c] = "embryo" /\ sz[c] = 0 /\ loc[c] = NoLocals
                        /\ pa[c][Mem] = None /\ pa[c][Pa] = None
  BY <1>1, ItsChild DEF Building
<1>3. /\ pa \in [Proc -> [Slot -> Frame \cup {None}]]
      /\ pa' = [pa EXCEPT ![c][v] = pa[p][Pa], ![p][Pa] = None]
  BY <1>0, <1>2 DEF ThreadInv, TypeOK, UvmcopyMap
<1>4. /\ \A q \in Proc : q # p /\ q # c => pa'[q] = pa[q]
      /\ \A t \in Slot : t # v => pa'[c][t] = pa[c][t]
      /\ \A t \in Slot : t # Pa => pa'[p][t] = pa[p][t]
      /\ pa'[c][v] = pa[p][Pa] /\ pa'[p][Pa] = None
  BY <1>2, <1>3, PageSlot, NotPage
<1>5. /\ pc'[p] = "uvmcopy" /\ pc'[c] = "embryo" /\ loc'[p].cur = v + 1 /\ loc'[p].np = c
      /\ loc'[c] = loc[c]
  BY <1>1, <1>2, LocType DEF ThreadInv, Locals
<1>6. MapsOnly(p, 0 .. sz[p] - 1) /\ v < sz[p] /\ MapsOnly(c, 0 .. v - 1)
  BY <1>0, <1>1, <1>2 DEF TablesInv, MapOK, ChildOK, Whole
<1>7. v \in Nat /\ sz[p] \in Nat
  BY SizeType DEF Page, ThreadInv
<1>8. pa[p][Pa] # None
  BY <1>0, <1>1, <1>6, <1>7 DEF ThreadInv, LocalsOK, MapsOnly, Mapped
<1>9. MapOK(p)'
  BY <1>1, <1>4, <1>5, <1>6, <1>7, PageSlot, NotPage DEF MapOK, MapsOnly, Mapped
<1>10. SlotsOK(p)'
  BY <1>1, <1>4, <1>5, PageSlot, SlotAssumption DEF TablesInv, SlotsOK, HoldsMem, Idle
<1>11. MapOK(c)' /\ SlotsOK(c)'
  BY <1>1, <1>2, <1>4, <1>5, ChildSlots, PageSlot, NotPage
<1>12. \A w \in Page : pa'[c][w] # None <=> w \in 0 .. v
  <2> SUFFICES ASSUME NEW w \in Page PROVE pa'[c][w] # None <=> w \in 0 .. v
    OBVIOUS
  <2>1. CASE w = v
    BY <1>4, <1>7, <1>8, <2>1
  <2>2. CASE w # v
    BY <1>4, <1>6, <1>7, <2>2, PageSlot DEF MapsOnly, Mapped, Page
  <2> QED
    BY <2>1, <2>2
<1>13. ChildOK(p)'
  BY <1>5, <1>7, <1>12 DEF ChildOK, MapsOnly, Mapped, Building
<1>14. \A q \in Proc : q # p => loc'[q] = loc[q] /\ pc'[q] = pc[q]
  BY <1>1, LocType DEF ThreadInv
<1> QED
  BY <1>1, <1>2, <1>4, <1>9, <1>10, <1>11, <1>13, <1>14, TablesKeep

LEMMA UvmcopyFailTables ==
  ASSUME ThreadInv, TablesInv, NEW p \in Proc, UvmcopyFail(p)
  PROVE  TablesInv'
<1>0. PICK v \in Page : v = loc[p].cur
  BY DEF UvmcopyFail, At, ThreadInv, LocalsOK, Paging
<1>1. /\ pc[p] = "uvmcopy_map" /\ pc' = [pc EXCEPT ![p] = "uvmcopy_err"] /\ sz' = sz
      /\ loc' = [loc EXCEPT ![p].lim = v, ![p].cur = 0]
      /\ pa' = [pa EXCEPT ![p][Pa] = None]
  BY <1>0 DEF UvmcopyFail, At, Goto
<1>2. PICK c \in Proc : c = loc[p].np /\ c # p /\ c # None /\ pc[c] = "embryo"
  BY <1>1, ItsChild DEF Building
<1>3. /\ \A q \in Proc : q # p => pa'[q] = pa[q]
      /\ \A t \in Slot : t # Pa => pa'[p][t] = pa[p][t]
      /\ \A w \in Page : pa'[p][w] = pa[p][w]
      /\ pa'[p][Pa] = None
  BY <1>1, PageSlot, NotPage DEF ThreadInv, TypeOK
<1>4. /\ pc'[p] = "uvmcopy_err" /\ pc'[c] = "embryo"
      /\ loc'[p].cur = 0 /\ loc'[p].lim = v /\ loc'[p].np = c
  BY <1>1, <1>2, LocType DEF ThreadInv, Locals
<1>5. MapOK(p)'
  BY <1>1, <1>3, <1>4, WholeKeep DEF TablesInv, Whole
<1>6. SlotsOK(p)'
  BY <1>1, <1>3, <1>4, PageSlot, SlotAssumption DEF TablesInv, SlotsOK, HoldsMem, Idle
<1>7. MapsOnly(c, 0 .. v - 1) /\ 0 <= v
  BY <1>0, <1>1, <1>2 DEF TablesInv, ChildOK, Page
<1>8. ChildOK(p)'
  BY <1>2, <1>3, <1>4, <1>7 DEF ChildOK, MapsOnly, Mapped, Building
<1>9. \A q \in Proc : q # p => loc'[q] = loc[q] /\ pc'[q] = pc[q]
  BY <1>1, LocType DEF ThreadInv
<1>10. None \in Proc \cup {None} /\ \A q \in Proc : q # None
  BY ProcAssumption
<1> QED
  BY <1>1, <1>3, <1>5, <1>6, <1>8, <1>9, <1>10, TablesKeep

LEMMA UvmcopyErrTables ==
  ASSUME ThreadInv, TablesInv, NEW p \in Proc, UvmcopyErr(p)
  PROVE  TablesInv'
<1>1. pc[p] = "uvmcopy_err" /\ sz' = sz
  BY DEF UvmcopyErr, At
<1>2. PICK c \in Proc : /\ c = loc[p].np /\ c # p /\ c # None
                        /\ pc[c] = "embryo" /\ sz[c] = 0 /\ loc[c] = NoLocals
                        /\ pa[c][Mem] = None /\ pa[c][Pa] = None
  BY <1>1, ItsChild DEF Building
<1>3. PICK v \in 0 .. MaxPage : v = loc[p].cur
  BY LocFields DEF ThreadInv
<1>4. PICK lim \in 0 .. MaxPage : lim = loc[p].lim
  BY LocFields DEF ThreadInv
<1>5. v <= lim /\ MapsOnly(c, v .. lim - 1) /\ MaxPage \in Nat
  BY <1>1, <1>2, <1>3, <1>4, PageAssumption DEF TablesInv, ChildOK
<1>6. CASE v < lim
  <2>1. Kfree(p, c, v) /\ loc' = [loc EXCEPT ![p].cur = v + 1] /\ pc' = pc
    BY <1>2, <1>3, <1>4, <1>6 DEF UvmcopyErr, Unmap
  <2>2. v \in Page /\ v + 1 <= lim
    BY <1>5, <1>6 DEF Page
  <2>3. /\ \A q \in Proc : q # c => pa'[q] = pa[q]
        /\ \A t \in Slot : t # v => pa'[c][t] = pa[c][t]
        /\ pa'[c][v] = None
    BY <2>1, <2>2, KfreeTables, PageSlot DEF ThreadInv
  <2>4. loc'[p].cur = v + 1 /\ loc'[p].lim = lim /\ loc'[p].np = c /\ loc'[c] = loc[c]
    BY <1>2, <1>4, <2>1, LocType DEF ThreadInv, Locals
  <2>5. MapOK(p)' /\ SlotsOK(p)'
    BY <1>1, <1>2, <2>1, <2>3 DEF TablesInv, MapOK, SlotsOK, MapsOnly, Mapped, Whole, HoldsMem, Idle
  <2>6. MapOK(c)' /\ SlotsOK(c)'
    BY <1>1, <1>2, <2>1, <2>2, <2>3, <2>4, ChildSlots, PageSlot, NotPage
  <2>7. \A w \in Page : pa'[c][w] # None <=> w \in v + 1 .. lim - 1
    <3> SUFFICES ASSUME NEW w \in Page PROVE pa'[c][w] # None <=> w \in v + 1 .. lim - 1
      OBVIOUS
    <3>1. CASE w = v
      BY <2>3, <3>1 DEF Page
    <3>2. CASE w # v
      BY <1>5, <2>3, <3>2, PageSlot DEF MapsOnly, Mapped, Page
    <3> QED
      BY <3>1, <3>2
  <2>8. ChildOK(p)'
    BY <1>1, <1>2, <2>1, <2>2, <2>4, <2>7 DEF ChildOK, MapsOnly, Mapped, Building
  <2>9. \A q \in Proc : q # p => loc'[q] = loc[q]
    BY <2>1
  <2> QED
    BY <1>1, <1>2, <2>1, <2>3, <2>5, <2>6, <2>8, <2>9, TablesKeep
<1>7. CASE ~(v < lim)
  <2>1. /\ pc' = [pc EXCEPT ![p] = "freeproc"] /\ pa' = pa
        /\ loc' = [loc EXCEPT ![p].cur = 0, ![p].lim = 0]
    BY <1>3, <1>4, <1>7 DEF UvmcopyErr, Goto, memory
  <2>2. pc'[p] = "freeproc" /\ pc'[c] = pc[c] /\ loc'[p].np = c
    BY <1>2, <2>1, LocType DEF ThreadInv, Locals
  <2>3. MapOK(p)'
    BY <1>1, <2>1, <2>2, WholeKeep DEF TablesInv, Whole
  <2>4. SlotsOK(p)'
    BY <1>1, <2>1, <2>2 DEF TablesInv, SlotsOK, HoldsMem, Idle
  <2>5. \A w \in Page : pa[c][w] = None
    BY <1>5, <1>7 DEF MapsOnly, Mapped
  <2>6. ChildOK(p)'
    BY <1>2, <2>1, <2>2, <2>5 DEF ChildOK, Mapped, Building
  <2>7. \A q \in Proc : q # p => loc'[q] = loc[q] /\ pc'[q] = pc[q]
    BY <2>1, LocType DEF ThreadInv
  <2>8. None \in Proc \cup {None} /\ \A q \in Proc : q # None
    BY ProcAssumption
  <2> QED
    BY <1>1, <2>1, <2>3, <2>4, <2>6, <2>7, <2>8, TablesKeep
<1> QED
  BY <1>6, <1>7

LEMMA ForkDoneTables ==
  ASSUME ThreadInv, TablesInv, NEW p \in Proc, ForkDone(p)
  PROVE  TablesInv'
<1>1. pc[p] = "uvmcopy" /\ pa' = pa /\ loc[p].cur = sz[p] /\ loc' = [loc EXCEPT ![p] = NoLocals]
  BY DEF ForkDone, At
<1>2. PICK c \in Proc : /\ c = loc[p].np /\ c # p /\ c # None
                        /\ pc[c] = "embryo" /\ sz[c] = 0 /\ loc[c] = NoLocals
                        /\ pa[c][Mem] = None /\ pa[c][Pa] = None
  BY <1>1, ItsChild DEF Building
<1>3. /\ pc' = [pc EXCEPT ![p] = "user", ![c] = "user"] /\ sz' = [sz EXCEPT ![c] = sz[p]]
  BY <1>2 DEF ForkDone
<1>4. /\ pc'[p] = "user" /\ pc'[c] = "user" /\ loc'[p] = NoLocals /\ loc'[c] = NoLocals
      /\ loc'[p].np = None
  BY <1>1, <1>2, <1>3, LocType, NoLocalsType DEF ThreadInv
<1>5. sz'[p] = sz[p] /\ sz'[c] = sz[p]
  BY <1>2, <1>3 DEF ThreadInv, TypeOK
<1>6. MapOK(p)'
  BY <1>1, <1>4, <1>5, WholeKeep DEF TablesInv, Whole
<1>7. SlotsOK(p)' /\ ChildOK(p)'
  BY <1>1, <1>4, <1>5 DEF TablesInv, SlotsOK, ChildOK, HoldsMem, Idle
<1>8. MapsOnly(c, 0 .. sz[p] - 1)
  BY <1>1, <1>2 DEF TablesInv, ChildOK
<1>9. MapOK(c)'
  BY <1>1, <1>4, <1>5, <1>8 DEF MapOK, MapsOnly, Mapped
<1>10. SlotsOK(c)'
  BY <1>1, <1>2, <1>4 DEF SlotsOK, HoldsMem
<1>11. \A q \in Proc : q # p => loc'[q] = loc[q]
  BY <1>1
<1>12. \A q \in Proc : q # p /\ q # c => pc'[q] = pc[q] /\ sz'[q] = sz[q]
  BY <1>3, LocType DEF ThreadInv, TypeOK
<1> QED
  BY <1>1, <1>2, <1>6, <1>7, <1>9, <1>10, <1>11, <1>12, TablesKeep

-----------------------------------------------------------------------------
(* exit(), wait() and freeproc()                                           *)

LEMMA ExitTables ==
  ASSUME ThreadInv, TablesInv, NEW p \in Proc, Exit(p)
  PROVE  TablesInv'
<1>1. /\ pc[p] = "user" /\ pc' = [pc EXCEPT ![p] = "zombie"]
      /\ sz' = sz /\ pa' = pa /\ loc' = loc
  BY DEF Exit, At, Goto
<1>2. pc'[p] = "zombie"
  BY <1>1, LocType DEF ThreadInv
<1>3. MapOK(p)'
  BY <1>1, <1>2, WholeKeep DEF TablesInv, Whole
<1>4. SlotsOK(p)'
  BY <1>1, <1>2 DEF TablesInv, SlotsOK, HoldsMem, Idle
<1> QED
  BY <1>1, <1>2, <1>3, <1>4, OwnKeep, LocType DEF ThreadInv, Building

LEMMA InitPanicTables ==
  ASSUME ThreadInv, TablesInv, NEW p \in Proc, InitPanic(p)
  PROVE  TablesInv'
<1>1. /\ pc[p] = "user" /\ pc' = [pc EXCEPT ![p] = "panic"]
      /\ sz' = sz /\ pa' = pa /\ loc' = loc
  BY DEF InitPanic, At, Goto
<1>2. pc'[p] = "panic"
  BY <1>1, LocType DEF ThreadInv
<1>3. MapOK(p)' /\ SlotsOK(p)'
  BY <1>1, <1>2 DEF TablesInv, MapOK, SlotsOK, HoldsMem, Idle, Whole
<1> QED
  BY <1>1, <1>2, <1>3, OwnKeep, LocType DEF ThreadInv, Building

LEMMA WaitTables ==
  ASSUME ThreadInv, TablesInv, NEW p \in Proc, NEW c \in Proc, Wait(p, c)
  PROVE  TablesInv'
<1>1. pc[p] = "user" /\ pc[c] = "zombie" /\ pa' = pa /\ sz' = sz /\ c # p /\ c # None
  BY ProcAssumption DEF Wait, InUser, At
<1>2. PICK l \in {"freeproc", "copyout"} :
        /\ pc' = [pc EXCEPT ![p] = l, ![c] = "reaped"]
        /\ \A q \in Proc : q # p => loc'[q] = loc[q]
        /\ loc'[p].np = c
  <2>1. CASE /\ pc' = [pc EXCEPT ![p] = "freeproc", ![c] = "reaped"]
             /\ loc' = [loc EXCEPT ![p].np = c]
    BY <2>1, LocType DEF ThreadInv, Locals
  <2>2. CASE \E v \in Page, x \in Value :
               /\ pc' = [pc EXCEPT ![p] = "copyout", ![c] = "reaped"]
               /\ loc' = [loc EXCEPT ![p].np = c, ![p].cur = v, ![p].val = x]
    BY <2>2, LocType DEF ThreadInv, Locals
  <2> QED
    BY <2>1, <2>2 DEF Wait
<1>3. /\ pc'[p] \in {"freeproc", "copyout"} /\ pc'[c] = "reaped"
      /\ \A q \in Proc : q # p /\ q # c => pc'[q] = pc[q]
  BY <1>1, <1>2, LocType DEF ThreadInv
<1>4. MapOK(p)'
  BY <1>1, <1>3, WholeKeep DEF TablesInv, Whole
<1>5. SlotsOK(p)'
  BY <1>1, <1>3 DEF TablesInv, SlotsOK, HoldsMem, Idle
<1>6. MapsOnly(c, 0 .. sz[c] - 1) /\ loc[c] = NoLocals /\ pa[c][Mem] = None /\ pa[c][Pa] = None
  BY <1>1 DEF TablesInv, MapOK, SlotsOK, HoldsMem, Idle, Whole
<1>7. MapOK(c)' /\ SlotsOK(c)'
  BY <1>1, <1>2, <1>3, <1>6, ChildSlots
<1>8. \A v \in Page : Mapped(c, v) => v < sz[c]
  BY <1>6, SizeType DEF MapsOnly, Page, ThreadInv
<1>9. ChildOK(p)'
  BY <1>1, <1>2, <1>3, <1>6, <1>8 DEF ChildOK, MapsOnly, Mapped, Building
<1>10. /\ c \in Proc \cup {None} /\ pc[p] \notin {"embryo", "reaped"}
       /\ pc[c] \notin {"embryo", "reaped"} /\ \A q \in Proc : q # p => loc'[q] = loc[q]
  BY <1>1, <1>2
<1> QED
  BY <1>1, <1>3, <1>4, <1>5, <1>7, <1>9, <1>10, TablesKeep

\* Whatever slot freeproc() frees next, it is not a local.
LEMMA FreeprocTables ==
  ASSUME ThreadInv, TablesInv, NEW p \in Proc, Freeproc(p)
  PROVE  TablesInv'
<1>1. pc[p] = "freeproc" /\ loc' = loc /\ pc' = pc /\ sz' = sz
  BY DEF Freeproc, At
<1>2. PICK c \in Proc : /\ c = loc[p].np /\ c # p /\ c # None
                        /\ pc[c] \in {"embryo", "reaped"} /\ loc[c] = NoLocals
                        /\ pa[c][Mem] = None /\ pa[c][Pa] = None
  BY <1>1, ItsChild DEF Building
<1>3. PICK s \in Slot : Kfree(p, c, s) /\ s # Mem /\ s # Pa
  BY <1>2, PageSlot, NotPage, SlotAssumption DEF Freeproc, FreeNext, Unmap
<1>4. /\ \A q \in Proc : q # c => pa'[q] = pa[q]
      /\ \A t \in Slot : t # s => pa'[c][t] = pa[c][t]
      /\ pa'[c][s] = None
  BY <1>3, KfreeTables DEF ThreadInv
<1>5. MapOK(p)' /\ SlotsOK(p)'
  BY <1>1, <1>2, <1>4 DEF TablesInv, MapOK, SlotsOK, MapsOnly, Mapped
<1>6. pc[c] = "embryo" => sz[c] = 0
  BY DEF TablesInv, SlotsOK
<1>7. MapOK(c)' /\ SlotsOK(c)'
  BY <1>1, <1>2, <1>3, <1>4, <1>6, ChildSlots, PageSlot
<1>8. \A v \in Page : Mapped(c, v) => v < sz[c]
  BY <1>1, <1>2 DEF TablesInv, ChildOK
<1>9. ChildOK(p)'
  BY <1>1, <1>2, <1>4, <1>8, PageSlot DEF ChildOK, Mapped, Building
<1> QED
  BY <1>1, <1>2, <1>4, <1>5, <1>7, <1>9, TablesKeep

\* freeproc() is done when the entry refers to no page at all.
LEMMA FreeprocDoneTables ==
  ASSUME ThreadInv, TablesInv, NEW p \in Proc, FreeprocDone(p)
  PROVE  TablesInv'
<1>1. pc[p] = "freeproc" /\ pa' = pa /\ loc' = [loc EXCEPT ![p] = NoLocals]
  BY DEF FreeprocDone, At
<1>2. PICK c \in Proc : /\ c = loc[p].np /\ c # p /\ c # None
                        /\ pc[c] \in {"embryo", "reaped"} /\ loc[c] = NoLocals
                        /\ pa[c][Mem] = None /\ pa[c][Pa] = None
  BY <1>1, ItsChild DEF Building
<1>3. /\ pc' = [pc EXCEPT ![p] = "user", ![c] = "unused"] /\ sz' = [sz EXCEPT ![c] = 0]
      /\ FreeNext(c) = {}
  BY <1>2 DEF FreeprocDone
<1>4. /\ pc'[p] = "user" /\ pc'[c] = "unused" /\ loc'[p] = NoLocals /\ loc'[c] = NoLocals
      /\ loc'[p].np = None
  BY <1>1, <1>2, <1>3, LocType, NoLocalsType DEF ThreadInv
<1>5. sz'[p] = sz[p] /\ sz'[c] = 0
  BY <1>2, <1>3 DEF ThreadInv, TypeOK
<1>6. MapOK(p)'
  BY <1>1, <1>4, <1>5, WholeKeep DEF TablesInv, Whole
<1>7. SlotsOK(p)' /\ ChildOK(p)'
  BY <1>1, <1>4, <1>5 DEF TablesInv, SlotsOK, ChildOK, HoldsMem, Idle
<1>8. \A s \in Slot : pa[c][s] = None
  <2> DEFINE user == {v \in Page : v < sz[c] /\ Mapped(c, v)}
             leaf == {s \in Leaf : pa[c][s] # None}
             inner == {s \in Root : pa[c][s] # None}
  <2>1. user = {}
    <3> SUFFICES ASSUME user # {} PROVE FALSE
      OBVIOUS
    <3>1. PICK v \in user : \A w \in user : v <= w
      BY LeastPage
    <3> QED
      BY <1>3, <3>1 DEF FreeNext
  <2>2. \A v \in Page : pa[c][v] = None
    BY <1>1, <1>2, <2>1 DEF TablesInv, ChildOK, Mapped
  <2>3. leaf = {} /\ inner = {}
    BY <1>3, <2>1 DEF FreeNext
  <2>4. pa[c][Trapframe] = None
    BY <1>3, <2>3 DEF FreeNext
  <2> QED
    BY <1>2, <2>2, <2>3, <2>4 DEF Slot
<1>9. MapOK(c)' /\ SlotsOK(c)'
  BY <1>1, <1>2, <1>4, <1>5, <1>8, PageSlot DEF MapOK, SlotsOK, Whole, HoldsMem
<1>10. \A q \in Proc : q # p => loc'[q] = loc[q]
  BY <1>1
<1>11. \A q \in Proc : q # p /\ q # c => pc'[q] = pc[q] /\ sz'[q] = sz[q]
  BY <1>3, LocType DEF ThreadInv, TypeOK
<1> QED
  BY <1>1, <1>2, <1>6, <1>7, <1>9, <1>10, <1>11, TablesKeep

-----------------------------------------------------------------------------
(* sbrk()                                                                  *)

LEMMA GrowTables ==
  ASSUME ThreadInv, TablesInv, NEW p \in Proc, NEW n \in 0 .. MaxPage, Grow(p, n)
  PROVE  TablesInv'
<1>1. /\ pc[p] = "user" /\ pc' = [pc EXCEPT ![p] = "uvmalloc"] /\ pa' = pa /\ sz' = sz
      /\ loc' = [loc EXCEPT ![p].cur = sz[p], ![p].lim = n] /\ n > sz[p]
  BY DEF Grow, InUser, At, Goto
<1>2. /\ pc'[p] = "uvmalloc" /\ loc'[p].cur = sz[p] /\ loc'[p].lim = n /\ loc'[p].np = loc[p].np
  BY <1>1, LocType DEF ThreadInv, Locals
<1>3. MapsOnly(p, 0 .. sz[p] - 1) /\ sz[p] \in Nat
  BY <1>1, SizeType DEF TablesInv, MapOK, Whole, ThreadInv
<1>4. sz[p] <= sz[p] /\ sz[p] <= n
  BY <1>1, <1>3
<1>5. MapsOnly(p, 0 .. sz[p] - 1)' /\ sz'[p] = sz[p]
  BY <1>1, <1>3 DEF MapsOnly, Mapped
<1>6. MapOK(p)'
  BY <1>2, <1>4, <1>5 DEF MapOK, MapsOnly, Mapped, Whole
<1>7. SlotsOK(p)'
  BY <1>1, <1>2 DEF TablesInv, SlotsOK, HoldsMem, Idle
<1> QED
  BY <1>1, <1>2, <1>6, <1>7, OwnKeep, LocType DEF ThreadInv, Building

LEMMA ShrinkTables ==
  ASSUME ThreadInv, TablesInv, NEW p \in Proc, NEW n \in 0 .. MaxPage, Shrink(p, n)
  PROVE  TablesInv'
<1>1. /\ pc[p] = "user" /\ pc' = [pc EXCEPT ![p] = "uvmdealloc"] /\ pa' = pa /\ sz' = sz
      /\ loc' = [loc EXCEPT ![p].cur = n, ![p].lim = sz[p], ![p].newsz = n] /\ n < sz[p]
  BY DEF Shrink, InUser, At, DeallocFrom, Goto
<1>2. /\ pc'[p] = "uvmdealloc" /\ loc'[p].cur = n /\ loc'[p].lim = sz[p] /\ loc'[p].newsz = n
      /\ loc'[p].np = loc[p].np
  BY <1>1, LocType DEF ThreadInv, Locals
<1>3. MapsOnly(p, 0 .. sz[p] - 1) /\ sz[p] \in Nat
  BY <1>1, SizeType DEF TablesInv, MapOK, Whole, ThreadInv
<1>4. (0 .. n - 1) \cup (n .. sz[p] - 1) = 0 .. sz[p] - 1 /\ n <= n /\ n <= sz[p]
  BY <1>1, <1>3
<1>5. MapOK(p)'
  <2>1. \A v \in Page : pa'[p][v] # None <=> v \in (0 .. n - 1) \cup (n .. sz[p] - 1)
    BY <1>1, <1>3, <1>4 DEF MapsOnly, Mapped
  <2> QED
    BY <1>2, <1>4, <2>1 DEF MapOK, MapsOnly, Mapped, Whole
<1>6. SlotsOK(p)'
  BY <1>1, <1>2 DEF TablesInv, SlotsOK, HoldsMem, Idle
<1> QED
  BY <1>1, <1>2, <1>5, <1>6, OwnKeep, LocType DEF ThreadInv, Building

LEMMA UvmallocTables ==
  ASSUME ThreadInv, TablesInv, NEW p \in Proc, Uvmalloc(p)
  PROVE  TablesInv'
<1>1. /\ pc[p] = "uvmalloc" /\ pc' = [pc EXCEPT ![p] = "uvmalloc_map"] /\ sz' = sz
      /\ loc' = loc /\ Kalloc(p, Mem, Zero) /\ loc[p].cur < loc[p].lim
  BY DEF Uvmalloc, At, Goto
<1>2. /\ \A q \in Proc : q # p => pa'[q] = pa[q]
      /\ \A t \in Slot : t # Mem => pa'[p][t] = pa[p][t]
      /\ \A w \in Page : pa'[p][w] = pa[p][w]
      /\ pa'[p][Mem] # None
  BY <1>1, KallocTables, PageSlot, NotPage, ValueAssumption DEF ThreadInv
<1>3. pc'[p] = "uvmalloc_map"
  BY <1>1, LocType DEF ThreadInv
<1>4. MapOK(p)'
  BY <1>1, <1>2, <1>3 DEF TablesInv, MapOK, MapsOnly, Mapped, Whole
<1>5. SlotsOK(p)'
  BY <1>1, <1>2, <1>3, PageSlot, SlotAssumption DEF TablesInv, SlotsOK, HoldsMem, Idle
<1> QED
  BY <1>1, <1>2, <1>3, <1>4, <1>5, OwnKeep, LocType DEF ThreadInv, Building

\* uvmalloc() takes back the pages from the old size on.
LEMMA GiveBack ==
  ASSUME ThreadInv, TablesInv, NEW p \in Proc, pc[p] \in {"uvmalloc", "uvmalloc_map"},
         DeallocFrom(p, sz[p], loc[p].cur), sz' = sz,
         \A v \in Page : pa'[p][v] = pa[p][v]
  PROVE  /\ MapOK(p)' /\ pc'[p] = "uvmdealloc" /\ loc'[p].np = loc[p].np
         /\ \A q \in Proc : q # p => pc'[q] = pc[q] /\ loc'[q] = loc[q]
<1> DEFINE cur == loc[p].cur
<1>1. /\ pc' = [pc EXCEPT ![p] = "uvmdealloc"]
      /\ loc' = [loc EXCEPT ![p].cur = sz[p], ![p].lim = cur, ![p].newsz = sz[p]]
  BY DEF DeallocFrom, Goto
<1>2. /\ pc'[p] = "uvmdealloc" /\ loc'[p].np = loc[p].np
      /\ loc'[p].cur = sz[p] /\ loc'[p].lim = cur /\ loc'[p].newsz = sz[p]
  BY <1>1, LocType DEF ThreadInv, Locals
<1>3. sz[p] <= cur /\ MapsOnly(p, 0 .. cur - 1) /\ sz[p] \in Nat /\ cur \in Nat
  <2>1. sz[p] <= cur /\ MapsOnly(p, 0 .. cur - 1)
    BY DEF TablesInv, MapOK
  <2>2. sz[p] \in Nat /\ cur \in Nat
    BY SizeType, LocFields, PageAssumption DEF ThreadInv
  <2> QED
    BY <2>1, <2>2
<1>4. (0 .. sz[p] - 1) \cup (sz[p] .. cur - 1) = 0 .. cur - 1
  BY <1>3
<1>5. MapOK(p)'
  BY <1>2, <1>3, <1>4 DEF MapOK, MapsOnly, Mapped, Whole
<1> QED
  BY <1>1, <1>2, <1>5, LocType DEF ThreadInv

LEMMA UvmallocNoMemTables ==
  ASSUME ThreadInv, TablesInv, NEW p \in Proc, UvmallocNoMem(p)
  PROVE  TablesInv'
<1>1. /\ pc[p] = "uvmalloc" /\ pa' = pa /\ sz' = sz /\ DeallocFrom(p, sz[p], loc[p].cur)
  BY DEF UvmallocNoMem, At
<1>2. /\ MapOK(p)' /\ pc'[p] = "uvmdealloc" /\ loc'[p].np = loc[p].np
      /\ \A q \in Proc : q # p => pc'[q] = pc[q] /\ loc'[q] = loc[q]
  BY <1>1, GiveBack
<1>3. SlotsOK(p)'
  BY <1>1, <1>2 DEF TablesInv, SlotsOK, HoldsMem, Idle
<1> QED
  BY <1>1, <1>2, <1>3, OwnKeep DEF Building

LEMMA UvmallocFailTables ==
  ASSUME ThreadInv, TablesInv, NEW p \in Proc, UvmallocFail(p)
  PROVE  TablesInv'
<1>1. /\ pc[p] = "uvmalloc_map" /\ sz' = sz /\ Kfree(p, p, Mem)
      /\ DeallocFrom(p, sz[p], loc[p].cur)
  BY DEF UvmallocFail, At
<1>2. /\ \A q \in Proc : q # p => pa'[q] = pa[q]
      /\ \A t \in Slot : t # Mem => pa'[p][t] = pa[p][t]
      /\ \A v \in Page : pa'[p][v] = pa[p][v]
      /\ pa'[p][Mem] = None
  BY <1>1, KfreeTables, PageSlot, NotPage DEF ThreadInv
<1>3. /\ MapOK(p)' /\ pc'[p] = "uvmdealloc" /\ loc'[p].np = loc[p].np
      /\ \A q \in Proc : q # p => pc'[q] = pc[q] /\ loc'[q] = loc[q]
  BY <1>1, <1>2, GiveBack
<1>4. SlotsOK(p)'
  BY <1>1, <1>2, <1>3, PageSlot, SlotAssumption DEF TablesInv, SlotsOK, HoldsMem, Idle
<1> QED
  BY <1>1, <1>2, <1>3, <1>4, OwnKeep DEF Building

LEMMA UvmallocWalkTables ==
  ASSUME ThreadInv, TablesInv, NEW p \in Proc, UvmallocWalk(p)
  PROVE  TablesInv'
<1>1. pc[p] = "uvmalloc_map" /\ pc' = pc /\ loc' = loc /\ sz' = sz
  BY DEF UvmallocWalk, At
<1>2. PICK s \in Slot \ Page : Kalloc(p, s, Zero) /\ s # Mem /\ s # Pa
  <2>1. loc[p].cur \in Page
    BY <1>1 DEF ThreadInv, LocalsOK, Paging
  <2> QED
    BY <2>1, PageSlot, NotPage, SlotAssumption DEF UvmallocWalk
<1>3. /\ \A q \in Proc : q # p => pa'[q] = pa[q]
      /\ \A t \in Slot : t # s => pa'[p][t] = pa[p][t]
      /\ \A w \in Page : pa'[p][w] = pa[p][w]
  BY <1>2, KallocTables, ValueAssumption DEF ThreadInv
<1>4. MapOK(p)'
  BY <1>1, <1>3 DEF TablesInv, MapOK, MapsOnly, Mapped, Whole
<1>5. SlotsOK(p)'
  BY <1>1, <1>2, <1>3, PageSlot DEF TablesInv, SlotsOK, HoldsMem, Idle
<1> QED
  BY <1>1, <1>3, <1>4, <1>5, OwnKeep DEF Building

LEMMA UvmallocMapTables ==
  ASSUME ThreadInv, TablesInv, NEW p \in Proc, UvmallocMap(p)
  PROVE  TablesInv'
<1>0. PICK v \in Page : v = loc[p].cur
  BY DEF UvmallocMap, At, ThreadInv, LocalsOK, Paging
<1>1. /\ pc[p] = "uvmalloc_map" /\ pc' = [pc EXCEPT ![p] = "uvmalloc"] /\ sz' = sz
      /\ loc' = [loc EXCEPT ![p].cur = v + 1]
      /\ pa' = [pa EXCEPT ![p][v] = pa[p][Mem], ![p][Mem] = None]
  BY <1>0 DEF UvmallocMap, At, Goto
<1>2. /\ \A q \in Proc : q # p => pa'[q] = pa[q]
      /\ \A t \in Slot : t # v /\ t # Mem => pa'[p][t] = pa[p][t]
      /\ pa'[p][v] = pa[p][Mem] /\ pa'[p][Mem] = None
  BY <1>1, PageSlot, NotPage DEF ThreadInv, TypeOK
<1>3. /\ pc'[p] = "uvmalloc" /\ loc'[p].cur = v + 1 /\ loc'[p].lim = loc[p].lim
      /\ loc'[p].np = loc[p].np
  BY <1>1, LocType DEF ThreadInv, Locals
<1>4. /\ sz[p] <= v /\ v < loc[p].lim /\ MapsOnly(p, 0 .. v - 1) /\ pa[p][Mem] # None
      /\ sz[p] \in Nat /\ v \in Nat /\ loc[p].lim \in Nat
  <2>1. sz[p] <= v /\ v < loc[p].lim /\ MapsOnly(p, 0 .. v - 1)
    BY <1>0, <1>1 DEF TablesInv, MapOK
  <2>2. pa[p][Mem] # None
    BY <1>1 DEF TablesInv, SlotsOK, HoldsMem
  <2>3. sz[p] \in Nat /\ v \in Nat /\ loc[p].lim \in Nat
    BY SizeType, LocFields, PageAssumption DEF ThreadInv, Page
  <2> QED
    BY <2>1, <2>2, <2>3
<1>5. \A w \in Page : pa'[p][w] # None <=> w \in 0 .. v
  <2> SUFFICES ASSUME NEW w \in Page PROVE pa'[p][w] # None <=> w \in 0 .. v
    OBVIOUS
  <2>1. CASE w = v
    BY <1>2, <1>4, <2>1
  <2>2. CASE w # v
    BY <1>2, <1>4, <2>2, PageSlot, NotPage DEF MapsOnly, Mapped, Page
  <2> QED
    BY <2>1, <2>2
<1>6. MapOK(p)'
  <2>1. PICK n \in Nat : n = v + 1
    BY <1>4
  <2>2. sz'[p] = sz[p] /\ sz[p] <= n /\ n <= loc[p].lim /\ 0 .. n - 1 = 0 .. v
    BY <1>1, <1>4, <2>1
  <2>3. \A w \in Page : pa'[p][w] # None <=> w \in 0 .. n - 1
    BY <1>5, <2>2
  <2>4. pc'[p] = "uvmalloc" /\ loc'[p].cur = n /\ loc'[p].lim = loc[p].lim
    BY <1>3, <2>1
  <2> QED
    BY <2>2, <2>3, <2>4 DEF MapOK, MapsOnly, Mapped, Whole
<1>7. SlotsOK(p)'
  BY <1>1, <1>2, <1>3, PageSlot, NotPage, SlotAssumption DEF TablesInv, SlotsOK, HoldsMem, Idle
<1> QED
  BY <1>1, <1>2, <1>3, <1>6, <1>7, OwnKeep, LocType DEF ThreadInv, Building

LEMMA GrowDoneTables ==
  ASSUME ThreadInv, TablesInv, NEW p \in Proc, GrowDone(p)
  PROVE  TablesInv'
<1>1. /\ pc[p] = "uvmalloc" /\ pa' = pa /\ loc[p].cur = loc[p].lim
      /\ sz' = [sz EXCEPT ![p] = loc[p].lim]
      /\ pc' = [pc EXCEPT ![p] = "user"] /\ loc' = [loc EXCEPT ![p] = NoLocals]
  BY DEF GrowDone, At, Return, Goto
<1>2. pc'[p] = "user" /\ loc'[p] = NoLocals /\ loc'[p].np = None /\ sz'[p] = loc[p].lim
  BY <1>1, LocType, NoLocalsType DEF ThreadInv, TypeOK
<1>3. MapsOnly(p, 0 .. loc[p].lim - 1)
  BY <1>1 DEF TablesInv, MapOK
<1>4. MapOK(p)'
  BY <1>1, <1>2, <1>3 DEF MapOK, MapsOnly, Mapped
<1>5. SlotsOK(p)'
  BY <1>1, <1>2 DEF TablesInv, SlotsOK, HoldsMem, Idle
<1> QED
  BY <1>1, <1>2, <1>4, <1>5, OwnKeep

LEMMA UvmdeallocTables ==
  ASSUME ThreadInv, TablesInv, NEW p \in Proc, Uvmdealloc(p)
  PROVE  TablesInv'
<1>1. pc[p] = "uvmdealloc"
  BY DEF Uvmdealloc, At
<1>2. PICK v \in 0 .. MaxPage, lim \in 0 .. MaxPage, new \in 0 .. MaxPage :
        v = loc[p].cur /\ lim = loc[p].lim /\ new = loc[p].newsz
  BY LocFields DEF ThreadInv
<1>3. new <= v /\ v <= lim /\ MapsOnly(p, (0 .. new - 1) \cup (v .. lim - 1)) /\ MaxPage \in Nat
  BY <1>1, <1>2, PageAssumption DEF TablesInv, MapOK
<1>4. CASE v < lim
  <2>1. Kfree(p, p, v) /\ loc' = [loc EXCEPT ![p].cur = v + 1] /\ pc' = pc /\ sz' = sz
    BY <1>2, <1>4 DEF Uvmdealloc, Unmap
  <2>2. v \in Page /\ v + 1 <= lim
    BY <1>3, <1>4 DEF Page
  <2>3. /\ \A q \in Proc : q # p => pa'[q] = pa[q]
        /\ \A t \in Slot : t # v => pa'[p][t] = pa[p][t]
        /\ pa'[p][v] = None
    BY <2>1, <2>2, KfreeTables, PageSlot DEF ThreadInv
  <2>4. /\ loc'[p].cur = v + 1 /\ loc'[p].lim = lim /\ loc'[p].newsz = new
        /\ loc'[p].np = loc[p].np
    BY <1>2, <2>1, LocType DEF ThreadInv, Locals
  <2>5. \A w \in Page : pa'[p][w] # None <=> w \in (0 .. new - 1) \cup (v + 1 .. lim - 1)
    <3> SUFFICES ASSUME NEW w \in Page
                 PROVE  pa'[p][w] # None <=> w \in (0 .. new - 1) \cup (v + 1 .. lim - 1)
      OBVIOUS
    <3>1. CASE w = v
      BY <1>3, <2>3, <3>1 DEF Page
    <3>2. CASE w # v
      BY <1>3, <2>3, <3>2, PageSlot DEF MapsOnly, Mapped, Page
    <3> QED
      BY <3>1, <3>2
  <2>6. MapOK(p)'
    BY <1>1, <1>3, <2>1, <2>2, <2>4, <2>5 DEF MapOK, MapsOnly, Mapped, Whole
  <2>7. SlotsOK(p)'
    BY <1>1, <2>1, <2>2, <2>3, PageSlot, NotPage DEF TablesInv, SlotsOK, HoldsMem, Idle
  <2> QED
    BY <1>1, <2>1, <2>3, <2>4, <2>6, <2>7, OwnKeep DEF Building
<1>5. CASE ~(v < lim)
  <2>1. /\ sz' = [sz EXCEPT ![p] = new] /\ pa' = pa
        /\ pc' = [pc EXCEPT ![p] = "user"] /\ loc' = [loc EXCEPT ![p] = NoLocals]
    BY <1>2, <1>5 DEF Uvmdealloc, Return, Goto
  <2>2. pc'[p] = "user" /\ loc'[p] = NoLocals /\ loc'[p].np = None /\ sz'[p] = new
    BY <2>1, LocType, NoLocalsType DEF ThreadInv, TypeOK
  <2>3. MapsOnly(p, 0 .. new - 1)
    BY <1>3, <1>5 DEF MapsOnly
  <2>4. MapOK(p)'
    BY <2>1, <2>2, <2>3 DEF MapOK, MapsOnly, Mapped
  <2>5. SlotsOK(p)'
    BY <1>1, <2>1, <2>2 DEF TablesInv, SlotsOK, HoldsMem, Idle
  <2> QED
    BY <1>1, <2>1, <2>2, <2>4, <2>5, OwnKeep
<1> QED
  BY <1>4, <1>5

-----------------------------------------------------------------------------
(* The invariant                                                           *)

LEMMA InitTables == Init => TablesInv
<1> SUFFICES ASSUME Init, NEW p \in Proc PROVE MapOK(p) /\ SlotsOK(p) /\ ChildOK(p)
  BY DEF TablesInv
<1>1. loc[p] = NoLocals /\ loc[p].np = None
  BY NoLocalsType DEF Init
<1>2. ChildOK(p)
  BY <1>1 DEF ChildOK
<1>3. CASE p = InitProc
  <2>1. pc[p] = "user" /\ pa[p] = InitPa /\ sz[p] = InitSz
    BY <1>3 DEF Init
  <2>2. 0 .. InitSz - 1 \subseteq Page
    BY PageAssumption DEF Page
  <2>3. \A v \in Page : InitPa[v] # None <=> v \in 0 .. InitSz - 1
    <3>1. \A v \in Page : v \notin Root \cup {Trapframe} /\ \A w \in 0 .. InitSz - 1 : v # LeafOf[w]
      BY <2>2, NotPage, SlotAssumption
    <3> QED
      BY <3>1, PageSlot, InitAssumption
  <2>4. \A s \in {Mem, Pa} : InitPa[s] = None
    <3>1. \A s \in {Mem, Pa} :
            /\ s \notin 0 .. InitSz - 1 /\ s \notin Root \cup {Trapframe}
            /\ \A w \in 0 .. InitSz - 1 : s # LeafOf[w]
      BY <2>2, NotPage, SlotAssumption
    <3> QED
      BY <3>1, PageSlot, InitAssumption
  <2>5. MapOK(p)
    BY <2>1, <2>3 DEF MapOK, MapsOnly, Mapped
  <2>6. SlotsOK(p)
    BY <1>1, <2>1, <2>4 DEF SlotsOK, HoldsMem
  <2> QED
    BY <1>2, <2>5, <2>6
<1>4. CASE p # InitProc
  <2>1. pc[p] = "unused" /\ sz[p] = 0 /\ \A s \in Slot : pa[p][s] = None
    BY <1>4 DEF Init
  <2>2. MapOK(p) /\ SlotsOK(p)
    BY <1>1, <2>1, PageSlot DEF MapOK, SlotsOK, Whole, HoldsMem
  <2> QED
    BY <1>2, <2>2
<1> QED
  BY <1>3, <1>4

LEMMA NextTables == ThreadInv /\ TablesInv /\ [Next]_vars => TablesInv'
<1> SUFFICES ASSUME ThreadInv, TablesInv, [Next]_vars PROVE TablesInv'
  OBVIOUS
<1>1. CASE UNCHANGED vars
  BY <1>1, TablesSame DEF vars
<1>2. ASSUME NEW p \in Proc, KfreePush(p)
      PROVE  TablesInv'
  BY <1>2, TablesSame DEF KfreePush
<1>3. ASSUME NEW p \in Proc, Fault(p)
      PROVE  TablesInv'
  <2>1. ASSUME NEW v \in Page, NEW x \in Value, Store(p, v, x) \/ StoreKill(p, v)
        PROVE  TablesInv'
    BY <2>1, TablesSame DEF Store, StoreKill
  <2> QED
    BY <1>3, <2>1, ValueAssumption, StoreFaultTables, CopyoutTables, CopyoutPageTables,
       CopyoutFailTables, CowCopyTables, CowKfreeTables, CowMapTables, CopyoutWriteTables
       DEF Fault
<1>4. ASSUME NEW p \in Proc, ForkStep(p)
      PROVE  TablesInv'
  BY <1>4, ForkTables, AllocprocTables, AllocprocFailTables, AllocprocDoneTables,
     UvmcopyRefTables, UvmcopyWalkTables, UvmcopyMapTables, UvmcopyFailTables,
     UvmcopyErrTables, ForkDoneTables DEF ForkStep
<1>5. ASSUME NEW p \in Proc, ExitStep(p)
      PROVE  TablesInv'
  BY <1>5, ExitTables, InitPanicTables, WaitTables, FreeprocTables, FreeprocDoneTables
     DEF ExitStep
<1>6. ASSUME NEW p \in Proc, SbrkStep(p)
      PROVE  TablesInv'
  BY <1>6, GrowTables, ShrinkTables, UvmallocTables, UvmallocNoMemTables, UvmallocWalkTables,
     UvmallocMapTables, UvmallocFailTables, GrowDoneTables, UvmdeallocTables DEF SbrkStep
<1> QED
  BY <1>1, <1>2, <1>3, <1>4, <1>5, <1>6 DEF Next

LEMMA AlwaysTables == Spec => []TablesInv
<1>1. Init => TablesInv
  BY InitTables
<1>2. ThreadInv /\ TablesInv /\ [Next]_vars => TablesInv'
  BY NextTables
<1> QED
  BY <1>1, <1>2, AlwaysThread, PTL DEF Spec

\* At every step of every system call the page table maps what the loops over it expect, so
\* the panics of vm.c on page tables are out of reach, whichever kalloc() fails, and an
\* unused entry of the process table holds no page.
THEOREM TablesMapped == Spec => []MappedExactly
<1>1. ThreadInv /\ TablesInv => MappedExactly
  <2>1. ASSUME ThreadInv, TablesInv, NEW p \in Proc,
               pc[p] \in {"uvmcopy", "uvmcopy_map", "uvmcopy_err"}
        PROVE  loc[p].np # None
    BY <2>1 DEF ThreadInv, OwnerOK, Building
  <2> QED
    BY <2>1 DEF TablesInv, MapOK, SlotsOK, ChildOK, Whole, MappedExactly
<1> QED
  BY <1>1, AlwaysThread, AlwaysTables, PTL

-----------------------------------------------------------------------------
(* The kernel without the steps of the memory findings                      *)

\* What a slot shows to whoever reads through it: the contents of its page.
contents == [p \in Proc |-> [s \in Slot |-> IF pa[p][s] = None THEN None ELSE mem[pa[p][s]]]]

\* Labels of entries that run no program.
Off == {"unused", "embryo", "zombie", "reaped", "panic"}

\* What is in the pages of a thread and in those of its child, by the time it gets there.
ContentOK(p) ==
  LET cur == loc[p].cur
      c == loc[p].np
  IN  /\ pc[p] = "copyout_write" => Mapped(p, cur) /\ "PTE_W" \in flags[p][cur]
      /\ pc[p] = "cow_kfree" => contents[p][Mem] = contents[p][cur]
      /\ pc[p] \in {"uvmalloc", "uvmalloc_map"} =>
           \A v \in Page : sz[p] <= v /\ v < cur => contents[p][v] = Zero
      /\ pc[p] = "uvmalloc_map" => contents[p][Mem] = Zero
      /\ pc[p] \in {"uvmcopy", "uvmcopy_map"} =>
           \A v \in Page : v < cur => contents[c][v] = contents[p][v]

ContentInv == \A p \in Proc : ContentOK(p)

\* The invariants that hold of every step of the code, and the one of contents.
Known == ThreadInv /\ TablesInv /\ FrameInv
SoundInv == Known /\ ContentInv

\* The slot in which a program sees page v, and what it sees.
Source(p, v) == IF pc[p] = "cow_map" /\ v = loc[p].cur THEN Mem ELSE v
Seen(p, v) == IF p \in Running /\ v < VisibleSize(p) THEN contents[p][Source(p, v)] ELSE None
Quiet == Running' = Running /\ \A q \in Proc, v \in Page : Seen(q, v)' = Seen(q, v)

-----------------------------------------------------------------------------
(* Contents of the slots                                                   *)

\* The step puts x in slot s of q, and changes no other slot; or it changes none.
Fills(q, s, x) ==
  \A r \in Proc, t \in Slot : contents'[r][t] = IF r = q /\ t = s THEN x ELSE contents[r][t]
SameContents == \A r \in Proc, t \in Slot : contents'[r][t] = contents[r][t]

LEMMA Contents ==
  ASSUME TypeOK, NEW p \in Proc, NEW s \in Slot
  PROVE  /\ contents[p][s] = IF pa[p][s] = None THEN None ELSE mem[pa[p][s]]
         /\ contents[p][s] = None <=> pa[p][s] = None
<1>1. contents[p][s] = IF pa[p][s] = None THEN None ELSE mem[pa[p][s]]
  BY DEF contents
<1>2. pa[p][s] # None => mem[pa[p][s]] \in Value \cup {Junk}
  BY DEF TypeOK
<1> QED
  BY <1>1, <1>2, ValueAssumption

LEMMA ContentsAfter ==
  ASSUME NEW p \in Proc, NEW s \in Slot
  PROVE  contents'[p][s] = IF pa'[p][s] = None THEN None ELSE mem'[pa'[p][s]]
  BY DEF contents

LEMMA KeepsAll ==
  ASSUME UNCHANGED <<pa, mem>>
  PROVE  SameContents
  BY DEF SameContents, contents

LEMMA PushKeeps ==
  ASSUME Known, NEW p \in Proc, KfreePush(p)
  PROVE  SameContents
<1>1. pa' = pa /\ limbo[p] # None /\ mem' = [mem EXCEPT ![limbo[p]] = Junk]
  BY DEF KfreePush
<1>2. \A r \in Proc, t \in Slot : pa[r][t] # limbo[p]
  BY <1>1 DEF Known, FrameInv, NoUseAfterFree
<1>3. mem \in [Frame -> Value \cup {Junk}] /\ pa \in [Proc -> [Slot -> Frame \cup {None}]]
  BY DEF Known, ThreadInv, TypeOK
<1> QED
  BY <1>1, <1>2, <1>3, ContentsAfter DEF SameContents, contents

\* kalloc() pops a page that no slot refers to.
LEMMA KallocFills ==
  ASSUME Known, NEW q \in Proc, NEW s \in Slot, NEW x \in Value \cup {Junk}, Kalloc(q, s, x)
  PROVE  Fills(q, s, x)
<1>1. PICK f \in Heads(freelist) : /\ mem' = [mem EXCEPT ![f] = x]
                                   /\ pa' = [pa EXCEPT ![q][s] = f]
  BY DEF Kalloc
<1>2. /\ freelist \in SUBSET Frame /\ mem \in [Frame -> Value \cup {Junk}]
      /\ pa \in [Proc -> [Slot -> Frame \cup {None}]]
  BY DEF Known, ThreadInv, TypeOK
<1>3. f \in Frame /\ f \in freelist /\ f # None
  BY <1>2, HeadsAssumption, FrameAssumption
<1>4. \A r \in Proc, t \in Slot : pa[r][t] # f
  BY <1>3 DEF Known, FrameInv, NoUseAfterFree
<1>5. SUFFICES ASSUME NEW r \in Proc, NEW t \in Slot
               PROVE  contents'[r][t] = IF r = q /\ t = s THEN x ELSE contents[r][t]
  BY DEF Fills
<1>6. pa'[r][t] = IF r = q /\ t = s THEN f ELSE pa[r][t]
  BY <1>1, <1>2
<1>7. contents[r][t] = IF pa[r][t] = None THEN None ELSE mem[pa[r][t]]
  BY DEF contents
<1>8. \A g \in Frame : mem'[g] = IF g = f THEN x ELSE mem[g]
  BY <1>1, <1>2
<1>9. pa[r][t] \in Frame \cup {None}
  BY <1>2
<1> QED
  BY <1>3, <1>4, <1>6, <1>7, <1>8, <1>9, ContentsAfter

LEMMA KfreeEmpties ==
  ASSUME Known, NEW p \in Proc, NEW q \in Proc, NEW s \in Slot, Kfree(p, q, s)
  PROVE  Fills(q, s, None)
<1>1. mem' = mem /\ pa' = [pa EXCEPT ![q][s] = None]
  BY DEF Kfree
<1>2. pa \in [Proc -> [Slot -> Frame \cup {None}]]
  BY DEF Known, ThreadInv, TypeOK
<1>3. \A r \in Proc, t \in Slot : pa'[r][t] = IF r = q /\ t = s THEN None ELSE pa[r][t]
  BY <1>1, <1>2
<1> QED
  BY <1>1, <1>3, ContentsAfter DEF Fills, contents

\* The local `mem' and a writable page share their page with no other slot.
LEMMA WriteFills ==
  ASSUME Known, NEW p \in Proc, NEW s \in Slot, NEW x \in Value \cup {Junk},
         pa[p][s] # None,
         s = Mem \/ (s \in Page /\ "PTE_W" \in flags[p][s]),
         pa' = pa, mem' = [mem EXCEPT ![pa[p][s]] = x]
  PROVE  Fills(p, s, x)
<1>1. /\ mem \in [Frame -> Value \cup {Junk}] /\ pa \in [Proc -> [Slot -> Frame \cup {None}]]
  BY DEF Known, ThreadInv, TypeOK
<1>2. SUFFICES ASSUME NEW r \in Proc, NEW t \in Slot
               PROVE  contents'[r][t] = IF r = p /\ t = s THEN x ELSE contents[r][t]
  BY DEF Fills
<1>3. CASE r = p /\ t = s
  BY <1>1, <1>3, ContentsAfter
<1>4. CASE ~(r = p /\ t = s)
  <2>1. <<p, s>> # <<r, t>>
    BY <1>4
  <2>2. Mem \notin Page \cup {Pa}
    BY SlotAssumption
  <2>3. pa[r][t] # pa[p][s]
    BY <2>1, <2>2 DEF Known, FrameInv, SharedReadOnly
  <2>4. pa[r][t] # None => mem'[pa[r][t]] = mem[pa[r][t]]
    BY <1>1, <2>3
  <2> QED
    BY <1>4, <2>4, ContentsAfter DEF contents
<1> QED
  BY <1>3, <1>4

-----------------------------------------------------------------------------
(* A step of p leaves the other threads alone, and what they see           *)

\* The others keep what is theirs, but for the child in the hands of p, and for an entry
\* that p takes: none of these runs, unless fork() has just finished it.
Alone(p) ==
  /\ pc[p] \notin Off
  /\ \A q \in Proc : q # p => loc'[q] = loc[q]
  /\ \A q \in Proc : q # p =>
       \/ /\ pc'[q] = pc[q] /\ sz'[q] = sz[q] /\ flags'[q] = flags[q]
          /\ \A s \in Slot : contents'[q][s] = contents[q][s]
       \/ q = loc[p].np /\ pc'[q] \in Off \cup {"user"}
       \/ pc[q] \in Off /\ pc'[q] \in Off /\ \A s \in Slot : contents'[q][s] = contents[q][s]

LEMMA OthersContent ==
  ASSUME SoundInv, NEW p \in Proc, Alone(p), ContentOK(p)'
  PROVE  ContentInv'
<1> SUFFICES ASSUME NEW q \in Proc, q # p PROVE ContentOK(q)'
  BY DEF ContentInv
<1>1. CASE pc'[q] \in Off \cup {"user"}
  BY <1>1 DEF ContentOK, Off
<1>2. CASE /\ pc'[q] = pc[q] /\ sz'[q] = sz[q] /\ flags'[q] = flags[q]
           /\ \A s \in Slot : contents'[q][s] = contents[q][s]
  <2>1. loc'[q] = loc[q] /\ ContentOK(q) /\ Page \subseteq Slot /\ Mem \in Slot
    BY PageSlot DEF Alone, SoundInv, ContentInv
  <2>2. pc[q] = "copyout_write" => loc[q].cur \in Page
    BY DEF SoundInv, Known, ThreadInv, LocalsOK, Paging
  <2>3. pc[q] = "cow_kfree" => loc[q].cur \in Page
    BY DEF SoundInv, Known, ThreadInv, LocalsOK, Paging
  <2>4. Mapped(q, loc[q].cur) /\ pc[q] = "copyout_write" => Mapped(q, loc[q].cur)'
    <3> SUFFICES ASSUME pc[q] = "copyout_write", Mapped(q, loc[q].cur) PROVE Mapped(q, loc[q].cur)'
      OBVIOUS
    <3>1. contents[q][loc[q].cur] # None
      BY <2>1, <2>2, Contents DEF SoundInv, Known, ThreadInv, Mapped
    <3>2. contents'[q][loc[q].cur] # None
      BY <1>2, <2>1, <2>2, <3>1
    <3> QED
      BY <2>1, <2>2, <3>2, ContentsAfter DEF Mapped
  <2>5. pc[q] \in {"uvmcopy", "uvmcopy_map"} =>
          \A v \in Page : contents'[loc[q].np][v] = contents[loc[q].np][v]
    <3> SUFFICES ASSUME pc[q] \in {"uvmcopy", "uvmcopy_map"}
                 PROVE  \A v \in Page : contents'[loc[q].np][v] = contents[loc[q].np][v]
      OBVIOUS
    <3>1. /\ loc[q].np \in Proc /\ pc[loc[q].np] \in {"embryo", "reaped"} /\ loc[q].np # None
      BY Child DEF SoundInv, Known, ThreadInv, OwnerOK, Building
    <3>2. loc[q].np # p /\ loc[q].np # loc[p].np
      BY <3>1 DEF Alone, Off, SoundInv, Known, ThreadInv, OwnerOK
    <3> QED
      BY <2>1, <3>1, <3>2 DEF Alone
  <2> QED
    BY <1>2, <2>1, <2>2, <2>3, <2>4, <2>5 DEF ContentOK
<1> QED
  BY <1>1, <1>2 DEF Alone

LEMMA OthersSee ==
  ASSUME SoundInv, NEW p \in Proc, Alone(p), NEW q \in Proc, q # p,
         pc'[q] = pc[q] \/ pc'[q] \in Off
  PROVE  /\ q \in Running' <=> q \in Running
         /\ \A v \in Page : Seen(q, v)' = Seen(q, v)
<1>1. \A r \in Proc : /\ r \in Running <=> pc[r] \notin Off
                      /\ r \in Running' <=> pc'[r] \notin Off
  BY DEF Running, Off
<1>2. CASE pc[q] \in Off /\ pc'[q] \in Off
  BY <1>1, <1>2 DEF Seen
<1>3. CASE /\ pc'[q] = pc[q] /\ sz'[q] = sz[q] /\ flags'[q] = flags[q]
           /\ \A s \in Slot : contents'[q][s] = contents[q][s]
  <2>1. loc'[q] = loc[q] /\ Page \subseteq Slot /\ Mem \in Slot
    BY PageSlot DEF Alone
  <2>2. VisibleSize(q)' = VisibleSize(q) /\ \A v \in Page : Source(q, v)' = Source(q, v)
                                                           /\ Source(q, v) \in Slot
    BY <1>3, <2>1 DEF VisibleSize, Source
  <2> QED
    BY <1>1, <1>3, <2>1, <2>2 DEF Seen
<1>4. q = loc[p].np => pc[q] \in Off
  BY ProcAssumption DEF SoundInv, Known, ThreadInv, OwnerOK, Off
<1> QED
  BY <1>2, <1>3, <1>4 DEF Alone

LEMMA QuietStep ==
  ASSUME SoundInv, NEW p \in Proc, Alone(p), ContentOK(p)', pc'[p] \notin Off,
         \A q \in Proc : q # p => pc'[q] = pc[q] \/ pc'[q] \in Off,
         \A v \in Page : Seen(p, v)' = Seen(p, v)
  PROVE  ContentInv' /\ Quiet
<1>1. \A q \in Proc : /\ q \in Running' <=> q \in Running
                      /\ \A v \in Page : Seen(q, v)' = Seen(q, v)
  BY OthersSee DEF Alone, Running, Off
<1>2. Running' = Running
  BY <1>1 DEF Running
<1> QED
  BY <1>1, <1>2, OthersContent DEF Quiet

\* Labels at which a program sees its own pages up to p->sz.
Plain == {"user", "cow_copy", "cow_kfree", "copyout", "copyout_write", "allocproc", "uvmcopy",
          "uvmcopy_map", "uvmcopy_err", "freeproc", "uvmalloc", "uvmalloc_map"}

LEMMA PlainSeen ==
  ASSUME NEW p \in Proc, pc[p] \in Plain
  PROVE  \A v \in Page : Seen(p, v) = IF v < sz[p] THEN contents[p][v] ELSE None
  BY DEF Seen, Plain, Running, VisibleSize, Source

LEMMA PlainSeenAfter ==
  ASSUME NEW p \in Proc, pc'[p] \in Plain
  PROVE  \A v \in Page : Seen(p, v)' = IF v < sz'[p] THEN contents'[p][v] ELSE None
  BY DEF Seen, Plain, Running, VisibleSize, Source

LEMMA PlainStep ==
  ASSUME SoundInv, NEW p \in Proc, Alone(p), ContentOK(p)',
         pc[p] \in Plain, pc'[p] \in Plain, sz'[p] = sz[p],
         \A q \in Proc : q # p => pc'[q] = pc[q] \/ pc'[q] \in Off,
         \A v \in Page : v < sz[p] => contents'[p][v] = contents[p][v]
  PROVE  ContentInv' /\ Quiet
<1>1. pc'[p] \notin Off
  BY DEF Plain, Off
<1>2. \A v \in Page : Seen(p, v)' = Seen(p, v)
  BY PlainSeen, PlainSeenAfter
<1> QED
  BY <1>1, <1>2, QuietStep

\* A step that changes nothing but what the threads do not read: counts, lists, killed.
LEMMA SameStep ==
  ASSUME SoundInv, SameContents, UNCHANGED <<pa, pc, loc, sz, flags>>
  PROVE  ContentInv' /\ Quiet
<1>1. contents' = contents
  <2>1. contents' = [p \in Proc |-> [s \in Slot |-> contents'[p][s]]]
    BY DEF contents
  <2>2. contents = [p \in Proc |-> [s \in Slot |-> contents[p][s]]]
    BY DEF contents
  <2> QED
    BY <2>1, <2>2 DEF SameContents
<1>2. ContentInv'
  BY <1>1 DEF SoundInv, ContentInv, ContentOK, Mapped
<1>3. Running' = Running /\ \A q \in Proc, v \in Page : Seen(q, v)' = Seen(q, v)
  BY <1>1 DEF Running, Seen, VisibleSize, Source
<1> QED
  BY <1>2, <1>3 DEF Quiet

\* A step of p on its own pages.
LEMMA OwnAlone ==
  ASSUME NEW p \in Proc, pc[p] \notin Off,
         \A q \in Proc : q # p => /\ pc'[q] = pc[q] /\ loc'[q] = loc[q] /\ sz'[q] = sz[q]
                                  /\ flags'[q] = flags[q]
                                  /\ \A s \in Slot : contents'[q][s] = contents[q][s]
  PROVE  Alone(p)
  BY DEF Alone

-----------------------------------------------------------------------------
(* Faults and copyout()                                                    *)

LEMMA StoreFaultSound ==
  ASSUME SoundInv, NEW p \in Proc, NEW v \in Page, StoreFault(p, v)
  PROVE  ContentInv' /\ Quiet
<1>1. /\ pc[p] = "user" /\ pc' = [pc EXCEPT ![p] = "cow_copy"]
      /\ loc' = [loc EXCEPT ![p].cur = v] /\ sz' = sz /\ flags' = flags
      /\ Kalloc(p, Mem, Junk)
  BY DEF StoreFault, InUser, At, Goto
<1>2. Fills(p, Mem, Junk)
  BY <1>1, PageSlot, KallocFills DEF SoundInv
<1>3. /\ pc'[p] = "cow_copy"
      /\ \A q \in Proc : q # p => pc'[q] = pc[q] /\ loc'[q] = loc[q]
  BY <1>1, LocType DEF SoundInv, Known, ThreadInv
<1>4. Alone(p)
  BY <1>1, <1>2, <1>3, OwnAlone DEF Fills, Off
<1>5. ContentOK(p)'
  BY <1>3 DEF ContentOK
<1>6. \A w \in Page : contents'[p][w] = contents[p][w]
  BY <1>2, PageSlot, NotPage DEF Fills
<1> QED
  BY <1>1, <1>3, <1>4, <1>5, <1>6, PlainStep DEF Plain

LEMMA CopyoutSound ==
  ASSUME SoundInv, NEW p \in Proc, NEW v \in Page, NEW x \in Value, Copyout(p, v, x)
  PROVE  ContentInv' /\ Quiet
<1>1. /\ pc[p] = "user" /\ pc' = [pc EXCEPT ![p] = "copyout"]
      /\ loc' = [loc EXCEPT ![p].cur = v, ![p].val = x] /\ sz' = sz /\ flags' = flags
      /\ UNCHANGED <<pa, mem>>
  BY DEF Copyout, InUser, At, Goto, memory
<1>2. SameContents
  BY <1>1, KeepsAll
<1>3. /\ pc'[p] = "copyout"
      /\ \A q \in Proc : q # p => pc'[q] = pc[q] /\ loc'[q] = loc[q]
  BY <1>1, LocType DEF SoundInv, Known, ThreadInv
<1>4. Alone(p)
  BY <1>1, <1>2, <1>3, OwnAlone DEF SameContents, Off
<1>5. ContentOK(p)'
  BY <1>3 DEF ContentOK
<1>6. \A w \in Page : contents'[p][w] = contents[p][w]
  BY <1>2, PageSlot DEF SameContents
<1> QED
  BY <1>1, <1>3, <1>4, <1>5, <1>6, PlainStep DEF Plain

\* Without StoresShared copyout() goes on to a page that it may write.
LEMMA CopyoutPageSound ==
  ASSUME SoundInv, NEW p \in Proc, CopyoutPage(p), ~StoresShared(p)
  PROVE  ContentInv' /\ Quiet
<1> DEFINE v == loc[p].cur
<1>1. /\ pc[p] = "copyout" /\ loc' = loc /\ sz' = sz /\ flags' = flags
      /\ Mapped(p, v) /\ "PTE_U" \in flags[p][v] /\ v \in Page
  BY DEF CopyoutPage, At, SoundInv, Known, ThreadInv, LocalsOK, Paging
<1>2. CASE Kalloc(p, Mem, Junk) /\ pc' = [pc EXCEPT ![p] = "cow_copy"]
  <2>1. Fills(p, Mem, Junk)
    BY <1>2, PageSlot, KallocFills DEF SoundInv
  <2>2. pc'[p] = "cow_copy" /\ \A q \in Proc : q # p => pc'[q] = pc[q]
    BY <1>2, LocType DEF SoundInv, Known, ThreadInv
  <2>3. Alone(p)
    BY <1>1, <2>1, <2>2, OwnAlone DEF Fills, Off
  <2>4. ContentOK(p)'
    BY <2>2 DEF ContentOK
  <2>5. \A w \in Page : contents'[p][w] = contents[p][w]
    BY <2>1, PageSlot, NotPage DEF Fills
  <2> QED
    BY <1>1, <2>2, <2>3, <2>4, <2>5, PlainStep DEF Plain
<1>3. CASE /\ pc' = [pc EXCEPT ![p] = "copyout_write"] /\ UNCHANGED <<memory, pa>>
           /\ ~(checkcowpage(p, v) /\ ~OutOfMemory)
  <2>1. SameContents
    BY <1>3, KeepsAll DEF memory
  <2>2. pc'[p] = "copyout_write" /\ \A q \in Proc : q # p => pc'[q] = pc[q]
    BY <1>3, LocType DEF SoundInv, Known, ThreadInv
  <2>3. Alone(p)
    BY <1>1, <2>1, <2>2, OwnAlone DEF SameContents, Off
  <2>4. v < sz[p]
    <3>1. MapsOnly(p, 0 .. sz[p] - 1)
      BY <1>1 DEF SoundInv, Known, TablesInv, MapOK, Whole
    <3> QED
      BY <1>1, <3>1, SizeType DEF MapsOnly, SoundInv, Known, ThreadInv
  <2>5. Writable(p, v)
    BY <1>1, <1>3, <2>2, <2>4 DEF StoresShared, checkcowpage
  <2>6. Mapped(p, v)' /\ "PTE_W" \in flags'[p][v]
    BY <1>1, <1>3, <2>5 DEF Writable, Mapped
  <2>7. ContentOK(p)'
    BY <1>1, <2>2, <2>6 DEF ContentOK
  <2>8. \A w \in Page : contents'[p][w] = contents[p][w]
    BY <2>1, PageSlot DEF SameContents
  <2> QED
    BY <1>1, <2>2, <2>3, <2>7, <2>8, PlainStep DEF Plain
<1> QED
  BY <1>2, <1>3 DEF CopyoutPage, Goto

LEMMA CopyoutFailSound ==
  ASSUME SoundInv, NEW p \in Proc, CopyoutFail(p)
  PROVE  ContentInv' /\ Quiet
<1>1. /\ pc[p] = "copyout"
      /\ pc' = [q \in Proc |-> IF q = p THEN "user"
                               ELSE IF q = loc[p].np THEN "zombie" ELSE pc[q]]
      /\ loc' = [loc EXCEPT ![p] = NoLocals] /\ sz' = sz /\ flags' = flags
      /\ UNCHANGED <<pa, mem>>
  BY DEF CopyoutFail, At, memory
<1>2. SameContents
  BY <1>1, KeepsAll
<1>3. /\ pc'[p] = "user"
      /\ \A q \in Proc : q # p => loc'[q] = loc[q]
      /\ \A q \in Proc : q # p => pc'[q] = pc[q] \/ (q = loc[p].np /\ pc'[q] \in Off)
  BY <1>1, LocType DEF SoundInv, Known, ThreadInv, Off
<1>4. Alone(p)
  BY <1>1, <1>2, <1>3 DEF Alone, SameContents, Off
<1>5. ContentOK(p)'
  BY <1>3 DEF ContentOK
<1>6. \A w \in Page : contents'[p][w] = contents[p][w]
  BY <1>2, PageSlot DEF SameContents
<1> QED
  BY <1>1, <1>3, <1>4, <1>5, <1>6, PlainStep DEF Plain

LEMMA CowCopySound ==
  ASSUME SoundInv, NEW p \in Proc, CowCopy(p)
  PROVE  ContentInv' /\ Quiet
<1>1. /\ pc[p] = "cow_copy" /\ pc' = [pc EXCEPT ![p] = "cow_kfree"]
      /\ loc' = loc /\ sz' = sz /\ flags' = flags /\ pa' = pa
      /\ mem' = [mem EXCEPT ![pa[p][Mem]] = mem[pa[p][loc[p].cur]]]
  BY DEF CowCopy, At, Goto
<1>2. loc[p].cur \in Page /\ pa[p][loc[p].cur] # None /\ pa[p][Mem] # None
  BY <1>1 DEF SoundInv, Known, ThreadInv, LocalsOK, Paging, TablesInv, SlotsOK, HoldsMem
<1>3. contents[p][loc[p].cur] = mem[pa[p][loc[p].cur]]
  BY <1>2, PageSlot DEF contents
<1>4. Fills(p, Mem, contents[p][loc[p].cur])
  <2>1. mem' = [mem EXCEPT ![pa[p][Mem]] = contents[p][loc[p].cur]] /\ Mem \in Slot /\ Known
    BY <1>1, <1>3, PageSlot DEF SoundInv
  <2>2. contents[p][loc[p].cur] \in Value \cup {Junk}
    BY <1>2, <1>3, PageSlot DEF SoundInv, Known, ThreadInv, TypeOK
  <2> QED
    BY <1>1, <1>2, <2>1, <2>2, WriteFills
<1>5. pc'[p] = "cow_kfree" /\ \A q \in Proc : q # p => pc'[q] = pc[q]
  BY <1>1, LocType DEF SoundInv, Known, ThreadInv
<1>6. Alone(p)
  BY <1>1, <1>4, <1>5, OwnAlone DEF Fills, Off
<1>7. \A w \in Page : contents'[p][w] = contents[p][w]
  BY <1>4, PageSlot, NotPage DEF Fills
<1>8. ContentOK(p)'
  <2>1. contents'[p][Mem] = contents'[p][loc[p].cur]
    BY <1>2, <1>4, <1>7, PageSlot DEF Fills
  <2> QED
    BY <1>1, <1>5, <2>1 DEF ContentOK
<1> QED
  BY <1>1, <1>5, <1>6, <1>7, <1>8, PlainStep DEF Plain

\* The shared page goes, and the copy shows the same.
LEMMA CowKfreeSound ==
  ASSUME SoundInv, NEW p \in Proc, CowKfree(p)
  PROVE  ContentInv' /\ Quiet
<1> DEFINE v == loc[p].cur
<1>1. /\ pc[p] = "cow_kfree" /\ pc' = [pc EXCEPT ![p] = "cow_map"]
      /\ loc' = loc /\ sz' = sz /\ flags' = flags /\ Kfree(p, p, v)
  BY DEF CowKfree, At, Goto
<1>2. v \in Page /\ v \in Slot /\ Page \subseteq Slot /\ Mem \in Slot /\ Mem \notin Page
      /\ contents[p][Mem] = contents[p][v]
  BY <1>1, PageSlot, NotPage
     DEF SoundInv, Known, ThreadInv, LocalsOK, Paging, ContentInv, ContentOK
<1>3. Fills(p, v, None)
  BY <1>1, <1>2, KfreeEmpties DEF SoundInv
<1>4. pc'[p] = "cow_map" /\ \A q \in Proc : q # p => pc'[q] = pc[q]
  BY <1>1, LocType DEF SoundInv, Known, ThreadInv
<1>5. Alone(p)
  BY <1>1, <1>3, <1>4, OwnAlone DEF Fills, Off
<1>6. ContentOK(p)'
  BY <1>4 DEF ContentOK
<1>7. ASSUME NEW w \in Page PROVE Seen(p, w)' = Seen(p, w)
  <2>1. Seen(p, w) = IF w < sz[p] THEN contents[p][w] ELSE None
    BY <1>1, PlainSeen DEF Plain
  <2>2. Seen(p, w)' = IF w < sz[p] THEN contents'[p][IF w = v THEN Mem ELSE w] ELSE None
    BY <1>1, <1>4 DEF Seen, Running, VisibleSize, Source
  <2> QED
    BY <1>2, <1>3, <2>1, <2>2 DEF Fills
<1> QED
  BY <1>4, <1>5, <1>6, <1>7, QuietStep DEF Off

\* mappages() moves a page from a local of p to page v of q.
Moves(p, s, q, v) == pa' = [pa EXCEPT ![q][v] = pa[p][s], ![p][s] = None] /\ mem' = mem
FillsFrom(p, s, q, v) ==
  \A r \in Proc, t \in Slot :
    contents'[r][t] = IF r = p /\ t = s THEN None
                      ELSE IF r = q /\ t = v THEN contents[p][s] ELSE contents[r][t]

LEMMA MoveFills ==
  ASSUME Known, NEW p \in Proc, NEW s \in {Mem, Pa}, NEW q \in Proc, NEW v \in Page,
         Moves(p, s, q, v)
  PROVE  FillsFrom(p, s, q, v)
<1>1. /\ v \in Slot /\ s \in Slot /\ s # v /\ pa \in [Proc -> [Slot -> Frame \cup {None}]]
      /\ pa' = [pa EXCEPT ![q][v] = pa[p][s], ![p][s] = None] /\ mem' = mem
  BY PageSlot, NotPage DEF Known, ThreadInv, TypeOK, Moves
<1>2. \A r \in Proc, t \in Slot :
        pa'[r][t] = IF r = p /\ t = s THEN None
                    ELSE IF r = q /\ t = v THEN pa[p][s] ELSE pa[r][t]
  BY <1>1
<1>3. contents[p][s] = IF pa[p][s] = None THEN None ELSE mem[pa[p][s]]
  BY <1>1 DEF contents
<1> SUFFICES ASSUME NEW r \in Proc, NEW t \in Slot
             PROVE  contents'[r][t] = IF r = p /\ t = s THEN None
                                      ELSE IF r = q /\ t = v THEN contents[p][s]
                                      ELSE contents[r][t]
  BY DEF FillsFrom
<1>4. contents[r][t] = IF pa[r][t] = None THEN None ELSE mem[pa[r][t]]
  BY DEF contents
<1>5. contents'[r][t] = IF pa'[r][t] = None THEN None ELSE mem[pa'[r][t]]
  BY <1>1, ContentsAfter
<1> QED
  BY <1>2, <1>3, <1>4, <1>5

LEMMA CowMapSound ==
  ASSUME SoundInv, NEW p \in Proc, CowMap(p)
  PROVE  ContentInv' /\ Quiet
<1>0. PICK v \in Page : v = loc[p].cur
  BY DEF CowMap, At, SoundInv, Known, ThreadInv, LocalsOK, Paging
<1>1. /\ pc[p] = "cow_map" /\ sz' = sz /\ mem' = mem
      /\ pa' = [pa EXCEPT ![p][v] = pa[p][Mem], ![p][Mem] = None]
      /\ flags' = [flags EXCEPT ![p][v] = CowFlags(@)]
  BY <1>0 DEF CowMap, At, memory
<1>2. v \in Page /\ Page \subseteq Slot /\ Mem \in Slot /\ Mem \notin Page /\ pa[p][Mem] # None
  BY <1>1, PageSlot, NotPage DEF SoundInv, Known, TablesInv, SlotsOK, HoldsMem
<1>3. FillsFrom(p, Mem, p, v)
  BY <1>1, MoveFills DEF SoundInv, Moves
<1>4. /\ pc'[p] \in {"user", "copyout_write"}
      /\ pc'[p] = "copyout_write" => loc'[p] = loc[p]
      /\ \A q \in Proc : q # p => pc'[q] = pc[q] /\ loc'[q] = loc[q]
  <2>1. pc \in [Proc -> PcLabel] /\ loc \in [Proc -> Locals]
    BY LocType DEF SoundInv, Known, ThreadInv
  <2> QED
    BY <2>1 DEF CowMap, Return, Goto
<1>5. flags \in [Proc -> [Page -> SUBSET Flag]]
  BY DEF SoundInv, Known, ThreadInv, TypeOK
<1>6. Alone(p)
  BY <1>1, <1>3, <1>4, <1>5, OwnAlone DEF Off, FillsFrom
<1>7. ContentOK(p)'
  <2>1. "PTE_W" \in flags'[p][v]
    BY <1>1, <1>2, <1>5 DEF CowFlags
  <2>2. pa'[p][v] # None
    <3>1. pa \in [Proc -> [Slot -> Frame \cup {None}]]
      BY DEF SoundInv, Known, ThreadInv, TypeOK
    <3> QED
      BY <1>1, <1>2, <3>1
  <2> QED
    BY <1>0, <1>4, <2>1, <2>2 DEF ContentOK, Mapped
<1>8. ASSUME NEW w \in Page PROVE Seen(p, w)' = Seen(p, w)
  <2>1. Seen(p, w) = IF w < sz[p] THEN contents[p][IF w = v THEN Mem ELSE w] ELSE None
    BY <1>0, <1>1 DEF Seen, Running, VisibleSize, Source
  <2>2. Seen(p, w)' = IF w < sz[p] THEN contents'[p][w] ELSE None
    BY <1>1, <1>4, PlainSeenAfter DEF Plain
  <2> QED
    BY <1>2, <1>3, <2>1, <2>2 DEF FillsFrom
<1> QED
  BY <1>4, <1>6, <1>7, <1>8, QuietStep DEF Off

-----------------------------------------------------------------------------
(* Steps that a program sees, as it sees them                              *)

WriteSeen(p, v, x) ==
  /\ p \in Running /\ Running' = Running /\ Seen(p, v) # None
  /\ \A q \in Proc, w \in Page : Seen(q, w)' = IF q = p /\ w = v THEN x ELSE Seen(q, w)

ForkSeen(p, c) ==
  /\ p \in Running /\ c \notin Running /\ Running' = Running \cup {c}
  /\ \A q \in Proc, w \in Page : Seen(q, w)' = IF q = c THEN Seen(p, w) ELSE Seen(q, w)

ResizeSeen(p, n) ==
  /\ p \in Running /\ Running' = Running
  /\ \A q \in Proc, w \in Page :
       Seen(q, w)' = IF q # p THEN Seen(q, w)
                     ELSE IF w >= n THEN None
                     ELSE IF Seen(p, w) = None THEN Zero ELSE Seen(p, w)

ExitSeen(p) ==
  /\ p \in Running /\ Running' = Running \ {p}
  /\ \A q \in Proc, w \in Page : Seen(q, w)' = IF q = p THEN None ELSE Seen(q, w)

\* A store of p in one of its pages.
LEMMA WriteStep ==
  ASSUME SoundInv, NEW p \in Proc, NEW v \in Page, NEW x \in Value, Fills(p, v, x),
         Mapped(p, v), pc[p] \in {"user", "copyout_write"},
         Alone(p), ContentOK(p)', pc'[p] \in Plain, sz'[p] = sz[p],
         \A q \in Proc : q # p => pc'[q] = pc[q]
  PROVE  ContentInv' /\ WriteSeen(p, v, x)
<1>1. pc[p] \notin Off /\ pc'[p] \notin Off /\ pc[p] \in Plain
  BY DEF Off, Plain
<1>2. \A q \in Proc : q # p => /\ q \in Running' <=> q \in Running
                               /\ \A w \in Page : Seen(q, w)' = Seen(q, w)
  BY OthersSee
<1>3. p \in Running /\ Running' = Running
  BY <1>1, <1>2 DEF Running, Off
<1>4. v < sz[p]
  <2>1. MapsOnly(p, 0 .. sz[p] - 1)
    BY DEF SoundInv, Known, TablesInv, MapOK, Whole
  <2> QED
    BY <2>1, SizeType DEF MapsOnly, SoundInv, Known, ThreadInv
<1>5. contents[p][v] # None
  BY Contents, PageSlot DEF SoundInv, Known, ThreadInv, Mapped
<1>6. \A w \in Page : contents'[p][w] = IF w = v THEN x ELSE contents[p][w]
  BY PageSlot DEF Fills
<1>7. Seen(p, v) # None
  BY <1>1, <1>4, <1>5, PlainSeen
<1>8. \A w \in Page : Seen(p, w)' = IF w = v THEN x ELSE Seen(p, w)
  BY <1>1, <1>4, <1>6, PlainSeen, PlainSeenAfter
<1> QED
  BY <1>2, <1>3, <1>7, <1>8, OthersContent DEF WriteSeen

LEMMA StoreSound ==
  ASSUME SoundInv, NEW p \in Proc, NEW v \in Page, NEW x \in Value, Store(p, v, x)
  PROVE  ContentInv' /\ WriteSeen(p, v, x)
<1>1. /\ pc[p] = "user" /\ pa' = pa /\ pc' = pc /\ loc' = loc /\ sz' = sz /\ flags' = flags
      /\ mem' = [mem EXCEPT ![pa[p][v]] = x]
      /\ Mapped(p, v) /\ pa[p][v] # None /\ "PTE_W" \in flags[p][v]
  BY DEF Store, InUser, At, Writable, Mapped
<1>2. v \in Slot /\ x \in Value \cup {Junk} /\ Known
  BY PageSlot DEF SoundInv
<1>3. Fills(p, v, x)
  BY <1>1, <1>2, WriteFills
<1>4. Alone(p)
  BY <1>1, <1>3, OwnAlone DEF Fills, Off
<1>5. ContentOK(p)'
  BY <1>1 DEF ContentOK
<1> QED
  BY <1>1, <1>3, <1>4, <1>5, WriteStep DEF Plain

LEMMA CopyoutWriteSound ==
  ASSUME SoundInv, NEW p \in Proc, CopyoutWrite(p)
  PROVE  ContentInv' /\ \E v \in Page, x \in Value : WriteSeen(p, v, x)
<1>1. PICK v \in Page, x \in Value : v = loc[p].cur /\ x = loc[p].val
  BY LocFields
     DEF CopyoutWrite, At, SoundInv, Known, ThreadInv, LocalsOK, Paging
<1>2. /\ pc[p] = "copyout_write" /\ pa' = pa /\ sz' = sz /\ flags' = flags
      /\ mem' = [mem EXCEPT ![pa[p][v]] = x]
  BY <1>1 DEF CopyoutWrite, At
<1>3. Mapped(p, v) /\ pa[p][v] # None /\ "PTE_W" \in flags[p][v]
  BY <1>1, <1>2 DEF SoundInv, ContentInv, ContentOK, Mapped
<1>4. /\ pc'[p] \in {"user", "copyout", "freeproc"}
      /\ \A q \in Proc : q # p => pc'[q] = pc[q] /\ loc'[q] = loc[q]
  <2>1. pc \in [Proc -> PcLabel] /\ loc \in [Proc -> Locals]
    BY LocType DEF SoundInv, Known, ThreadInv
  <2> QED
    BY <2>1 DEF CopyoutWrite, Return, Goto
<1>5. v \in Slot /\ x \in Value \cup {Junk} /\ Known
  BY PageSlot DEF SoundInv
<1>6. Fills(p, v, x)
  BY <1>2, <1>3, <1>5, WriteFills
<1>7. Alone(p)
  BY <1>2, <1>4, <1>6, OwnAlone DEF Fills, Off
<1>8. ContentOK(p)'
  BY <1>4 DEF ContentOK
<1>9. WriteSeen(p, v, x) /\ ContentInv'
  BY <1>2, <1>3, <1>4, <1>6, <1>7, <1>8, WriteStep DEF Plain
<1> QED
  BY <1>9

-----------------------------------------------------------------------------
(* fork()                                                                  *)

\* p takes an entry that runs no program, to fill or to release it.
LEMMA TakeStep ==
  ASSUME SoundInv, NEW p \in Proc, NEW c \in Proc, SameContents, UNCHANGED <<sz, flags>>,
         pc[p] = "user", pc[c] \in Off, pc'[c] \in Off,
         pc'[p] \in {"allocproc", "copyout", "freeproc"},
         \A q \in Proc : q # p /\ q # c => pc'[q] = pc[q],
         \A q \in Proc : q # p => loc'[q] = loc[q]
  PROVE  ContentInv' /\ Quiet
<1>1. Alone(p)
  BY DEF Alone, SameContents, Off
<1>2. ContentOK(p)'
  BY DEF ContentOK
<1>3. \A w \in Page : contents'[p][w] = contents[p][w]
  BY PageSlot DEF SameContents
<1> QED
  BY <1>1, <1>2, <1>3, PlainStep DEF Plain

LEMMA ForkSound ==
  ASSUME SoundInv, NEW p \in Proc, NEW c \in Proc, Fork(p, c)
  PROVE  ContentInv' /\ Quiet
<1>1. /\ pc[p] = "user" /\ pc[c] = "unused" /\ UNCHANGED <<pa, mem, sz, flags>>
      /\ pc' = [pc EXCEPT ![p] = "allocproc", ![c] = "embryo"]
      /\ loc' = [loc EXCEPT ![p].np = c]
  BY DEF Fork, InUser, At, memory
<1>2. SameContents
  BY <1>1, KeepsAll
<1>3. /\ pc'[p] = "allocproc" /\ pc'[c] = "embryo"
      /\ \A q \in Proc : q # p /\ q # c => pc'[q] = pc[q]
      /\ \A q \in Proc : q # p => loc'[q] = loc[q]
  BY <1>1, LocType DEF SoundInv, Known, ThreadInv
<1> QED
  BY <1>1, <1>2, <1>3, TakeStep DEF Off

LEMMA WaitSound ==
  ASSUME SoundInv, NEW p \in Proc, NEW c \in Proc, Wait(p, c)
  PROVE  ContentInv' /\ Quiet
<1>1. pc[p] = "user" /\ pc[c] = "zombie" /\ UNCHANGED <<pa, mem, sz, flags>>
  BY DEF Wait, InUser, At, memory
<1>2. SameContents
  BY <1>1, KeepsAll
<1>3. /\ pc'[p] \in {"copyout", "freeproc"} /\ pc'[c] = "reaped"
      /\ \A q \in Proc : q # p /\ q # c => pc'[q] = pc[q]
      /\ \A q \in Proc : q # p => loc'[q] = loc[q]
  <2>1. pc \in [Proc -> PcLabel] /\ loc \in [Proc -> Locals]
    BY LocType DEF SoundInv, Known, ThreadInv
  <2> QED
    BY <1>1, <2>1 DEF Wait
<1> QED
  BY <1>1, <1>2, <1>3, TakeStep DEF Off

\* A step of p that fills or empties a slot of its child, which is no page of p.
LEMMA ChildStep ==
  ASSUME SoundInv, NEW p \in Proc, NEW c \in Proc, c = loc[p].np, c # p,
         pc[c] \in Off, pc'[c] \in Off,
         \A q \in Proc : q # p => loc'[q] = loc[q],
         \A q \in Proc : q # p /\ q # c => pc'[q] = pc[q],
         \A q \in Proc : q # c =>
           /\ sz'[q] = sz[q] /\ flags'[q] = flags[q]
           /\ \A s \in Slot : contents'[q][s] = contents[q][s],
         pc[p] \in Plain, pc'[p] \in Plain, ContentOK(p)'
  PROVE  ContentInv' /\ Quiet
<1>1. Alone(p)
  BY DEF Alone, Plain, Off
<1>2. \A w \in Page : contents'[p][w] = contents[p][w]
  BY PageSlot
<1> QED
  BY <1>1, <1>2, PlainStep

LEMMA AllocprocSound ==
  ASSUME SoundInv, NEW p \in Proc, Allocproc(p)
  PROVE  ContentInv' /\ Quiet
<1>1. pc[p] = "allocproc" /\ UNCHANGED <<loc, pc, sz, flags>>
  BY DEF Allocproc, At
<1>2. PICK c \in Proc : c = loc[p].np /\ c # p /\ pc[c] \in Off
  BY <1>1, ItsChild DEF SoundInv, Known, Building, Off
<1>3. PICK s \in Slot : Kalloc(c, s, Junk)
  BY <1>2, PageSlot DEF Allocproc, Missing
<1>4. Fills(c, s, Junk)
  BY <1>3, KallocFills DEF SoundInv
<1>5. ContentOK(p)'
  BY <1>1 DEF ContentOK
<1> QED
  BY <1>1, <1>2, <1>4, <1>5, ChildStep DEF Fills, Plain

LEMMA AllocprocFailSound ==
  ASSUME SoundInv, NEW p \in Proc, AllocprocFail(p)
  PROVE  ContentInv' /\ Quiet
<1>1. /\ pc[p] = "allocproc" /\ UNCHANGED <<loc, sz, flags, pa, mem>>
      /\ pc' = [pc EXCEPT ![p] = "freeproc"]
  BY DEF AllocprocFail, At, Goto, memory
<1>2. SameContents
  BY <1>1, KeepsAll
<1>3. pc'[p] = "freeproc" /\ \A q \in Proc : q # p => pc'[q] = pc[q]
  BY <1>1, LocType DEF SoundInv, Known, ThreadInv
<1>4. Alone(p)
  BY <1>1, <1>2, <1>3, OwnAlone DEF SameContents, Off
<1>5. ContentOK(p)'
  BY <1>3 DEF ContentOK
<1>6. \A w \in Page : contents'[p][w] = contents[p][w]
  BY <1>2, PageSlot DEF SameContents
<1> QED
  BY <1>1, <1>3, <1>4, <1>5, <1>6, PlainStep DEF Plain

LEMMA AllocprocDoneSound ==
  ASSUME SoundInv, NEW p \in Proc, AllocprocDone(p)
  PROVE  ContentInv' /\ Quiet
<1>1. /\ pc[p] = "allocproc" /\ UNCHANGED <<loc, sz, flags, pa, mem>>
      /\ pc' = [pc EXCEPT ![p] = "uvmcopy"]
  BY DEF AllocprocDone, At, Goto, memory
<1>2. SameContents
  BY <1>1, KeepsAll
<1>3. pc'[p] = "uvmcopy" /\ \A q \in Proc : q # p => pc'[q] = pc[q]
  BY <1>1, LocType DEF SoundInv, Known, ThreadInv
<1>4. Alone(p)
  BY <1>1, <1>2, <1>3, OwnAlone DEF SameContents, Off
<1>5. ContentOK(p)'
  <2>1. loc[p].np # None /\ loc[p].cur = 0
    BY <1>1, Child, ProcAssumption
       DEF SoundInv, Known, ThreadInv, TablesInv, ChildOK, Building
  <2>2. \A v \in Page : ~(v < 0)
    BY DEF Page
  <2> QED
    BY <1>1, <1>3, <2>1, <2>2 DEF ContentOK
<1>6. \A w \in Page : contents'[p][w] = contents[p][w]
  BY <1>2, PageSlot DEF SameContents
<1> QED
  BY <1>1, <1>3, <1>4, <1>5, <1>6, PlainStep DEF Plain

LEMMA UvmcopyRefSound ==
  ASSUME SoundInv, NEW p \in Proc, UvmcopyRef(p)
  PROVE  ContentInv' /\ Quiet
<1>1. /\ pc[p] = "uvmcopy" /\ loc' = loc /\ sz' = sz /\ mem' = mem
      /\ pc' = [pc EXCEPT ![p] = "uvmcopy_map"]
      /\ pa' = [pa EXCEPT ![p][Pa] = pa[p][loc[p].cur]]
      /\ flags' = [flags EXCEPT ![p][loc[p].cur] = MarkCow(@)]
  BY DEF UvmcopyRef, At, Goto
<1>2. /\ pc \in [Proc -> PcLabel] /\ pa \in [Proc -> [Slot -> Frame \cup {None}]]
      /\ flags \in [Proc -> [Page -> SUBSET Flag]]
  BY DEF SoundInv, Known, ThreadInv, TypeOK
<1>3. \A r \in Proc, t \in Slot : ~(r = p /\ t = Pa) => pa'[r][t] = pa[r][t]
  BY <1>1, <1>2
<1>4. \A r \in Proc, t \in Slot : ~(r = p /\ t = Pa) => contents'[r][t] = contents[r][t]
  <2> SUFFICES ASSUME NEW r \in Proc, NEW t \in Slot, ~(r = p /\ t = Pa)
               PROVE  contents'[r][t] = contents[r][t]
    OBVIOUS
  <2>1. pa'[r][t] = pa[r][t] /\ mem' = mem
    BY <1>1, <1>3
  <2> QED
    BY <2>1, ContentsAfter DEF contents
<1>5. pc'[p] = "uvmcopy_map" /\ \A q \in Proc : q # p => pc'[q] = pc[q] /\ flags'[q] = flags[q]
  BY <1>1, <1>2
<1>6. Alone(p)
  BY <1>1, <1>4, <1>5, OwnAlone DEF Off
<1>7. \A w \in Page : contents'[p][w] = contents[p][w]
  BY <1>4, PageSlot, NotPage
<1>8. ContentOK(p)'
  <2>1. loc[p].np \in Proc /\ loc[p].np # p
    BY <1>1, Child DEF SoundInv, Known, Building
  <2>2. \A w \in Page : contents'[loc[p].np][w] = contents[loc[p].np][w]
    BY <1>4, <2>1, PageSlot
  <2> QED
    BY <1>1, <1>5, <1>7, <2>2 DEF SoundInv, ContentInv, ContentOK
<1> QED
  BY <1>1, <1>5, <1>6, <1>7, <1>8, PlainStep DEF Plain

LEMMA UvmcopyWalkSound ==
  ASSUME SoundInv, NEW p \in Proc, UvmcopyWalk(p)
  PROVE  ContentInv' /\ Quiet
<1>1. pc[p] = "uvmcopy_map" /\ UNCHANGED <<loc, pc, sz, flags>>
  BY DEF UvmcopyWalk, At
<1>2. PICK c \in Proc : c = loc[p].np /\ c # p /\ pc[c] \in Off
  BY <1>1, ItsChild DEF SoundInv, Known, Building, Off
<1>3. PICK s \in Slot \ Page : Kalloc(c, s, Zero)
  <2>1. loc[p].cur \in Page
    BY <1>1 DEF SoundInv, Known, ThreadInv, LocalsOK, Paging
  <2>2. LeafOf[loc[p].cur] \in Leaf
    BY <2>1, SlotAssumption
  <2> QED
    BY <1>2, <2>2, PageSlot, NotPage DEF UvmcopyWalk
<1>4. Fills(c, s, Zero)
  BY <1>3, KallocFills, ValueAssumption DEF SoundInv
<1>5. ContentOK(p)'
  <2>1. \A w \in Page : contents'[c][w] = contents[c][w] /\ contents'[p][w] = contents[p][w]
    BY <1>2, <1>4, PageSlot DEF Fills
  <2> QED
    BY <1>1, <1>2, <2>1 DEF SoundInv, ContentInv, ContentOK
<1> QED
  BY <1>1, <1>2, <1>4, <1>5, ChildStep DEF Fills, Plain

\* The child's new page is the parent's.
LEMMA UvmcopyMapSound ==
  ASSUME SoundInv, NEW p \in Proc, UvmcopyMap(p)
  PROVE  ContentInv' /\ Quiet
<1>0. PICK v \in Page : v = loc[p].cur
  BY DEF UvmcopyMap, At, SoundInv, Known, ThreadInv, LocalsOK, Paging
<1>1. PICK c \in Proc : c = loc[p].np /\ c # p /\ pc[c] \in Off
  BY ItsChild DEF UvmcopyMap, At, SoundInv, Known, Building, Off
<1>2. /\ pc[p] = "uvmcopy_map" /\ sz' = sz /\ Moves(p, Pa, c, v)
      /\ pc' = [pc EXCEPT ![p] = "uvmcopy"]
      /\ loc' = [loc EXCEPT ![p].cur = v + 1]
      /\ flags' = [flags EXCEPT ![c][v] = flags[p][v]]
  BY <1>0, <1>1 DEF UvmcopyMap, At, Goto, Moves, memory
<1>3. FillsFrom(p, Pa, c, v)
  BY <1>2, MoveFills DEF SoundInv
<1>4. /\ pc \in [Proc -> PcLabel] /\ flags \in [Proc -> [Page -> SUBSET Flag]]
      /\ loc \in [Proc -> Locals]
  BY DEF SoundInv, Known, ThreadInv, TypeOK
<1>5. /\ pc'[p] = "uvmcopy" /\ \A q \in Proc : q # p => pc'[q] = pc[q] /\ loc'[q] = loc[q]
      /\ \A q \in Proc : q # c => flags'[q] = flags[q]
      /\ loc'[p].cur = v + 1 /\ loc'[p].np = c
  BY <1>1, <1>2, <1>4 DEF Locals
<1>6. contents[p][Pa] = contents[p][v]
  BY <1>0, <1>2, PageSlot DEF contents, SoundInv, Known, ThreadInv, LocalsOK
<1>7. \A w \in Page : contents'[p][w] = contents[p][w]
  BY <1>1, <1>3, PageSlot, NotPage DEF FillsFrom
<1>8. ContentOK(p)'
  <2>1. \A w \in Page : w < v => contents[c][w] = contents[p][w]
    BY <1>0, <1>1, <1>2 DEF SoundInv, ContentInv, ContentOK
  <2>2. \A w \in Page : contents'[c][w] = IF w = v THEN contents[p][v] ELSE contents[c][w]
    BY <1>1, <1>3, <1>6, PageSlot, NotPage DEF FillsFrom
  <2>3. \A w \in Page : w < v + 1 <=> w < v \/ w = v
    BY DEF Page
  <2> QED
    BY <1>5, <1>7, <2>1, <2>2, <2>3 DEF ContentOK
<1>9. Alone(p)
  <2>1. \A q \in Proc : q # p /\ q # c => \A s \in Slot : contents'[q][s] = contents[q][s]
    BY <1>3 DEF FillsFrom
  <2>2. pc'[c] \in Off
    BY <1>1, <1>5
  <2> QED
    BY <1>1, <1>2, <1>5, <2>1, <2>2 DEF Alone, Off
<1> QED
  BY <1>2, <1>5, <1>7, <1>8, <1>9, PlainStep DEF Plain

LEMMA UvmcopyErrSound ==
  ASSUME SoundInv, NEW p \in Proc, UvmcopyErr(p)
  PROVE  ContentInv' /\ Quiet
<1>1. PICK c \in Proc : c = loc[p].np /\ c # p /\ pc[c] \in Off
  BY ItsChild DEF UvmcopyErr, At, SoundInv, Known, Building, Off
<1>2. /\ pc[p] = "uvmcopy_err" /\ sz' = sz
      /\ pc \in [Proc -> PcLabel] /\ flags \in [Proc -> [Page -> SUBSET Flag]]
      /\ loc \in [Proc -> Locals]
  BY DEF UvmcopyErr, At, SoundInv, Known, ThreadInv, TypeOK
<1>3. /\ pc'[p] \in {"uvmcopy_err", "freeproc"}
      /\ \A q \in Proc : q # p => pc'[q] = pc[q] /\ loc'[q] = loc[q]
      /\ \A q \in Proc : q # c => flags'[q] = flags[q]
  BY <1>1, <1>2 DEF UvmcopyErr, Goto, Unmap
<1>4. \A q \in Proc : q # c => \A s \in Slot : contents'[q][s] = contents[q][s]
  <2>1. CASE loc[p].cur < loc[p].lim
    <3>1. loc[p].cur \in Page
      <4>1. loc[p].cur \in 0 .. MaxPage /\ loc[p].lim \in 0 .. MaxPage
        BY LocFields DEF SoundInv, Known, ThreadInv
      <4> QED
        BY <2>1, <4>1, PageAssumption DEF Page
    <3>2. Kfree(p, c, loc[p].cur) /\ loc[p].cur \in Slot
      BY <1>1, <2>1, <3>1, PageSlot DEF UvmcopyErr, Unmap
    <3>3. Fills(c, loc[p].cur, None)
      BY <3>2, KfreeEmpties DEF SoundInv
    <3> QED
      BY <3>3 DEF Fills
  <2>2. CASE ~(loc[p].cur < loc[p].lim)
    BY <2>2, KeepsAll DEF UvmcopyErr, memory, SameContents
  <2> QED
    BY <2>1, <2>2
<1>5. ContentOK(p)'
  BY <1>3 DEF ContentOK
<1> QED
  BY <1>1, <1>2, <1>3, <1>4, <1>5, ChildStep DEF Plain

LEMMA FreeprocSound ==
  ASSUME SoundInv, NEW p \in Proc, Freeproc(p)
  PROVE  ContentInv' /\ Quiet
<1>1. PICK c \in Proc : c = loc[p].np /\ c # p /\ pc[c] \in Off
  BY ItsChild DEF Freeproc, At, SoundInv, Known, Building, Off
<1>2. pc[p] = "freeproc" /\ UNCHANGED <<loc, pc, sz>>
  BY DEF Freeproc, At
<1>3. PICK s \in Slot : Kfree(p, c, s)
  <2>1. FreeNext(c) \subseteq Slot
    BY PageSlot DEF FreeNext
  <2> QED
    BY <1>1, <2>1 DEF Freeproc, Unmap
<1>4. Fills(c, s, None)
  BY <1>3, KfreeEmpties DEF SoundInv
<1>5. \A q \in Proc : q # c => flags'[q] = flags[q]
  BY <1>1 DEF Freeproc, Unmap, SoundInv, Known, ThreadInv, TypeOK
<1>6. ContentOK(p)'
  BY <1>2 DEF ContentOK
<1> QED
  BY <1>1, <1>2, <1>4, <1>5, <1>6, ChildStep DEF Fills, Plain

LEMMA FreeprocDoneSound ==
  ASSUME SoundInv, NEW p \in Proc, FreeprocDone(p)
  PROVE  ContentInv' /\ Quiet
<1>1. PICK c \in Proc : c = loc[p].np /\ c # p /\ pc[c] \in Off
  BY ItsChild DEF FreeprocDone, At, SoundInv, Known, Building, Off
<1>2. /\ pc[p] = "freeproc" /\ UNCHANGED <<flags, pa, mem>>
      /\ sz' = [sz EXCEPT ![c] = 0]
      /\ pc' = [pc EXCEPT ![p] = "user", ![c] = "unused"]
      /\ loc' = [loc EXCEPT ![p] = NoLocals]
  BY <1>1 DEF FreeprocDone, At, memory
<1>3. SameContents
  BY <1>2, KeepsAll
<1>4. /\ pc \in [Proc -> PcLabel] /\ loc \in [Proc -> Locals] /\ sz \in [Proc -> 0 .. MaxPage]
  BY DEF SoundInv, Known, ThreadInv, TypeOK
<1>5. /\ pc'[p] = "user" /\ pc'[c] \in Off
      /\ \A q \in Proc : q # p /\ q # c => pc'[q] = pc[q]
      /\ \A q \in Proc : q # p => loc'[q] = loc[q]
      /\ \A q \in Proc : q # c => sz'[q] = sz[q]
  BY <1>1, <1>2, <1>4 DEF Off
<1>6. ContentOK(p)'
  BY <1>5 DEF ContentOK
<1> QED
  BY <1>1, <1>2, <1>3, <1>5, <1>6, ChildStep DEF SameContents, Plain

\* The child starts with what uvmcopy() has gone through: all that the parent has.
LEMMA ForkDoneSound ==
  ASSUME SoundInv, NEW p \in Proc, ForkDone(p)
  PROVE  ContentInv' /\ \E c \in Proc : ForkSeen(p, c)
<1>1. PICK c \in Proc : c = loc[p].np /\ c # p /\ pc[c] \in Off
  BY ItsChild DEF ForkDone, At, SoundInv, Known, Building, Off
<1>2. /\ pc[p] = "uvmcopy" /\ loc[p].cur = sz[p] /\ UNCHANGED <<flags, pa, mem>>
      /\ sz' = [sz EXCEPT ![c] = sz[p]]
      /\ pc' = [pc EXCEPT ![p] = "user", ![c] = "user"]
      /\ loc' = [loc EXCEPT ![p] = NoLocals]
  BY <1>1 DEF ForkDone, At, memory
<1>3. SameContents
  BY <1>2, KeepsAll
<1>4. /\ pc \in [Proc -> PcLabel] /\ loc \in [Proc -> Locals] /\ sz \in [Proc -> 0 .. MaxPage]
  BY DEF SoundInv, Known, ThreadInv, TypeOK
<1>5. /\ pc'[p] = "user" /\ pc'[c] = "user"
      /\ \A q \in Proc : q # p /\ q # c => pc'[q] = pc[q]
      /\ \A q \in Proc : q # p => loc'[q] = loc[q]
      /\ \A q \in Proc : q # c => sz'[q] = sz[q]
      /\ sz'[c] = sz[p]
  BY <1>1, <1>2, <1>4
<1>6. ContentOK(p)'
  BY <1>5 DEF ContentOK
<1>7. Alone(p)
  BY <1>1, <1>2, <1>3, <1>5 DEF Alone, SameContents, Off
<1>8. \A q \in Proc : q # p /\ q # c => /\ q \in Running' <=> q \in Running
                                        /\ \A w \in Page : Seen(q, w)' = Seen(q, w)
  BY <1>5, <1>7, OthersSee
<1>9. \A w \in Page : contents'[p][w] = contents[p][w] /\ contents'[c][w] = contents[c][w]
  BY <1>3, PageSlot DEF SameContents
<1>10. \A w \in Page : w < sz[p] => contents[c][w] = contents[p][w]
  BY <1>1, <1>2 DEF SoundInv, ContentInv, ContentOK
<1>11. \A w \in Page : Seen(p, w)' = Seen(p, w) /\ Seen(c, w)' = Seen(p, w)
  <2>1. \A w \in Page : Seen(p, w) = IF w < sz[p] THEN contents[p][w] ELSE None
    BY <1>2, PlainSeen DEF Plain
  <2>2. \A w \in Page : Seen(p, w)' = IF w < sz[p] THEN contents'[p][w] ELSE None
    BY <1>1, <1>5, PlainSeenAfter DEF Plain
  <2>3. \A w \in Page : Seen(c, w)' = IF w < sz[p] THEN contents'[c][w] ELSE None
    BY <1>5, PlainSeenAfter DEF Plain
  <2> QED
    BY <1>9, <1>10, <2>1, <2>2, <2>3
<1>12. p \in Running /\ c \notin Running /\ Running' = Running \cup {c}
  <2>1. \A q \in Proc : /\ q \in Running <=> pc[q] \notin Off
                        /\ q \in Running' <=> pc'[q] \notin Off
    BY DEF Running, Off
  <2>2. Running \subseteq Proc /\ Running' \subseteq Proc
    BY DEF Running
  <2>3. pc[p] \notin Off /\ pc'[p] \notin Off /\ pc'[c] \notin Off
    BY <1>2, <1>5 DEF Off
  <2>4. \A q \in Proc : q \in Running' <=> q \in Running \/ q = c
    BY <1>1, <1>8, <2>1, <2>3
  <2> QED
    BY <1>1, <2>1, <2>2, <2>3, <2>4
<1>13. ForkSeen(p, c)
  BY <1>8, <1>11, <1>12 DEF ForkSeen
<1> QED
  BY <1>6, <1>7, <1>13, OthersContent

-----------------------------------------------------------------------------
(* exit()                                                                  *)

\* p stops: its memory is not seen any more.
LEMMA StopStep ==
  ASSUME SoundInv, NEW p \in Proc, SameContents, UNCHANGED <<sz, flags, loc>>,
         pc[p] = "user", pc'[p] \in Off, \A q \in Proc : q # p => pc'[q] = pc[q]
  PROVE  ContentInv' /\ ExitSeen(p)
<1>1. Alone(p)
  BY OwnAlone DEF SameContents, Off
<1>2. ContentOK(p)'
  BY DEF ContentOK, Off
<1>3. \A q \in Proc : q # p => /\ q \in Running' <=> q \in Running
                               /\ \A w \in Page : Seen(q, w)' = Seen(q, w)
  BY <1>1, OthersSee
<1>4. p \in Running /\ p \notin Running' /\ \A w \in Page : Seen(p, w)' = None
  BY DEF Running, Off, Seen
<1>5. Running' = Running \ {p}
  BY <1>3, <1>4 DEF Running
<1> QED
  BY <1>1, <1>2, <1>3, <1>4, <1>5, OthersContent DEF ExitSeen

LEMMA ExitSound ==
  ASSUME SoundInv, NEW p \in Proc, Exit(p) \/ InitPanic(p)
  PROVE  ContentInv' /\ ExitSeen(p)
<1>1. /\ pc[p] = "user" /\ UNCHANGED <<sz, flags, loc, pa, mem>>
      /\ \/ pc' = [pc EXCEPT ![p] = "zombie"]
         \/ pc' = [pc EXCEPT ![p] = "panic"]
  BY DEF Exit, InitPanic, At, Goto, memory
<1>2. pc'[p] \in Off /\ \A q \in Proc : q # p => pc'[q] = pc[q]
  BY <1>1, LocType DEF SoundInv, Known, ThreadInv, Off
<1> QED
  BY <1>1, <1>2, KeepsAll, StopStep


-----------------------------------------------------------------------------
(* sbrk()                                                                  *)

\* What p sees while uvmdealloc() runs: the pages below the new size.
LEMMA DeallocSeen ==
  ASSUME NEW p \in Proc, pc[p] = "uvmdealloc"
  PROVE  \A v \in Page : Seen(p, v) = IF v < loc[p].newsz THEN contents[p][v] ELSE None
  BY DEF Seen, Running, VisibleSize, Source

LEMMA DeallocSeenAfter ==
  ASSUME NEW p \in Proc, pc'[p] = "uvmdealloc"
  PROVE  \A v \in Page : Seen(p, v)' = IF v < loc'[p].newsz THEN contents'[p][v] ELSE None
  BY DEF Seen, Running, VisibleSize, Source

LEMMA GrowSound ==
  ASSUME SoundInv, NEW p \in Proc, NEW n \in 0 .. MaxPage, Grow(p, n)
  PROVE  ContentInv' /\ Quiet
<1>1. /\ pc[p] = "user" /\ UNCHANGED <<sz, flags, pa, mem>>
      /\ pc' = [pc EXCEPT ![p] = "uvmalloc"]
      /\ loc' = [loc EXCEPT ![p].cur = sz[p], ![p].lim = n]
  BY DEF Grow, InUser, At, Goto, memory
<1>2. SameContents
  BY <1>1, KeepsAll
<1>3. pc \in [Proc -> PcLabel] /\ loc \in [Proc -> Locals]
  BY LocType DEF SoundInv, Known, ThreadInv
<1>4. /\ pc'[p] = "uvmalloc" /\ loc'[p].cur = sz[p]
      /\ \A q \in Proc : q # p => pc'[q] = pc[q] /\ loc'[q] = loc[q]
  BY <1>1, <1>3 DEF Locals
<1>5. Alone(p)
  BY <1>1, <1>2, <1>4, OwnAlone DEF SameContents, Off
<1>6. ContentOK(p)'
  <2>1. \A v \in Page : ~(sz[p] <= v /\ v < sz[p])
    BY SizeType DEF Page, SoundInv, Known, ThreadInv
  <2> QED
    BY <1>1, <1>4, <2>1 DEF ContentOK
<1>7. \A w \in Page : contents'[p][w] = contents[p][w]
  BY <1>2, PageSlot DEF SameContents
<1> QED
  BY <1>1, <1>4, <1>5, <1>6, <1>7, PlainStep DEF Plain

\* A step of p on its own memory that its program sees.
LEMMA ResizeStep ==
  ASSUME SoundInv, NEW p \in Proc, NEW n \in 0 .. MaxPage, SameContents, UNCHANGED flags,
         pc[p] \notin Off, pc'[p] \notin Off, ContentOK(p)',
         \A q \in Proc : q # p => pc'[q] = pc[q] /\ loc'[q] = loc[q] /\ sz'[q] = sz[q],
         \A w \in Page : Seen(p, w)' = IF w >= n THEN None
                                       ELSE IF Seen(p, w) = None THEN Zero ELSE Seen(p, w)
  PROVE  ContentInv' /\ ResizeSeen(p, n)
<1>1. Alone(p)
  BY OwnAlone DEF SameContents
<1>2. \A q \in Proc : q # p => /\ q \in Running' <=> q \in Running
                               /\ \A w \in Page : Seen(q, w)' = Seen(q, w)
  BY <1>1, OthersSee
<1>3. p \in Running /\ Running' = Running
  BY <1>2 DEF Running, Off
<1> QED
  BY <1>1, <1>2, <1>3, OthersContent DEF ResizeSeen

LEMMA ShrinkSound ==
  ASSUME SoundInv, NEW p \in Proc, NEW n \in 0 .. MaxPage, Shrink(p, n)
  PROVE  ContentInv' /\ ResizeSeen(p, n)
<1>1. /\ pc[p] = "user" /\ UNCHANGED <<sz, flags, pa, mem>> /\ n < sz[p]
      /\ pc' = [pc EXCEPT ![p] = "uvmdealloc"]
      /\ loc' = [loc EXCEPT ![p].cur = n, ![p].lim = sz[p], ![p].newsz = n]
  BY DEF Shrink, InUser, At, Goto, DeallocFrom, memory
<1>2. SameContents
  BY <1>1, KeepsAll
<1>3. pc \in [Proc -> PcLabel] /\ loc \in [Proc -> Locals]
  BY LocType DEF SoundInv, Known, ThreadInv
<1>4. /\ pc'[p] = "uvmdealloc" /\ loc'[p].newsz = n
      /\ \A q \in Proc : q # p => pc'[q] = pc[q] /\ loc'[q] = loc[q]
  BY <1>1, <1>3 DEF Locals
<1>5. ContentOK(p)'
  BY <1>4 DEF ContentOK
<1>6. \A w \in Page : contents'[p][w] = contents[p][w]
  BY <1>2, PageSlot DEF SameContents
<1>7. \A w \in Page : w < n => w < sz[p] /\ contents[p][w] # None
  <2>1. MapsOnly(p, 0 .. sz[p] - 1)
    BY <1>1 DEF SoundInv, Known, TablesInv, MapOK, Whole
  <2>2. \A w \in Page : w < n => w < sz[p] /\ Mapped(p, w)
    BY <1>1, <2>1, SizeType, PageAssumption DEF MapsOnly, Page, SoundInv, Known, ThreadInv
  <2> QED
    BY <2>2, Contents, PageSlot DEF Mapped, SoundInv, Known, ThreadInv
<1>8. ASSUME NEW w \in Page
      PROVE  Seen(p, w)' = IF w >= n THEN None
                           ELSE IF Seen(p, w) = None THEN Zero ELSE Seen(p, w)
  <2>1. Seen(p, w) = IF w < sz[p] THEN contents[p][w] ELSE None
    BY <1>1, PlainSeen DEF Plain
  <2>2. Seen(p, w)' = IF w < n THEN contents[p][w] ELSE None
    BY <1>4, <1>6, DeallocSeenAfter
  <2>3. w < n <=> ~(w >= n)
    BY DEF Page
  <2> QED
    BY <1>7, <2>1, <2>2, <2>3
<1> QED
  BY <1>1, <1>2, <1>4, <1>5, <1>8, ResizeStep DEF Off

\* The pages that uvmalloc() has mapped are zero, as growproc() promises all of them.
LEMMA GrowDoneSound ==
  ASSUME SoundInv, NEW p \in Proc, GrowDone(p)
  PROVE  ContentInv' /\ \E n \in 0 .. MaxPage : ResizeSeen(p, n)
<1>1. PICK n \in 0 .. MaxPage : n = loc[p].lim /\ n = loc[p].cur
  BY LocFields DEF GrowDone, SoundInv, Known, ThreadInv
<1>2. /\ pc[p] = "uvmalloc" /\ UNCHANGED <<flags, pa, mem>>
      /\ sz' = [sz EXCEPT ![p] = n]
      /\ pc' = [pc EXCEPT ![p] = "user"]
      /\ loc' = [loc EXCEPT ![p] = NoLocals]
  BY <1>1 DEF GrowDone, At, Return, Goto, memory
<1>3. SameContents
  BY <1>2, KeepsAll
<1>4. /\ pc \in [Proc -> PcLabel] /\ loc \in [Proc -> Locals] /\ sz \in [Proc -> 0 .. MaxPage]
  BY DEF SoundInv, Known, ThreadInv, TypeOK
<1>5. /\ pc'[p] = "user" /\ sz'[p] = n
      /\ \A q \in Proc : q # p => pc'[q] = pc[q] /\ loc'[q] = loc[q] /\ sz'[q] = sz[q]
  BY <1>2, <1>4
<1>6. ContentOK(p)'
  BY <1>5 DEF ContentOK
<1>7. \A w \in Page : contents'[p][w] = contents[p][w]
  BY <1>3, PageSlot DEF SameContents
<1>8. sz[p] <= n /\ \A w \in Page : w < n => contents[p][w] # None
  <2>1. sz[p] <= n /\ MapsOnly(p, 0 .. n - 1)
    BY <1>1, <1>2 DEF SoundInv, Known, TablesInv, MapOK
  <2>2. \A w \in Page : w < n => Mapped(p, w)
    BY <2>1, PageAssumption DEF MapsOnly, Page
  <2> QED
    BY <2>1, <2>2, Contents, PageSlot DEF Mapped, SoundInv, Known, ThreadInv
<1>9. \A w \in Page : sz[p] <= w /\ w < n => contents[p][w] = Zero
  BY <1>1, <1>2 DEF SoundInv, ContentInv, ContentOK
<1>10. ASSUME NEW w \in Page
       PROVE  Seen(p, w)' = IF w >= n THEN None
                            ELSE IF Seen(p, w) = None THEN Zero ELSE Seen(p, w)
  <2>1. Seen(p, w) = IF w < sz[p] THEN contents[p][w] ELSE None
    BY <1>2, PlainSeen DEF Plain
  <2>2. Seen(p, w)' = IF w < n THEN contents[p][w] ELSE None
    BY <1>5, <1>7, PlainSeenAfter DEF Plain
  <2>3. /\ w < n <=> ~(w >= n)
        /\ sz[p] <= w <=> ~(w < sz[p])
        /\ w < sz[p] => w < n
    BY <1>4, <1>8, PageAssumption DEF Page
  <2> QED
    BY <1>8, <1>9, <2>1, <2>2, <2>3
<1>11. ContentInv' /\ ResizeSeen(p, n)
  BY <1>2, <1>3, <1>5, <1>6, <1>10, ResizeStep DEF Off
<1> QED
  BY <1>11


LEMMA UvmallocSound ==
  ASSUME SoundInv, NEW p \in Proc, Uvmalloc(p)
  PROVE  ContentInv' /\ Quiet
<1>1. /\ pc[p] = "uvmalloc" /\ loc' = loc /\ sz' = sz /\ flags' = flags
      /\ pc' = [pc EXCEPT ![p] = "uvmalloc_map"]
      /\ Kalloc(p, Mem, Zero)
  BY DEF Uvmalloc, At, Goto
<1>2. Fills(p, Mem, Zero)
  BY <1>1, PageSlot, KallocFills, ValueAssumption DEF SoundInv
<1>3. pc'[p] = "uvmalloc_map" /\ \A q \in Proc : q # p => pc'[q] = pc[q]
  BY <1>1, LocType DEF SoundInv, Known, ThreadInv
<1>4. Alone(p)
  BY <1>1, <1>2, <1>3, OwnAlone DEF Fills, Off
<1>5. \A w \in Page : contents'[p][w] = contents[p][w]
  BY <1>2, PageSlot, NotPage DEF Fills
<1>6. contents'[p][Mem] = Zero
  BY <1>2, PageSlot DEF Fills
<1>7. ContentOK(p)'
  BY <1>1, <1>3, <1>5, <1>6 DEF ContentOK, SoundInv, ContentInv
<1> QED
  BY <1>1, <1>3, <1>4, <1>5, <1>7, PlainStep DEF Plain

LEMMA UvmallocWalkSound ==
  ASSUME SoundInv, NEW p \in Proc, UvmallocWalk(p)
  PROVE  ContentInv' /\ Quiet
<1>1. pc[p] = "uvmalloc_map" /\ UNCHANGED <<loc, pc, sz, flags>>
  BY DEF UvmallocWalk, At
<1>2. PICK s \in Slot \ (Page \cup {Mem}) : Kalloc(p, s, Zero)
  <2>1. loc[p].cur \in Page
    BY <1>1 DEF SoundInv, Known, ThreadInv, LocalsOK, Paging
  <2>2. LeafOf[loc[p].cur] \in Leaf
    BY <2>1, SlotAssumption
  <2>3. Mem \notin Leaf
    BY SlotAssumption
  <2> QED
    BY <2>2, <2>3, PageSlot, NotPage DEF UvmallocWalk
<1>3. Fills(p, s, Zero)
  BY <1>2, KallocFills, ValueAssumption DEF SoundInv
<1>4. Alone(p)
  BY <1>1, <1>3, OwnAlone DEF Fills, Off
<1>5. \A w \in Page : contents'[p][w] = contents[p][w]
  BY <1>2, <1>3, PageSlot DEF Fills
<1>6. contents'[p][Mem] = contents[p][Mem]
  BY <1>2, <1>3, PageSlot DEF Fills
<1>7. ContentOK(p)'
  BY <1>1, <1>5, <1>6 DEF ContentOK, SoundInv, ContentInv
<1> QED
  BY <1>1, <1>4, <1>5, <1>7, PlainStep DEF Plain

LEMMA UvmallocMapSound ==
  ASSUME SoundInv, NEW p \in Proc, UvmallocMap(p)
  PROVE  ContentInv' /\ Quiet
<1>0. PICK v \in Page : v = loc[p].cur
  BY DEF UvmallocMap, At, SoundInv, Known, ThreadInv, LocalsOK, Paging
<1>1. /\ pc[p] = "uvmalloc_map" /\ sz' = sz /\ Moves(p, Mem, p, v)
      /\ pc' = [pc EXCEPT ![p] = "uvmalloc"]
      /\ loc' = [loc EXCEPT ![p].cur = v + 1]
      /\ flags' = [flags EXCEPT ![p][v] = {"PTE_U", "PTE_W"}]
  BY <1>0 DEF UvmallocMap, At, Goto, Moves, memory
<1>2. FillsFrom(p, Mem, p, v)
  BY <1>1, MoveFills DEF SoundInv
<1>3. /\ pc \in [Proc -> PcLabel] /\ flags \in [Proc -> [Page -> SUBSET Flag]]
      /\ loc \in [Proc -> Locals]
  BY DEF SoundInv, Known, ThreadInv, TypeOK
<1>4. /\ pc'[p] = "uvmalloc" /\ loc'[p].cur = v + 1
      /\ \A q \in Proc : q # p => pc'[q] = pc[q] /\ loc'[q] = loc[q] /\ flags'[q] = flags[q]
  BY <1>1, <1>3 DEF Locals
<1>5. \A w \in Page : contents'[p][w] = IF w = v THEN Zero ELSE contents[p][w]
  <2>1. contents[p][Mem] = Zero
    BY <1>1 DEF SoundInv, ContentInv, ContentOK
  <2> QED
    BY <1>2, <2>1, PageSlot, NotPage DEF FillsFrom
<1>6. Alone(p)
  BY <1>1, <1>2, <1>4, OwnAlone DEF FillsFrom, Off
<1>7. ContentOK(p)'
  <2>1. \A w \in Page : sz[p] <= w /\ w < v => contents[p][w] = Zero
    BY <1>0, <1>1 DEF SoundInv, ContentInv, ContentOK
  <2>2. \A w \in Page : w < v + 1 <=> w < v \/ w = v
    BY DEF Page
  <2> QED
    BY <1>1, <1>4, <1>5, <2>1, <2>2 DEF ContentOK
<1>8. \A w \in Page : w < sz[p] => contents'[p][w] = contents[p][w]
  <2>1. sz[p] <= v
    BY <1>0, <1>1 DEF SoundInv, Known, TablesInv, MapOK
  <2> QED
    BY <1>5, <2>1, SizeType DEF Page, SoundInv, Known, ThreadInv
<1> QED
  BY <1>1, <1>4, <1>6, <1>7, <1>8, PlainStep DEF Plain

\* uvmalloc() gives up: p sees no more and no less than before.
LEMMA GiveBackSound ==
  ASSUME SoundInv, NEW p \in Proc, pc[p] \in {"uvmalloc", "uvmalloc_map"},
         DeallocFrom(p, sz[p], loc[p].cur), UNCHANGED <<sz, flags>>,
         \A q \in Proc, s \in Slot : ~(q = p /\ s = Mem) => contents'[q][s] = contents[q][s]
  PROVE  ContentInv' /\ Quiet
<1>1. /\ pc' = [pc EXCEPT ![p] = "uvmdealloc"]
      /\ loc' = [loc EXCEPT ![p].cur = sz[p], ![p].lim = loc[p].cur, ![p].newsz = sz[p]]
  BY DEF DeallocFrom, Goto
<1>2. pc \in [Proc -> PcLabel] /\ loc \in [Proc -> Locals]
  BY LocType DEF SoundInv, Known, ThreadInv
<1>3. /\ pc'[p] = "uvmdealloc" /\ loc'[p].newsz = sz[p]
      /\ \A q \in Proc : q # p => pc'[q] = pc[q] /\ loc'[q] = loc[q]
  BY <1>1, <1>2 DEF Locals
<1>4. Alone(p)
  BY <1>3, OwnAlone DEF Off
<1>5. ContentOK(p)'
  BY <1>3 DEF ContentOK
<1>6. \A w \in Page : contents'[p][w] = contents[p][w]
  BY PageSlot, NotPage
<1>7. \A w \in Page : Seen(p, w)' = Seen(p, w)
  <2>1. \A w \in Page : Seen(p, w) = IF w < sz[p] THEN contents[p][w] ELSE None
    BY PlainSeen DEF Plain
  <2>2. \A w \in Page : Seen(p, w)' = IF w < sz[p] THEN contents'[p][w] ELSE None
    BY <1>3, DeallocSeenAfter
  <2> QED
    BY <1>6, <2>1, <2>2
<1> QED
  BY <1>3, <1>4, <1>5, <1>7, QuietStep DEF Off

LEMMA UvmallocNoMemSound ==
  ASSUME SoundInv, NEW p \in Proc, UvmallocNoMem(p)
  PROVE  ContentInv' /\ Quiet
<1>1. /\ pc[p] = "uvmalloc" /\ UNCHANGED <<sz, flags, pa, mem>>
      /\ DeallocFrom(p, sz[p], loc[p].cur)
  BY DEF UvmallocNoMem, At, memory
<1>2. SameContents
  BY <1>1, KeepsAll
<1> QED
  BY <1>1, <1>2, GiveBackSound DEF SameContents

LEMMA UvmallocFailSound ==
  ASSUME SoundInv, NEW p \in Proc, UvmallocFail(p)
  PROVE  ContentInv' /\ Quiet
<1>1. /\ pc[p] = "uvmalloc_map" /\ UNCHANGED <<sz, flags>>
      /\ DeallocFrom(p, sz[p], loc[p].cur) /\ Kfree(p, p, Mem)
  BY DEF UvmallocFail, At
<1>2. Fills(p, Mem, None)
  BY <1>1, PageSlot, KfreeEmpties DEF SoundInv
<1> QED
  BY <1>1, <1>2, GiveBackSound DEF Fills

\* The pages that go are above the new size.
LEMMA UvmdeallocSound ==
  ASSUME SoundInv, NEW p \in Proc, Uvmdealloc(p)
  PROVE  ContentInv' /\ Quiet
<1>1. pc[p] = "uvmdealloc"
  BY DEF Uvmdealloc, At
<1>2. /\ pc \in [Proc -> PcLabel] /\ flags \in [Proc -> [Page -> SUBSET Flag]]
      /\ loc \in [Proc -> Locals] /\ sz \in [Proc -> 0 .. MaxPage]
  BY DEF SoundInv, Known, ThreadInv, TypeOK
<1>3. PICK v \in 0 .. MaxPage, n \in 0 .. MaxPage : v = loc[p].cur /\ n = loc[p].newsz /\ n <= v
  BY <1>1, LocFields DEF SoundInv, Known, ThreadInv, TablesInv, MapOK
<1>4. \A w \in Page : Seen(p, w) = IF w < n THEN contents[p][w] ELSE None
  BY <1>1, <1>3, DeallocSeen
<1>5. CASE loc[p].cur < loc[p].lim
  <2>1. /\ Kfree(p, p, v) /\ pc' = pc /\ sz' = sz
        /\ loc' = [loc EXCEPT ![p].cur = v + 1]
        /\ flags' = [flags EXCEPT ![p][v] = {}]
    BY <1>3, <1>5 DEF Uvmdealloc, Unmap
  <2>2. v \in Page /\ v \in Slot
    <3>1. loc[p].lim \in 0 .. MaxPage
      BY LocFields DEF SoundInv, Known, ThreadInv
    <3> QED
      BY <1>3, <1>5, <3>1, PageAssumption, PageSlot DEF Page
  <2>3. Fills(p, v, None)
    BY <2>1, <2>2, KfreeEmpties DEF SoundInv
  <2>4. /\ loc'[p].newsz = n /\ pc'[p] = "uvmdealloc"
        /\ \A q \in Proc : q # p => pc'[q] = pc[q] /\ loc'[q] = loc[q] /\ flags'[q] = flags[q]
    BY <1>1, <1>2, <1>3, <2>1 DEF Locals
  <2>5. Alone(p)
    BY <1>1, <2>1, <2>3, <2>4, OwnAlone DEF Fills, Off
  <2>6. ContentOK(p)'
    BY <2>4 DEF ContentOK
  <2>7. \A w \in Page : w < n => contents'[p][w] = contents[p][w]
    BY <1>3, <2>2, <2>3, PageSlot DEF Fills, Page
  <2>8. \A w \in Page : Seen(p, w)' = Seen(p, w)
    BY <1>4, <2>4, <2>7, DeallocSeenAfter
  <2> QED
    BY <2>4, <2>5, <2>6, <2>8, QuietStep DEF Off
<1>6. CASE ~(loc[p].cur < loc[p].lim)
  <2>1. /\ UNCHANGED <<pa, mem, flags>>
        /\ sz' = [sz EXCEPT ![p] = n]
        /\ pc' = [pc EXCEPT ![p] = "user"]
        /\ loc' = [loc EXCEPT ![p] = NoLocals]
    BY <1>3, <1>6 DEF Uvmdealloc, Return, Goto, memory
  <2>2. SameContents
    BY <2>1, KeepsAll
  <2>3. /\ sz'[p] = n /\ pc'[p] = "user"
        /\ \A q \in Proc : q # p => pc'[q] = pc[q] /\ loc'[q] = loc[q] /\ sz'[q] = sz[q]
    BY <1>2, <2>1
  <2>4. Alone(p)
    BY <1>1, <2>1, <2>2, <2>3, OwnAlone DEF SameContents, Off
  <2>5. ContentOK(p)'
    BY <2>3 DEF ContentOK
  <2>6. \A w \in Page : Seen(p, w)' = Seen(p, w)
    <3>1. \A w \in Page : contents'[p][w] = contents[p][w]
      BY <2>2, PageSlot DEF SameContents
    <3>2. \A w \in Page : Seen(p, w)' = IF w < n THEN contents'[p][w] ELSE None
      BY <2>3, PlainSeenAfter DEF Plain
    <3> QED
      BY <1>4, <3>1, <3>2
  <2> QED
    BY <2>3, <2>4, <2>5, <2>6, QuietStep DEF Off
<1> QED
  BY <1>5, <1>6

-----------------------------------------------------------------------------
(* Every step                                                              *)

LEMMA KfreePushSound ==
  ASSUME SoundInv, NEW p \in Proc, KfreePush(p)
  PROVE  ContentInv' /\ Quiet
<1>1. SameContents
  BY PushKeeps DEF SoundInv
<1> QED
  BY <1>1, SameStep DEF KfreePush

LEMMA StoreKillSound ==
  ASSUME SoundInv, NEW p \in Proc, NEW v \in Page, StoreKill(p, v)
  PROVE  ContentInv' /\ Quiet
<1>1. UNCHANGED <<pa, mem, pc, loc, sz, flags>>
  BY DEF StoreKill, memory
<1> QED
  BY <1>1, KeepsAll, SameStep

\* Without LeaksPage uvmcopy() does not fail in mappages().
LEMMA NoUvmcopyFail ==
  ASSUME SoundInv, NEW p \in Proc, ~LeaksPage(p)
  PROVE  ~UvmcopyFail(p)
<1> SUFFICES ASSUME UvmcopyFail(p) PROVE FALSE
  OBVIOUS
<1>1. pc[p] = "uvmcopy_map" /\ pc' = [pc EXCEPT ![p] = "uvmcopy_err"]
  BY DEF UvmcopyFail, At, Goto
<1>2. pc'[p] = "uvmcopy_err"
  BY <1>1, LocType DEF SoundInv, Known, ThreadInv
<1> QED
  BY <1>1, <1>2 DEF LeaksPage

Visible ==
  \E p \in Proc :
    \/ \E v \in Page, x \in Value : WriteSeen(p, v, x)
    \/ \E c \in Proc : ForkSeen(p, c)
    \/ \E n \in 0 .. MaxPage : ResizeSeen(p, n)
    \/ ExitSeen(p)

LEMMA FaultSound ==
  ASSUME SoundInv, NEW p \in Proc, Fault(p), ~StoresShared(p)
  PROVE  ContentInv' /\ (Quiet \/ Visible)
<1>1. CASE \E v \in Page, x \in Value : Store(p, v, x)
  BY <1>1, StoreSound DEF Visible
<1>2. CASE \E v \in Page, x \in Value : Copyout(p, v, x)
  BY <1>2, CopyoutSound
<1>3. CASE \E v \in Page : StoreFault(p, v)
  BY <1>3, StoreFaultSound
<1>4. CASE \E v \in Page : StoreKill(p, v)
  BY <1>4, StoreKillSound
<1>5. CASE CopyoutPage(p)
  BY <1>5, CopyoutPageSound
<1>6. CASE CopyoutFail(p)
  BY <1>6, CopyoutFailSound
<1>7. CASE CowCopy(p)
  BY <1>7, CowCopySound
<1>8. CASE CowKfree(p)
  BY <1>8, CowKfreeSound
<1>9. CASE CowMap(p)
  BY <1>9, CowMapSound
<1>10. CASE CopyoutWrite(p)
  BY <1>10, CopyoutWriteSound DEF Visible
<1> QED
  BY <1>1, <1>2, <1>3, <1>4, <1>5, <1>6, <1>7, <1>8, <1>9, <1>10 DEF Fault

LEMMA ForkStepSound ==
  ASSUME SoundInv, NEW p \in Proc, ForkStep(p), ~LeaksPage(p)
  PROVE  ContentInv' /\ (Quiet \/ Visible)
<1>1. CASE \E c \in Proc : Fork(p, c)
  BY <1>1, ForkSound
<1>2. CASE Allocproc(p)
  BY <1>2, AllocprocSound
<1>3. CASE AllocprocFail(p)
  BY <1>3, AllocprocFailSound
<1>4. CASE AllocprocDone(p)
  BY <1>4, AllocprocDoneSound
<1>5. CASE UvmcopyRef(p)
  BY <1>5, UvmcopyRefSound
<1>6. CASE UvmcopyWalk(p)
  BY <1>6, UvmcopyWalkSound
<1>7. CASE UvmcopyMap(p)
  BY <1>7, UvmcopyMapSound
<1>8. CASE UvmcopyErr(p)
  BY <1>8, UvmcopyErrSound
<1>9. CASE ForkDone(p)
  BY <1>9, ForkDoneSound DEF Visible
<1> QED
  BY <1>1, <1>2, <1>3, <1>4, <1>5, <1>6, <1>7, <1>8, <1>9, NoUvmcopyFail DEF ForkStep

LEMMA ExitStepSound ==
  ASSUME SoundInv, NEW p \in Proc, ExitStep(p)
  PROVE  ContentInv' /\ (Quiet \/ Visible)
<1>1. CASE Exit(p) \/ InitPanic(p)
  BY <1>1, ExitSound DEF Visible
<1>2. CASE \E c \in Proc : Wait(p, c)
  BY <1>2, WaitSound
<1>3. CASE Freeproc(p)
  BY <1>3, FreeprocSound
<1>4. CASE FreeprocDone(p)
  BY <1>4, FreeprocDoneSound
<1> QED
  BY <1>1, <1>2, <1>3, <1>4 DEF ExitStep

LEMMA SbrkStepSound ==
  ASSUME SoundInv, NEW p \in Proc, SbrkStep(p)
  PROVE  ContentInv' /\ (Quiet \/ Visible)
<1>1. CASE \E n \in 0 .. MaxPage : Grow(p, n)
  BY <1>1, GrowSound
<1>2. CASE \E n \in 0 .. MaxPage : Shrink(p, n)
  BY <1>2, ShrinkSound DEF Visible
<1>3. CASE Uvmalloc(p)
  BY <1>3, UvmallocSound
<1>4. CASE UvmallocNoMem(p)
  BY <1>4, UvmallocNoMemSound
<1>5. CASE UvmallocWalk(p)
  BY <1>5, UvmallocWalkSound
<1>6. CASE UvmallocMap(p)
  BY <1>6, UvmallocMapSound
<1>7. CASE UvmallocFail(p)
  BY <1>7, UvmallocFailSound
<1>8. CASE GrowDone(p)
  BY <1>8, GrowDoneSound DEF Visible
<1>9. CASE Uvmdealloc(p)
  BY <1>9, UvmdeallocSound
<1> QED
  BY <1>1, <1>2, <1>3, <1>4, <1>5, <1>6, <1>7, <1>8, <1>9 DEF SbrkStep

LEMMA SoundStep ==
  ASSUME SoundInv, [SoundNext]_vars
  PROVE  ContentInv' /\ (Quiet \/ Visible)
<1>1. CASE UNCHANGED vars
  <2>1. UNCHANGED <<pa, mem, pc, loc, sz, flags>>
    BY <1>1 DEF vars, memory
  <2> QED
    BY <2>1, KeepsAll, SameStep
<1>2. CASE SoundNext
  <2>1. PICK p \in Proc :
          \/ KfreePush(p)
          \/ Fault(p) \/ ForkStep(p) \/ ExitStep(p) \/ SbrkStep(p)
    BY <1>2 DEF SoundNext, Next
  <2>2. ~StoresShared(p) /\ ~LeaksPage(p)
    BY <1>2 DEF SoundNext
  <2> QED
    BY <2>1, <2>2, KfreePushSound, FaultSound, ForkStepSound, ExitStepSound, SbrkStepSound
<1> QED
  BY <1>1, <1>2

LEMMA InitContent == Init => ContentInv
  BY DEF Init, ContentInv, ContentOK

\* What every step keeps, the steps of SoundNext keep.
LEMMA AlwaysSound == SoundSpec => []SoundInv
<1>1. SoundSpec => Spec
  <2>1. [SoundNext]_vars => [Next]_vars
    BY DEF SoundNext
  <2> QED
    BY <2>1, PTL DEF SoundSpec, Spec
<1>2. SoundSpec => []Known
  BY <1>1, AlwaysThread, AlwaysTables, AlwaysFrame, PTL DEF Known
<1>3. Known /\ ContentInv /\ [SoundNext]_vars => ContentInv'
  BY SoundStep DEF SoundInv
<1> QED
  BY <1>2, <1>3, InitContent, PTL DEF SoundSpec, SoundInv


-----------------------------------------------------------------------------
(* The kernel implements PrivateMemory                                     *)

\* What the refinement mapping reads is what the slots show.
LEMMA ViewSeen ==
  ASSUME SoundInv, NEW p \in Proc, NEW v \in Page
  PROVE  View(p, v) = Seen(p, v)
<1> SUFFICES ASSUME p \in Running, v < VisibleSize(p)
             PROVE  mem[Backing(p, v)] = contents[p][Source(p, v)]
  BY DEF View, Seen
<1>1. Source(p, v) \in Slot /\ Backing(p, v) = pa[p][Source(p, v)]
  BY PageSlot DEF Source, Backing
<1>2. pa[p][Source(p, v)] # None
  <2>1. CASE pc[p] = "cow_map" /\ v = loc[p].cur
    BY <2>1 DEF Source, SoundInv, Known, TablesInv, SlotsOK, HoldsMem
  <2>2. CASE pc[p] = "uvmdealloc"
    <3>1. v < loc[p].newsz /\ Source(p, v) = v
      BY <2>2 DEF VisibleSize, Source
    <3>2. /\ MapsOnly(p, (0 .. loc[p].newsz - 1) \cup (loc[p].cur .. loc[p].lim - 1))
          /\ loc[p].newsz \in 0 .. MaxPage
      BY <2>2, LocFields DEF SoundInv, Known, ThreadInv, TablesInv, MapOK
    <3> QED
      BY <3>1, <3>2, PageAssumption DEF MapsOnly, Mapped, Page
  <2>3. CASE pc[p] # "uvmdealloc" /\ ~(pc[p] = "cow_map" /\ v = loc[p].cur)
    <3>1. v < sz[p] /\ sz[p] \in Nat /\ Source(p, v) = v
      BY <2>3, SizeType DEF VisibleSize, Source, SoundInv, Known, ThreadInv
    <3>2. \/ MapsOnly(p, 0 .. sz[p] - 1)
          \/ pc[p] = "cow_map" /\ MapsOnly(p, (0 .. sz[p] - 1) \ {loc[p].cur})
          \/ sz[p] <= loc[p].cur /\ MapsOnly(p, 0 .. loc[p].cur - 1)
      <4>1. pc[p] \in Whole \cup {"cow_map", "uvmalloc", "uvmalloc_map"}
        <5>1. pc[p] \in PcLabel
          BY LocType DEF SoundInv, Known, ThreadInv
        <5> QED
          BY <2>3, <5>1 DEF PcLabel, Running, Whole
      <4> QED
        BY <4>1 DEF SoundInv, Known, TablesInv, MapOK
    <3>3. loc[p].cur \in 0 .. MaxPage
      BY LocFields DEF SoundInv, Known, ThreadInv
    <3> QED
      BY <2>3, <3>1, <3>2, <3>3, PageAssumption DEF MapsOnly, Mapped, Page
  <2> QED
    BY <2>1, <2>2, <2>3
<1> QED
  BY <1>1, <1>2 DEF contents

view == [p \in Proc |-> [v \in Page |-> View(p, v)]]

SeenView == [p \in Proc |-> [v \in Page |-> Seen(p, v)]]

LEMMA ViewIs == SoundInv => view = SeenView
  BY ViewSeen DEF view, SeenView

\* Before a step and after it.
LEMMA ViewsAre ==
  ASSUME SoundInv, SoundInv'
  PROVE  /\ view = [p \in Proc |-> [v \in Page |-> Seen(p, v)]]
         /\ view' = [p \in Proc |-> [v \in Page |-> Seen(p, v)']]
<1>1. (SoundInv => view = SeenView)'
  BY ViewIs, PTL
<1>2. view = SeenView /\ view' = SeenView'
  BY <1>1, ViewIs
<1> QED
  BY <1>2 DEF SeenView

LEMMA PrivateInit == Init => Private!Init
<1> SUFFICES ASSUME Init PROVE Private!Init
  OBVIOUS
<1>1. /\ pc = [p \in Proc |-> IF p = InitProc THEN "user" ELSE "unused"]
      /\ sz = [p \in Proc |-> IF p = InitProc THEN InitSz ELSE 0]
      /\ mem = [f \in Frame |-> IF f \in freelist THEN Junk ELSE Zero]
      /\ pa = [p \in Proc |-> IF p = InitProc THEN InitPa ELSE [s \in Slot |-> None]]
      /\ \A s \in Slot : InitPa[s] \notin freelist
      /\ InitProc \in Proc
  BY InitAssumption, ProcAssumption DEF Init
<1>2. Running = {InitProc} /\ VisibleSize(InitProc) = InitSz
  BY <1>1 DEF Running, VisibleSize
<1>3. \A v \in Page : v < InitSz => View(InitProc, v) = Zero
  <2>1. \A v \in Page : v < InitSz => v \in 0 .. InitSz - 1
    BY PageAssumption DEF Page
  <2>2. \A v \in Page : v \in Slot /\ (v < InitSz => InitPa[v] \in Frame)
    BY <2>1, PageSlot, InitAssumption
  <2>3. \A v \in Page : Backing(InitProc, v) = InitPa[v]
    BY <1>1 DEF Backing
  <2> QED
    BY <1>1, <1>2, <2>2, <2>3 DEF View
<1>4. \A p \in Proc, v \in Page :
        View(p, v) = IF p = InitProc THEN IF v < InitSz THEN Zero ELSE None ELSE None
  BY <1>2, <1>3 DEF View
<1> QED
  BY <1>2, <1>4 DEF Private!Init, Private!NoMemory, Private!Page, Page

LEMMA PrivateQuiet ==
  ASSUME SoundInv, SoundInv', Quiet
  PROVE  UNCHANGED <<Running, view>>
  BY ViewsAre DEF Quiet

LEMMA PrivateWrite ==
  ASSUME SoundInv, SoundInv', NEW p \in Proc, NEW v \in Page, NEW x \in Value, WriteSeen(p, v, x)
  PROVE  Private!Write(p, v, x)
<1>1. /\ view = [q \in Proc |-> [w \in Page |-> Seen(q, w)]]
      /\ view' = [q \in Proc |-> [w \in Page |-> Seen(q, w)']]
  BY ViewsAre
<1>2. p \in Running /\ Running' = Running /\ view[p][v] # None
  BY <1>1 DEF WriteSeen
<1>3. \A q \in Proc, w \in Page : Seen(q, w)' = IF q = p /\ w = v THEN x ELSE Seen(q, w)
  BY DEF WriteSeen
<1>4. view' = [view EXCEPT ![p][v] = x]
  BY <1>1, <1>3
<1> QED
  BY <1>2, <1>4 DEF Private!Write, view

LEMMA PrivateFork ==
  ASSUME SoundInv, SoundInv', NEW p \in Proc, NEW c \in Proc, ForkSeen(p, c)
  PROVE  Private!Fork(p, c)
<1>1. /\ view = [q \in Proc |-> [w \in Page |-> Seen(q, w)]]
      /\ view' = [q \in Proc |-> [w \in Page |-> Seen(q, w)']]
  BY ViewsAre
<1>2. p \in Running /\ c \notin Running /\ Running' = Running \cup {c}
  BY DEF ForkSeen
<1>3. \A q \in Proc, w \in Page : Seen(q, w)' = IF q = c THEN Seen(p, w) ELSE Seen(q, w)
  BY DEF ForkSeen
<1>4. view' = [view EXCEPT ![c] = view[p]]
  BY <1>1, <1>3
<1> QED
  BY <1>2, <1>4 DEF Private!Fork, view

LEMMA PrivateResize ==
  ASSUME SoundInv, SoundInv', NEW p \in Proc, NEW n \in 0 .. MaxPage, ResizeSeen(p, n)
  PROVE  Private!Resize(p, n)
<1> DEFINE resized == [v \in Page |-> CASE v >= n -> None
                                       [] v < n /\ view[p][v] = None -> Zero
                                       [] OTHER -> view[p][v]]
<1>1. /\ view = [q \in Proc |-> [w \in Page |-> Seen(q, w)]]
      /\ view' = [q \in Proc |-> [w \in Page |-> Seen(q, w)']]
  BY ViewsAre
<1>2. p \in Running /\ Running' = Running
  BY DEF ResizeSeen
<1>3. \A w \in Page :
        Seen(p, w)' = IF w >= n THEN None
                      ELSE IF Seen(p, w) = None THEN Zero ELSE Seen(p, w)
  BY DEF ResizeSeen
<1>4. \A q \in Proc \ {p}, w \in Page : Seen(q, w)' = Seen(q, w)
  BY DEF ResizeSeen
<1>5. \A w \in Page : resized[w] = Seen(p, w)'
  <2>1. \A w \in Page : w < n <=> ~(w >= n)
    BY DEF Page
  <2>2. \A w \in Page : view[p][w] = Seen(p, w)
    BY <1>1
  <2> QED
    BY <1>3, <2>1, <2>2
<1>6. view'[p] = resized
  BY <1>1, <1>5
<1>7. \A q \in Proc \ {p} : view'[q] = view[q]
  BY <1>1, <1>4
<1>8. view' = [view EXCEPT ![p] = resized]
  <2> HIDE DEF resized
  <2> QED
    BY <1>1, <1>6, <1>7
<1> QED
  BY <1>2, <1>8 DEF Private!Resize, Private!Page, Page, view

LEMMA PrivateExit ==
  ASSUME SoundInv, SoundInv', NEW p \in Proc, ExitSeen(p)
  PROVE  Private!Exit(p)
<1>1. /\ view = [q \in Proc |-> [w \in Page |-> Seen(q, w)]]
      /\ view' = [q \in Proc |-> [w \in Page |-> Seen(q, w)']]
  BY ViewsAre
<1>2. p \in Running /\ Running' = Running \ {p}
  BY DEF ExitSeen
<1>3. \A q \in Proc, w \in Page : Seen(q, w)' = IF q = p THEN None ELSE Seen(q, w)
  BY DEF ExitSeen
<1>4. view' = [view EXCEPT ![p] = [v \in Page |-> None]]
  BY <1>1, <1>3
<1> QED
  BY <1>2, <1>4 DEF Private!Exit, Private!NoMemory, Private!Page, Page, view

LEMMA PrivateStep ==
  ASSUME SoundInv, SoundInv', Visible
  PROVE  Private!Next
<1>1. PICK p \in Proc :
        \/ \E v \in Page, x \in Value : WriteSeen(p, v, x)
        \/ \E c \in Proc : ForkSeen(p, c)
        \/ \E n \in 0 .. MaxPage : ResizeSeen(p, n)
        \/ ExitSeen(p)
  BY DEF Visible
<1>2. CASE \E v \in Page, x \in Value : WriteSeen(p, v, x)
  BY <1>2, PrivateWrite DEF Private!Next, Private!Page, Page
<1>3. CASE \E c \in Proc : ForkSeen(p, c)
  BY <1>3, PrivateFork DEF Private!Next
<1>4. CASE \E n \in 0 .. MaxPage : ResizeSeen(p, n)
  BY <1>4, PrivateResize DEF Private!Next
<1>5. CASE ExitSeen(p)
  BY <1>5, PrivateExit DEF Private!Next
<1> QED
  BY <1>1, <1>2, <1>3, <1>4, <1>5

\* Copy-on-write is invisible to the programs, for every number of processes, pages and frames
\* and whichever kalloc() fails, but for the steps of the findings: fork() gives the child the
\* parent's memory of one moment, and no process reads a later store of another (kernel/vm.c,
\* uvmcopy() and copyout(); kernel/trap.c, cowhandler()).
THEOREM CowIsPrivate == SoundSpec => PrivateSpec
<1>1. Init => Private!Init
  BY PrivateInit
<1>2. SoundInv /\ SoundInv' /\ [SoundNext]_vars => [Private!Next]_<<Running, view>>
  <2> SUFFICES ASSUME SoundInv, SoundInv', [SoundNext]_vars
               PROVE  Private!Next \/ UNCHANGED <<Running, view>>
    OBVIOUS
  <2>1. Quiet \/ Visible
    BY SoundStep
  <2> QED
    BY <2>1, PrivateQuiet, PrivateStep
<1>3. [Private!Next]_<<Running, view>>
        <=> [Private!Next]_<<Running, [p \in Proc |-> [v \in Page |-> View(p, v)]]>>
  BY DEF view
<1>4. SoundInv /\ SoundInv' /\ [SoundNext]_vars
        => [Private!Next]_<<Running, [p \in Proc |-> [v \in Page |-> View(p, v)]]>>
  BY <1>2, <1>3
<1> QED
  BY <1>1, <1>4, AlwaysSound, PTL DEF SoundSpec, PrivateSpec, Private!Spec


-----------------------------------------------------------------------------
(* No page is lost                                                         *)

\* The kinds of steps of Effect, as SoundNext takes them: a page goes to a slot that holds
\* none, and no counted page is forgotten.
TidyEffect ==
  \/ NoEffect
  \/ \E q \in Proc, s \in Slot : pa[q][s] = None /\ AllocEffect(q, s)
  \/ \E p, q \in Proc, s \in Slot : FreeEffect(p, q, s)
  \/ \E p \in Proc : KfreePush(p)
  \/ \E p \in Proc, v \in Page : pa[p][Pa] = None /\ ShareEffect(p, v)
  \/ \E p, q \in Proc, t \in {Mem, Pa}, v \in Page :
       pa[p][t] # None /\ pa[q][v] = None /\ MoveEffect(p, t, q, v)

LEMMA TidyAlloc ==
  ASSUME NEW q \in Proc, NEW s \in Slot, pa[q][s] = None, flags' = flags,
         Kalloc(q, s, Junk) \/ Kalloc(q, s, Zero)
  PROVE  TidyEffect
<1>1. Junk \in Value \cup {Junk} /\ Zero \in Value \cup {Junk}
  BY ValueAssumption
<1> QED
  BY <1>1 DEF TidyEffect, AllocEffect

LEMMA TidyFree ==
  ASSUME NEW p \in Proc, NEW q \in Proc, NEW s \in Slot, limbo[p] = None, Kfree(p, q, s),
         FlagsShrink
  PROVE  TidyEffect
  BY DEF TidyEffect, FreeEffect

\* The locals `mem' and `pa' are free where a thread fills them.
LEMMA LocalsFree ==
  ASSUME Known, NEW p \in Proc
  PROVE  /\ pc[p] \notin HoldsMem => pa[p][Mem] = None
         /\ pc[p] \in HoldsMem => pa[p][Mem] # None
         /\ pc[p] # "uvmcopy_map" => pa[p][Pa] = None
  BY DEF Known, TablesInv, SlotsOK

LEMMA TidyFault ==
  ASSUME Known, NEW p \in Proc, Fault(p)
  PROVE  TidyEffect
<1>1. ASSUME NEW v \in Page, NEW x \in Value, Store(p, v, x) \/ Copyout(p, v, x)
      PROVE  TidyEffect
  BY <1>1 DEF Store, Copyout, memory, TidyEffect, NoEffect, Lists
<1>2. ASSUME NEW v \in Page, StoreFault(p, v) PROVE TidyEffect
  <2>1. pa[p][Mem] = None /\ Kalloc(p, Mem, Junk) /\ flags' = flags
    BY <1>2, LocalsFree DEF StoreFault, InUser, At, HoldsMem
  <2> QED
    BY <2>1, PageSlot, TidyAlloc
<1>3. ASSUME NEW v \in Page, StoreKill(p, v) PROVE TidyEffect
  BY <1>3 DEF StoreKill, memory, TidyEffect, NoEffect, Lists
<1>4. CASE CopyoutPage(p)
  <2>1. /\ flags' = flags /\ (Kalloc(p, Mem, Junk) \/ UNCHANGED <<memory, pa>>)
        /\ pa[p][Mem] = None
    BY <1>4, LocalsFree DEF CopyoutPage, At, HoldsMem
  <2>2. CASE Kalloc(p, Mem, Junk)
    BY <2>1, <2>2, PageSlot, TidyAlloc
  <2>3. CASE UNCHANGED <<memory, pa>>
    BY <2>1, <2>3 DEF memory, TidyEffect, NoEffect, Lists
  <2> QED
    BY <2>1, <2>2, <2>3
<1>5. CASE CopyoutFail(p) \/ CowCopy(p) \/ CopyoutWrite(p)
  BY <1>5 DEF CopyoutFail, CowCopy, CopyoutWrite, memory, TidyEffect, NoEffect, Lists
<1>6. CASE CowKfree(p)
  <2>1. Kfree(p, p, loc[p].cur) /\ limbo[p] = None /\ FlagsShrink
    BY <1>6 DEF CowKfree, At, FlagsShrink
  <2>2. loc[p].cur \in Slot
    BY <1>6, PageSlot DEF CowKfree, At, Known, ThreadInv, LocalsOK, Paging
  <2> QED
    BY <2>1, <2>2, TidyFree
<1>7. CASE CowMap(p)
  <2>1. PICK v \in Page : v = loc[p].cur
    BY <1>7 DEF CowMap, At, Known, ThreadInv, LocalsOK, Paging
  <2>2. MoveEffect(p, Mem, p, v)
    <3>1. flags \in [Proc -> [Page -> SUBSET Flag]] /\ Mem # Pa
      BY SlotAssumption DEF Known, ThreadInv, TypeOK
    <3> QED
      BY <1>7, <2>1, <3>1 DEF CowMap, MoveEffect, memory, Lists
  <2>3. pa[p][Mem] # None
    BY <1>7, LocalsFree DEF CowMap, At, HoldsMem
  <2>4. pa[p][v] = None
    <3>1. MapsOnly(p, (0 .. sz[p] - 1) \ {v})
      BY <1>7, <2>1 DEF CowMap, At, Known, TablesInv, MapOK
    <3> QED
      BY <3>1 DEF MapsOnly, Mapped
  <2> QED
    BY <2>2, <2>3, <2>4 DEF TidyEffect
<1> QED
  BY <1>1, <1>2, <1>3, <1>4, <1>5, <1>6, <1>7 DEF Fault

LEMMA TidyFork ==
  ASSUME Known, NEW p \in Proc, ForkStep(p), ~UvmcopyFail(p)
  PROVE  TidyEffect
<1>1. ASSUME NEW c \in Proc, Fork(p, c) PROVE TidyEffect
  BY <1>1 DEF Fork, memory, TidyEffect, NoEffect, Lists
<1>2. CASE Allocproc(p)
  <2>1. PICK s \in Missing(loc[p].np) : Kalloc(loc[p].np, s, Junk)
    BY <1>2 DEF Allocproc
  <2>2. s \in Slot /\ loc[p].np \in Proc /\ flags' = flags /\ pa[loc[p].np][s] = None
    BY <1>2, PageSlot, Child DEF Missing, Allocproc, At, Building, Known
  <2> QED
    BY <2>1, <2>2, TidyAlloc
<1>3. CASE AllocprocFail(p) \/ AllocprocDone(p) \/ ForkDone(p)
  BY <1>3 DEF AllocprocFail, AllocprocDone, ForkDone, memory, TidyEffect, NoEffect, Lists
<1>4. CASE UvmcopyRef(p)
  <2>1. loc[p].cur \in Page
    BY <1>4, LocFields, PageAssumption DEF UvmcopyRef, At, Known, ThreadInv, TypeOK, Page
  <2>2. ShareEffect(p, loc[p].cur)
    BY <1>4 DEF UvmcopyRef, ShareEffect, Mapped
  <2>3. pa[p][Pa] = None
    BY <1>4, LocalsFree DEF UvmcopyRef, At
  <2> QED
    BY <2>1, <2>2, <2>3 DEF TidyEffect
<1>5. CASE UvmcopyWalk(p)
  <2>1. /\ pc[p] = "uvmcopy_map" /\ flags' = flags
        /\ Kalloc(loc[p].np, LeafOf[loc[p].cur], Zero)
        /\ pa[loc[p].np][LeafOf[loc[p].cur]] = None
    BY <1>5 DEF UvmcopyWalk, At, NeedsLeaf
  <2>2. loc[p].np \in Proc /\ loc[p].cur \in Page
    BY <2>1, Child DEF Building, Known, ThreadInv, LocalsOK, Paging
  <2>3. LeafOf[loc[p].cur] \in Slot
    BY <2>2, SlotAssumption, PageSlot
  <2> QED
    BY <2>1, <2>2, <2>3, TidyAlloc
<1>6. CASE UvmcopyMap(p)
  <2>1. pc[p] = "uvmcopy_map"
    BY <1>6 DEF UvmcopyMap, At
  <2>2. PICK c \in Proc, v \in Page :
          c = loc[p].np /\ c # p /\ c # None /\ v = loc[p].cur /\ pa[p][Pa] = pa[p][v]
    BY <2>1, ItsChild DEF Building, Known, ThreadInv, LocalsOK, Paging
  <2>3. /\ pa' = [pa EXCEPT ![c][v] = pa[p][Pa], ![p][Pa] = None]
        /\ flags' = [flags EXCEPT ![c][v] = flags[p][v]]
        /\ UNCHANGED Lists
    BY <1>6, <2>2 DEF UvmcopyMap, memory, Lists
  <2>4. pa[p][v] # None /\ pa[c][v] = None
    <3>1. v < sz[p] /\ MapsOnly(p, 0 .. sz[p] - 1) /\ MapsOnly(c, 0 .. v - 1)
      BY <2>1, <2>2 DEF Known, TablesInv, MapOK, ChildOK, Whole
    <3> QED
      BY <3>1, SizeType DEF MapsOnly, Mapped, Page, Known, ThreadInv
  <2>5. v \in Slot /\ Pa \in Slot /\ <<p, v>> # <<p, Pa>>
    BY PageSlot, NotPage
  <2>6. "PTE_W" \notin flags[p][v]
    BY <2>2, <2>4, <2>5 DEF Known, FrameInv, SharedReadOnly
  <2>7. MoveEffect(p, Pa, c, v)
    <3>1. flags \in [Proc -> [Page -> SUBSET Flag]]
      BY DEF Known, ThreadInv, TypeOK
    <3> QED
      BY <2>3, <2>6, <3>1 DEF MoveEffect
  <2> QED
    BY <2>2, <2>4, <2>7 DEF TidyEffect
<1>7. CASE UvmcopyErr(p)
  <2>1. CASE loc[p].cur < loc[p].lim
    <3>1. Unmap(p, loc[p].np, loc[p].cur) /\ limbo[p] = None
      BY <1>7, <2>1 DEF UvmcopyErr, At
    <3>2. loc[p].np \in Proc /\ loc[p].cur \in Page
      BY <1>7, <2>1, Child, LocFields, PageAssumption
         DEF UvmcopyErr, At, Building, Known, ThreadInv, Page
    <3>3. Kfree(p, loc[p].np, loc[p].cur) /\ FlagsShrink
      BY <3>1, <3>2, UnmapShrinks DEF Known, ThreadInv
    <3> QED
      BY <3>1, <3>2, <3>3, PageSlot, TidyFree
  <2>2. CASE ~(loc[p].cur < loc[p].lim)
    BY <1>7, <2>2 DEF UvmcopyErr, memory, TidyEffect, NoEffect, Lists
  <2> QED
    BY <2>1, <2>2
<1> QED
  BY <1>1, <1>2, <1>3, <1>4, <1>5, <1>6, <1>7 DEF ForkStep

LEMMA TidyExit ==
  ASSUME Known, NEW p \in Proc, ExitStep(p)
  PROVE  TidyEffect
<1>1. CASE Exit(p) \/ InitPanic(p) \/ FreeprocDone(p)
  BY <1>1 DEF Exit, InitPanic, FreeprocDone, memory, TidyEffect, NoEffect, Lists
<1>2. ASSUME NEW c \in Proc, Wait(p, c) PROVE TidyEffect
  BY <1>2 DEF Wait, memory, TidyEffect, NoEffect, Lists
<1>3. CASE Freeproc(p)
  <2>1. PICK c \in Proc : c = loc[p].np
    BY <1>3, Child DEF Freeproc, At, Building, Known
  <2>2. PICK s \in FreeNext(c) :
          IF s \in Page THEN Unmap(p, c, s) ELSE Kfree(p, c, s) /\ UNCHANGED flags
    BY <1>3, <2>1 DEF Freeproc
  <2>3. s \in Slot /\ limbo[p] = None
    BY <1>3, PageSlot DEF FreeNext, Freeproc, At
  <2>4. Kfree(p, c, s) /\ FlagsShrink
    BY <2>2, <2>3, UnmapShrinks DEF FlagsShrink, Known, ThreadInv
  <2> QED
    BY <2>3, <2>4, TidyFree
<1> QED
  BY <1>1, <1>2, <1>3 DEF ExitStep

LEMMA TidySbrk ==
  ASSUME Known, NEW p \in Proc, SbrkStep(p)
  PROVE  TidyEffect
<1>1. ASSUME NEW n \in 0 .. MaxPage, Grow(p, n) \/ Shrink(p, n) PROVE TidyEffect
  BY <1>1 DEF Grow, Shrink, memory, TidyEffect, NoEffect, Lists
<1>2. CASE Uvmalloc(p)
  <2>1. pa[p][Mem] = None /\ Kalloc(p, Mem, Zero) /\ flags' = flags
    BY <1>2, LocalsFree DEF Uvmalloc, At, HoldsMem
  <2> QED
    BY <2>1, PageSlot, TidyAlloc
<1>3. CASE UvmallocNoMem(p) \/ GrowDone(p)
  BY <1>3 DEF UvmallocNoMem, GrowDone, memory, TidyEffect, NoEffect, Lists
<1>4. CASE UvmallocWalk(p)
  <2>1. /\ Kalloc(p, LeafOf[loc[p].cur], Zero) /\ flags' = flags /\ loc[p].cur \in Page
        /\ pa[p][LeafOf[loc[p].cur]] = None
    BY <1>4 DEF UvmallocWalk, At, NeedsLeaf, Known, ThreadInv, LocalsOK, Paging
  <2>2. LeafOf[loc[p].cur] \in Slot
    BY <2>1, SlotAssumption, PageSlot
  <2> QED
    BY <2>1, <2>2, TidyAlloc
<1>5. CASE UvmallocMap(p)
  <2>1. PICK v \in Page : v = loc[p].cur
    BY <1>5 DEF UvmallocMap, At, Known, ThreadInv, LocalsOK, Paging
  <2>2. MoveEffect(p, Mem, p, v)
    <3>1. flags \in [Proc -> [Page -> SUBSET Flag]] /\ Mem # Pa
      BY SlotAssumption DEF Known, ThreadInv, TypeOK
    <3> QED
      BY <1>5, <2>1, <3>1 DEF UvmallocMap, MoveEffect, memory, Lists
  <2>3. pa[p][Mem] # None
    BY <1>5, LocalsFree DEF UvmallocMap, At, HoldsMem
  <2>4. pa[p][v] = None
    <3>1. MapsOnly(p, 0 .. v - 1)
      BY <1>5, <2>1 DEF UvmallocMap, At, Known, TablesInv, MapOK
    <3> QED
      BY <3>1 DEF MapsOnly, Mapped, Page
  <2> QED
    BY <2>2, <2>3, <2>4 DEF TidyEffect
<1>6. CASE UvmallocFail(p)
  <2>1. Kfree(p, p, Mem) /\ limbo[p] = None /\ FlagsShrink
    BY <1>6 DEF UvmallocFail, At, FlagsShrink
  <2> QED
    BY <2>1, PageSlot, TidyFree
<1>7. CASE Uvmdealloc(p)
  <2>1. CASE loc[p].cur < loc[p].lim
    <3>1. Unmap(p, p, loc[p].cur) /\ limbo[p] = None
      BY <1>7, <2>1 DEF Uvmdealloc, At
    <3>2. loc[p].cur \in Page
      BY <2>1, LocFields, PageAssumption DEF Known, ThreadInv, Page
    <3>3. Kfree(p, p, loc[p].cur) /\ FlagsShrink
      BY <3>1, <3>2, UnmapShrinks DEF Known, ThreadInv
    <3> QED
      BY <3>1, <3>2, <3>3, PageSlot, TidyFree
  <2>2. CASE ~(loc[p].cur < loc[p].lim)
    BY <1>7, <2>2 DEF Uvmdealloc, memory, TidyEffect, NoEffect, Lists
  <2> QED
    BY <2>1, <2>2
<1> QED
  BY <1>1, <1>2, <1>3, <1>4, <1>5, <1>6, <1>7 DEF SbrkStep

LEMMA SoundTidy ==
  ASSUME SoundInv, SoundNext
  PROVE  TidyEffect
<1>1. PICK p \in Proc : KfreePush(p) \/ Fault(p) \/ ForkStep(p) \/ ExitStep(p) \/ SbrkStep(p)
  BY DEF SoundNext, Next
<1>2. ~UvmcopyFail(p) /\ Known
  BY NoUvmcopyFail DEF SoundNext, SoundInv
<1>3. CASE KfreePush(p)
  BY <1>3 DEF TidyEffect
<1> QED
  BY <1>1, <1>2, <1>3, TidyFault, TidyFork, TidyExit, TidySbrk


\* A page that is free, or counted exactly.
ExactAt(f) ==
  \/ f \in freelist
  \/ \E p \in Proc : limbo[p] = f
  \/ Refs(f) # {} /\ useReference[f] = Cardinality(Refs(f))

\* The other pages keep their references and their counts.
LEMMA ExactOthers ==
  ASSUME TypeOK, NEW f \in Frame, ExactAt(f), Refs(f)' = Refs(f),
         useReference'[f] = useReference[f],
         f \in freelist => f \in freelist',
         (\E p \in Proc : limbo[p] = f) => f \in freelist' \/ \E p \in Proc : limbo'[p] = f
  PROVE  ExactAt(f)'
  BY DEF ExactAt

LEMMA ExactAlloc ==
  ASSUME Known, RefExact, NEW q \in Proc, NEW s \in Slot, pa[q][s] = None, AllocEffect(q, s)
  PROVE  RefExact'
<1>1. PICK f \in Heads(freelist) :
        /\ freelist' = freelist \ {f}
        /\ useReference' = [useReference EXCEPT ![f] = 1]
        /\ pa' = [pa EXCEPT ![q][s] = f]
        /\ limbo' = limbo
  BY DEF AllocEffect, Kalloc
<1>2. TypeOK /\ f \in freelist /\ f \in Frame
  BY <1>1, HeadsAssumption, PaType DEF Known, ThreadInv
<1>3. \A p \in Proc, t \in Slot : pa[p][t] # f
  BY <1>2 DEF Known, FrameInv, NoUseAfterFree
<1>4. \A p \in Proc, t \in Slot : pa'[p][t] = IF p = q /\ t = s THEN f ELSE pa[p][t]
  BY <1>1, <1>2, PaType
<1> SUFFICES ASSUME NEW g \in Frame PROVE ExactAt(g)'
  BY DEF RefExact, ExactAt
<1>5. CASE g = f
  <2>1. Refs(g)' = {<<q, s>>}
    BY <1>3, <1>4, <1>5 DEF Refs
  <2>2. Cardinality(Refs(g)') = 1
    BY <2>1, FS_Singleton
  <2>3. useReference'[g] = 1
    BY <1>1, <1>2, <1>5, PaType
  <2> QED
    BY <2>1, <2>2, <2>3 DEF ExactAt
<1>6. CASE g # f
  <2>1. Refs(g)' = Refs(g)
    BY <1>4, <1>6, FrameAssumption DEF Refs
  <2>2. useReference'[g] = useReference[g]
    BY <1>1, <1>2, <1>6, PaType
  <2>3. ExactAt(g)
    BY DEF RefExact, ExactAt
  <2> QED
    BY <1>1, <1>2, <1>6, <2>1, <2>2, <2>3, ExactOthers
<1> QED
  BY <1>5, <1>6

LEMMA ExactFree ==
  ASSUME Known, RefExact, NEW p \in Proc, NEW q \in Proc, NEW s \in Slot, FreeEffect(p, q, s)
  PROVE  RefExact'
<1> SUFFICES ASSUME NEW f, f = pa[q][s] PROVE RefExact'
  OBVIOUS
<1> DEFINE temp == useReference[f] - 1
<1>1. /\ f # None /\ freelist' = freelist
      /\ useReference' = [useReference EXCEPT ![f] = temp]
      /\ limbo' = [limbo EXCEPT ![p] = IF temp <= 0 THEN f ELSE None]
      /\ pa' = [pa EXCEPT ![q][s] = None]
      /\ limbo[p] = None
  BY DEF FreeEffect, Kfree, Unreferenced
<1>2. TypeOK /\ f \in Frame /\ useReference[f] \in Int
  BY <1>1, PaType DEF Known, ThreadInv
<1>3. \A r \in Proc, t \in Slot : pa'[r][t] = IF r = q /\ t = s THEN None ELSE pa[r][t]
  BY <1>1, <1>2, PaType
<1>4. \A r \in Proc : limbo'[r] = IF r = p THEN (IF temp <= 0 THEN f ELSE None) ELSE limbo[r]
  BY <1>1, <1>2, PaType
<1> SUFFICES ASSUME NEW g \in Frame PROVE ExactAt(g)'
  BY DEF RefExact, ExactAt
<1>5. CASE g = f
  <2>1. Refs(f)' = Refs(f) \ {<<q, s>>} /\ <<q, s>> \in Refs(f)
    BY <1>1, <1>3 DEF Refs
  <2>2. Cardinality(Refs(f)') = Cardinality(Refs(f)) - 1 /\ Cardinality(Refs(f)) \in Nat
    BY <2>1, RefsFinite, FS_RemoveElement
  <2>3. f \notin freelist /\ \A r \in Proc : limbo[r] # f
    BY <1>1 DEF Known, FrameInv, NoUseAfterFree
  <2>4. useReference[f] = Cardinality(Refs(f))
    BY <1>2, <2>3 DEF RefExact
  <2>5. CASE temp <= 0
    BY <1>4, <1>5, <2>5 DEF ExactAt
  <2>6. CASE ~(temp <= 0)
    <3>1. useReference'[f] = Cardinality(Refs(f)')
      BY <1>1, <1>2, <2>2, <2>4, PaType
    <3>2. Cardinality(Refs(f)') # 0
      BY <1>2, <2>2, <2>4, <2>6
    <3>3. Refs(f)' # {}
      BY <3>2, FS_EmptySet
    <3> QED
      BY <1>5, <3>1, <3>3 DEF ExactAt
  <2> QED
    BY <2>5, <2>6
<1>6. CASE g # f
  <2>1. Refs(g)' = Refs(g)
    BY <1>3, <1>6, FrameAssumption DEF Refs
  <2>2. useReference'[g] = useReference[g]
    BY <1>1, <1>2, <1>6, PaType
  <2>3. \A r \in Proc : limbo[r] = g => limbo'[r] = g
    BY <1>1, <1>4, FrameAssumption
  <2>4. ExactAt(g)
    BY DEF RefExact, ExactAt
  <2> QED
    BY <1>1, <1>2, <2>1, <2>2, <2>3, <2>4, ExactOthers
<1> QED
  BY <1>5, <1>6

LEMMA ExactPush ==
  ASSUME Known, RefExact, NEW p \in Proc, KfreePush(p)
  PROVE  RefExact'
<1>1. /\ limbo[p] # None /\ freelist' = freelist \cup {limbo[p]}
      /\ limbo' = [limbo EXCEPT ![p] = None]
      /\ useReference' = useReference /\ pa' = pa
  BY DEF KfreePush
<1>2. TypeOK
  BY DEF Known, ThreadInv
<1>3. \A r \in Proc : r # p => limbo'[r] = limbo[r]
  BY <1>1, <1>2, PaType
<1> SUFFICES ASSUME NEW g \in Frame PROVE ExactAt(g)'
  BY DEF RefExact, ExactAt
<1>4. Refs(g)' = Refs(g)
  BY <1>1 DEF Refs
<1>5. (\E r \in Proc : limbo[r] = g) => g \in freelist' \/ \E r \in Proc : limbo'[r] = g
  BY <1>1, <1>3
<1>6. ExactAt(g)
  BY DEF RefExact, ExactAt
<1> QED
  BY <1>1, <1>2, <1>4, <1>5, <1>6, ExactOthers

LEMMA ExactShare ==
  ASSUME Known, RefExact, NEW p \in Proc, NEW v \in Page, pa[p][Pa] = None, ShareEffect(p, v)
  PROVE  RefExact'
<1> SUFFICES ASSUME NEW f, f = pa[p][v] PROVE RefExact'
  OBVIOUS
<1>1. /\ f # None /\ freelist' = freelist /\ limbo' = limbo
      /\ pa' = [pa EXCEPT ![p][Pa] = f]
      /\ useReference' = [useReference EXCEPT ![f] = @ + 1]
  BY DEF ShareEffect, CountReference
<1>2. TypeOK /\ v \in Slot /\ Pa \in Slot /\ v # Pa /\ f \in Frame
  BY <1>1, PageSlot, NotPage, PaType DEF Known, ThreadInv
<1>3. \A r \in Proc, t \in Slot : pa'[r][t] = IF r = p /\ t = Pa THEN f ELSE pa[r][t]
  BY <1>1, <1>2, PaType
<1> SUFFICES ASSUME NEW g \in Frame PROVE ExactAt(g)'
  BY DEF RefExact, ExactAt
<1>4. CASE g = f
  <2>1. Refs(f)' = Refs(f) \cup {<<p, Pa>>} /\ <<p, Pa>> \notin Refs(f)
    BY <1>1, <1>2, <1>3 DEF Refs
  <2>2. Cardinality(Refs(f)') = Cardinality(Refs(f)) + 1
    BY <2>1, RefsFinite, FS_AddElement
  <2>3. f \notin freelist /\ \A r \in Proc : limbo[r] # f
    BY <1>1, <1>2 DEF Known, FrameInv, NoUseAfterFree
  <2>4. useReference[f] = Cardinality(Refs(f))
    BY <1>2, <2>3 DEF RefExact
  <2>5. useReference'[f] = useReference[f] + 1
    BY <1>1, <1>2, PaType
  <2> QED
    BY <1>4, <2>1, <2>2, <2>4, <2>5 DEF ExactAt
<1>5. CASE g # f
  <2>1. Refs(g)' = Refs(g)
    BY <1>2, <1>3, <1>5, FrameAssumption DEF Refs
  <2>2. useReference'[g] = useReference[g]
    BY <1>1, <1>2, <1>5, PaType
  <2>3. ExactAt(g)
    BY DEF RefExact, ExactAt
  <2> QED
    BY <1>1, <1>2, <2>1, <2>2, <2>3, ExactOthers
<1> QED
  BY <1>4, <1>5

LEMMA ExactMove ==
  ASSUME Known, RefExact, NEW p \in Proc, NEW q \in Proc, NEW t \in {Mem, Pa}, NEW v \in Page,
         pa[p][t] # None, pa[q][v] = None, MoveEffect(p, t, q, v)
  PROVE  RefExact'
<1> SUFFICES ASSUME NEW f, f = pa[p][t] PROVE RefExact'
  OBVIOUS
<1>1. /\ freelist' = freelist /\ limbo' = limbo /\ useReference' = useReference
      /\ pa' = [pa EXCEPT ![q][v] = f, ![p][t] = None] /\ f # None
  BY DEF MoveEffect, Lists
<1>2. TypeOK /\ v \in Slot /\ t \in Slot /\ t # v
  BY PageSlot, NotPage DEF Known, ThreadInv
<1>3. \A r \in Proc, s \in Slot :
        pa'[r][s] = IF r = p /\ s = t THEN None ELSE IF r = q /\ s = v THEN f ELSE pa[r][s]
  BY <1>1, <1>2, PaType
<1> SUFFICES ASSUME NEW g \in Frame PROVE ExactAt(g)'
  BY DEF RefExact, ExactAt
<1>4. ExactAt(g)
  BY DEF RefExact, ExactAt
<1>5. CASE g = f
  <2> DEFINE R == Refs(f) \ {<<p, t>>}
  <2>1. /\ Refs(f)' = R \cup {<<q, v>>} /\ <<q, v>> \notin R /\ <<p, t>> \in Refs(f)
    <3>1. <<p, t>> \in Refs(f) /\ <<q, v>> \notin Refs(f)
      BY <1>1, <1>2 DEF Refs
    <3>2. \A r \in Proc, s \in Slot :
            pa'[r][s] = f <=> (~(r = p /\ s = t) /\ pa[r][s] = f) \/ (r = q /\ s = v)
      <4> SUFFICES ASSUME NEW r \in Proc, NEW s \in Slot
                   PROVE  pa'[r][s] = f <=> (~(r = p /\ s = t) /\ pa[r][s] = f)
                                            \/ (r = q /\ s = v)
        OBVIOUS
      <4>1. f # None /\ t # v
        BY <1>1, <1>2
      <4> QED
        BY <1>3, <4>1
    <3>3. Refs(f)' = R \cup {<<q, v>>}
      BY <1>2, <3>2 DEF Refs
    <3> QED
      BY <3>1, <3>3
  <2>2. IsFiniteSet(R) /\ Cardinality(R) = Cardinality(Refs(f)) - 1 /\ Cardinality(Refs(f)) \in Nat
    BY <2>1, RefsFinite, FS_RemoveElement
  <2>3. Cardinality(Refs(f)') = Cardinality(R) + 1
    <3> HIDE DEF R
    <3> QED
      BY <2>1, <2>2, FS_AddElement
  <2>4. Cardinality(Refs(f)') = Cardinality(Refs(f)) /\ Refs(f)' # {}
    BY <2>1, <2>2, <2>3
  <2> QED
    BY <1>1, <1>4, <1>5, <2>4 DEF ExactAt
<1>6. CASE g # f
  <2>1. \A r \in Proc, s \in Slot : pa'[r][s] = g <=> pa[r][s] = g
    <3> SUFFICES ASSUME NEW r \in Proc, NEW s \in Slot PROVE pa'[r][s] = g <=> pa[r][s] = g
      OBVIOUS
    <3>1. g # None /\ f # g
      BY <1>6, FrameAssumption
    <3> QED
      BY <1>3, <3>1
  <2>2. Refs(g)' = Refs(g)
    BY <2>1 DEF Refs
  <2> QED
    BY <1>1, <1>2, <1>4, <2>2, ExactOthers
<1> QED
  BY <1>5, <1>6

LEMMA ExactNone ==
  ASSUME RefExact, UNCHANGED <<freelist, useReference, limbo, pa>>
  PROVE  RefExact'
  BY DEF RefExact, Refs

LEMMA ExactStep ==
  ASSUME SoundInv, RefExact, [SoundNext]_vars
  PROVE  RefExact'
<1>1. Known
  BY DEF SoundInv
<1>2. CASE UNCHANGED vars \/ NoEffect
  BY <1>2, ExactNone DEF vars, memory, NoEffect, Lists
<1>3. CASE SoundNext
  <2>1. TidyEffect
    BY <1>3, SoundTidy
  <2> QED
    BY <1>1, <1>2, <2>1, ExactAlloc, ExactFree, ExactPush, ExactShare, ExactMove
       DEF TidyEffect
<1> QED
  BY <1>2, <1>3

\* Memory starts with every page on the free list or in a slot of the first process.
AllOthersFree == \A S \in InitFree, f \in Frame : f \in S \/ \E s \in Slot : InitPa[s] = f

LEMMA InitExact ==
  ASSUME AllOthersFree, Init
  PROVE  RefExact
<1> SUFFICES ASSUME NEW f \in Frame, f \notin freelist
             PROVE  Refs(f) # {} /\ useReference[f] = Cardinality(Refs(f))
  BY DEF RefExact
<1>1. useReference[f] = 1
  BY DEF Init
<1>2. PICK s \in Slot : InitPa[s] = f
  BY DEF AllOthersFree, Init
<1>3. \A r \in Proc, t \in Slot : pa[r][t] = f <=> r = InitProc /\ t = s
  <2>1. \A r \in Proc, t \in Slot : pa[r][t] = IF r = InitProc THEN InitPa[t] ELSE None
    BY DEF Init
  <2> QED
    BY <1>2, <2>1, InitAssumption, FrameAssumption
<1>4. Refs(f) = {<<InitProc, s>>}
  BY <1>3, ProcAssumption DEF Refs
<1>5. Cardinality(Refs(f)) = 1
  BY <1>4, FS_Singleton
<1> QED
  BY <1>1, <1>4, <1>5

\* Each page is free, on its way to the free list, or counted exactly: but for the reference
\* that uvmcopy() forgets, kfree() gives every page back, after every other failure of kalloc()
\* and for every number of processes, pages and frames (kernel/kalloc.c, kfree(); kernel/vm.c:310,
\* "frees any allocated pages on failure").
THEOREM CountsExact ==
  ASSUME AllOthersFree
  PROVE  SoundSpec => []RefExact
<1>1. Init => RefExact
  BY InitExact
<1>2. SoundInv /\ RefExact /\ [SoundNext]_vars => RefExact'
  BY ExactStep
<1> QED
  BY <1>1, <1>2, AlwaysSound, PTL DEF SoundSpec
=============================================================================
