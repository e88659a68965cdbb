------------------------------- MODULE CowPrivate -------------------------------
(***************************************************************************)
(* CowMemory implements PrivateMemory, but for the steps of the findings:    *)
(* copy-on-write is invisible to the programs.                              *)
(***************************************************************************)
EXTENDS CowMemory

\* Processes that run a program: not an entry that another process fills or
\* releases, not a zombie.
Running == {p \in Proc : pc[p] \notin {"unused", "embryo", "zombie", "reaped", "panic"}}

\* The page of p's memory at v.  Between the kfree() of the shared page and the
\* new PTE it is the copy.
Backing(p, v) == IF pc[p] = "cow_map" /\ v = loc[p].cur THEN pa[p][Mem] ELSE pa[p][v]

\* The size p has after the system call it is in: a page is gone as soon as
\* uvmdealloc() begins, and there only when uvmalloc() has succeeded.
VisibleSize(p) == IF pc[p] = "uvmdealloc" THEN loc[p].newsz ELSE sz[p]

View(p, v) ==
  IF p \in Running /\ v < VisibleSize(p) THEN mem[Backing(p, v)] ELSE None

Private == INSTANCE PrivateMemory WITH
             alive <- Running,
             view <- [p \in Proc |-> [v \in Page |-> View(p, v)]]

\* Every step of the kernel is a step of PrivateMemory or changes nothing that
\* a program can see: a parent, a child or a sibling never reads a store of
\* another process made after the fork, and fork() copies one moment's memory
\* although uvmcopy() walks it page by page.
PrivateSpec == Private!Spec

\* The steps of the code that break it: copyout() goes on to a shared page when there is no
\* memory for its copy (the process is killed, vm.c:399, and the bytes are stored all the
\* same), or when the page is read-only and not marked (ReadOnlyConstant), and uvmcopy() forgets the page that it has counted (RefExact).
StoresShared(p) ==
  /\ pc[p] = "copyout" /\ pc'[p] = "copyout_write"
  /\ ~Writable(p, loc[p].cur) /\ (OutOfMemory \/ "PTE_RSW" \notin flags[p][loc[p].cur])
LeaksPage(p) == pc[p] = "uvmcopy_map" /\ pc'[p] = "uvmcopy_err"

\* Whatever else the kernel does, when kalloc() fails too.
SoundNext == Next /\ \A p \in Proc : ~StoresShared(p) /\ ~LeaksPage(p)
SoundSpec == Init /\ [][SoundNext]_vars
=============================================================================
