--------------------------------- MODULE MCCow ---------------------------------
(***************************************************************************)
(* Instances of CowMemory for TLC.  Frames are numbers and kalloc() pops    *)
(* the least free one: the model treats all free pages alike, so another    *)
(* choice leads to the same states with the pages renamed.                  *)
(***************************************************************************)
EXTENDS CowPrivate

CONSTANTS root, leaf0, leaf1, NumFrames

MCFrame == 1 .. NumFrames
MCHeads(S) == {f \in S : \A g \in S : f <= g}
OneLeaf == [v \in Page |-> leaf0]
TwoLeaves == [v \in Page |-> IF v = 0 THEN leaf0 ELSE leaf1]
AllWritable == [v \in Page |-> {"PTE_U", "PTE_W"}]
\* exec() maps the text segment of the shipped programs without PTE_W.
TextFirst == [v \in Page |-> IF v = 0 THEN {"PTE_U"} ELSE {"PTE_U", "PTE_W"}]

\* Frames 1, 2 and 3 hold the trapframe and the page table, the rest the pages.
MCInitPa ==
  [s \in Slot |-> CASE s = Trapframe -> 1
                    [] s = root -> 2
                    [] s = leaf0 -> 3
                    [] s \in 0 .. InitSz - 1 -> 4 + s
                    [] OTHER -> None]

\* Every other page is free, or only some of them are.
Used == {MCInitPa[s] : s \in Slot}
AllFree == {MCFrame \ Used}
SomeFree == {(n .. NumFrames) \ Used : n \in MCFrame}

\* States that differ only in which page holds what are one state: kalloc()
\* treats all free pages alike, and a page that nothing refers to is either
\* free, in limbo or lost for good.
Shape ==
  << {<<Refs(f), useReference[f], mem[f]>> : f \in {g \in Frame : Refs(g) # {}}},
     Cardinality(freelist), {p \in Proc : limbo[p] # None},
     flags, sz, parent, killed, pc, loc >>

\* The bound on the counts that failing forks leak.
MaxCount == 4
CountBound == \A f \in Frame : useReference[f] <= MaxCount

=============================================================================
