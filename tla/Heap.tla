---------------------------------- MODULE Heap ----------------------------------
(***************************************************************************)
(* The allocator of the user programs (user/umalloc.c): a circular list of   *)
(* free blocks in the order of their addresses.  Addresses and sizes are in  *)
(* units of a Header.                                                        *)
(***************************************************************************)
EXTENDS Integers, FiniteSets

CONSTANTS NUNITS,     \* what morecore() asks for at least, 4096 in the code
          Start,      \* the program break at the beginning, above &base
          Limit,      \* bound: sbrk() fails beyond it
          Sizes       \* units that are asked for, the header among them

HeapAssumption ==
  /\ NUNITS \in Nat \ {0} /\ Start \in Nat \ {0, 1} /\ Limit \in Nat
  /\ Sizes \subseteq Nat \ {0}

VARIABLES heap,       \* size and s.ptr per header, freep, and the program break
          used,       \* the blocks that malloc() has returned
          mine        \* history: the units that morecore() has got

heapVars == <<heap, used, mine>>

base == 0
Unit == 0 .. Limit - 1
Null == -1

HeapInit ==
  /\ heap = [size |-> [a \in Unit |-> 0], ptr |-> [a \in Unit |-> Null],
             freep |-> Null, top |-> Start]
  /\ used = {} /\ mine = {}

-----------------------------------------------------------------------------
(* free()                                                                  *)

\* Between p and the next block, or at the end of the list.
Between(h, p, bp) ==
  LET q == h.ptr[p] IN (bp > p /\ bp < q) \/ (p >= q /\ (bp > p \/ bp < q))

RECURSIVE Place(_, _, _)
Place(h, p, bp) == IF Between(h, p, bp) THEN p ELSE Place(h, h.ptr[p], bp)

\* Mutant: the block is not joined to the one below it.
JoinLowerNot(h, p, bp) == [h EXCEPT !.ptr[p] = bp, !.freep = p]

JoinUpper(h, p, bp) ==
  LET q == h.ptr[p] IN
  IF bp + h.size[bp] = q
  THEN [h EXCEPT !.size = [@ EXCEPT ![bp] = @ + h.size[q], ![q] = 0],
                 !.ptr = [@ EXCEPT ![bp] = h.ptr[q], ![q] = Null]]
  ELSE [h EXCEPT !.ptr[bp] = q]

JoinLower(h, p, bp) ==
  IF p + h.size[p] = bp
  THEN [h EXCEPT !.size = [@ EXCEPT ![p] = @ + h.size[bp], ![bp] = 0],
                 !.ptr = [@ EXCEPT ![p] = h.ptr[bp], ![bp] = Null],
                 !.freep = p]
  ELSE [h EXCEPT !.ptr[p] = bp, !.freep = p]

Freed(h, bp) == LET p == Place(h, h.freep, bp) IN JoinLower(JoinUpper(h, p, bp), p, bp)

Free(bp) ==
  /\ bp \in used
  /\ heap' = Freed(heap, bp)
  /\ used' = used \ {bp}
  /\ UNCHANGED mine

-----------------------------------------------------------------------------
(* malloc()                                                                *)

Ready(h) == IF h.freep = Null THEN [h EXCEPT !.freep = base, !.ptr[base] = base] ELSE h

\* The block before the first, from freep on, that is large enough; or Null.
RECURSIVE Fit(_, _, _)
Fit(h, prevp, n) ==
  LET p == h.ptr[prevp] IN
  IF h.size[p] >= n THEN prevp ELSE IF p = h.freep THEN Null ELSE Fit(h, p, n)

\* The whole block, or its upper end: its address, and what becomes of the heap.
Carved(h, prevp, n) == LET p == h.ptr[prevp] IN p + h.size[p] - n
Taken(h, prevp, n) ==
  LET p == h.ptr[prevp] IN
  IF h.size[p] = n
  THEN [h EXCEPT !.ptr = [@ EXCEPT ![prevp] = h.ptr[p], ![p] = Null], !.freep = prevp]
  ELSE [h EXCEPT !.size = [@ EXCEPT ![p] = @ - n, ![p + h.size[p] - n] = n], !.freep = prevp]

Malloc(n) ==
  LET h == Ready(heap) prevp == Fit(h, h.freep, n) IN
  /\ prevp # Null
  /\ heap' = Taken(h, prevp, n)
  /\ used' = used \cup {Carved(h, prevp, n)}
  /\ UNCHANGED mine

\* morecore(): the new block goes through free().
Units(n) == IF n < NUNITS THEN NUNITS ELSE n
More(h, n) == Freed([h EXCEPT !.size[h.top] = Units(n), !.top = @ + Units(n)], h.top)

MallocMore(n) ==
  LET r == Ready(heap)
      h == More(r, n)
      prevp == Fit(h, h.freep, n)
  IN /\ Fit(r, r.freep, n) = Null
     /\ r.top + Units(n) <= Limit
     /\ heap' = Taken(h, prevp, n)
     /\ used' = used \cup {Carved(h, prevp, n)}
     /\ mine' = mine \cup (r.top .. r.top + Units(n) - 1)

MallocFails(n) ==
  LET h == Ready(heap) IN
  /\ Fit(h, h.freep, n) = Null
  /\ h.top + Units(n) > Limit
  /\ heap' = h
  /\ UNCHANGED <<used, mine>>

\* The program calls sbrk() itself, and keeps that memory.
Sbrk ==
  /\ heap.top < Limit
  /\ heap' = [heap EXCEPT !.top = @ + 1]
  /\ UNCHANGED <<used, mine>>

HeapNext ==
  \/ \E n \in Sizes : Malloc(n) \/ MallocMore(n) \/ MallocFails(n)
  \/ \E bp \in used : Free(bp)
  \/ Sbrk

-----------------------------------------------------------------------------

RECURSIVE Listed(_, _)
Listed(p, seen) == IF p \in seen THEN seen ELSE Listed(heap.ptr[p], seen \cup {p})

FreeBlocks == IF heap.freep = Null THEN {} ELSE Listed(heap.freep, {}) \ {base}
Extent(b) == b .. b + heap.size[b] - 1

\* Every unit that the allocator has got belongs to one block, free or in use: none
\* overlap and none is lost.  The free list is a circle through all of the free
\* blocks in the order of their addresses, and no two of them could be one.
HeapExact ==
  /\ UNION {Extent(b) : b \in FreeBlocks \cup used} = mine
  /\ \A b, c \in FreeBlocks \cup used : b # c => Extent(b) \cap Extent(c) = {}
  /\ FreeBlocks \cap used = {}
  /\ \A b \in FreeBlocks :
       /\ heap.ptr[b] = base \/ heap.ptr[b] > b + heap.size[b]
       /\ heap.size[b] > 0

=============================================================================
