------------------------------- MODULE BlockStore -------------------------------
(***************************************************************************)
(* What the buffer cache and the disk driver promise together: every block  *)
(* has one value, changed only by the process that has the block, and a     *)
(* block has one owner at a time.                                           *)
(***************************************************************************)
CONSTANTS Proc, Block, Value, None

VARIABLES value, owner

store == <<value, owner>>

StoreInit == value \in [Block -> Value] /\ owner = [b \in Block |-> None]

Take(p, b) == owner[b] = None /\ owner' = [owner EXCEPT ![b] = p] /\ UNCHANGED value
Set(p, b, v) == owner[b] = p /\ value' = [value EXCEPT ![b] = v] /\ UNCHANGED owner
Give(p, b) == owner[b] = p /\ owner' = [owner EXCEPT ![b] = None] /\ UNCHANGED value

StoreNext == \E p \in Proc, b \in Block : Take(p, b) \/ Give(p, b) \/ \E v \in Value : Set(p, b, v)

StoreSpec == StoreInit /\ [][StoreNext]_store

=============================================================================
