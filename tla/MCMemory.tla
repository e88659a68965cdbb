--------------------------------- MODULE MCMemory ---------------------------------
(***************************************************************************)
(* An instance, for TLC, of CowMemory when pages are few, and of traps on    *)
(* two harts.  They are checked side by side: active says which one runs,    *)
(* the other rests.                                                         *)
(***************************************************************************)
EXTENDS MCCow, Trap, TLC

VARIABLE active

MemoryInit ==
  /\ Init /\ TrapInit
  /\ \/ active = "memory"
     \/ active = "traps" /\ \A S \in InitFree : freelist \subseteq S

MemoryNext ==
  /\ UNCHANGED active
  /\ \/ active = "memory" /\ Next /\ UNCHANGED trapVars
     \/ active = "traps" /\ TrapNext /\ UNCHANGED vars

MemorySpec == MemoryInit /\ [][MemoryNext]_<<active, vars, trapVars>>

\* The processes that are trapped are alike, and so are the harts.
Alike == Permutations(Process) \cup Permutations(Hart)
AllShape == IF active = "memory" THEN Shape ELSE trapVars

=============================================================================
