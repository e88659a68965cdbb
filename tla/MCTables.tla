-------------------------------- MODULE MCTables --------------------------------
(***************************************************************************)
(* An instance, for TLC, of the process table, and of the inode table with   *)
(* the file-system calls.  They are checked side by side: active says which  *)
(* one runs, the other rests.                                               *)
(***************************************************************************)
EXTENDS ProcTable, Inodes, TLC

VARIABLE active

\* Every program may give up its turn, or sleep.
AnySleeps == [p \in Proc |-> {0, 1}]

\* Names in the working directory, which any directory may be, a removed one too.
MCPath == {<<n>> : n \in Name}

ASSUME InodesAssumption /\ PathsGoDown

TablesInit == Init /\ InodesInit /\ active \in {"processes", "inodes"}

TablesNext ==
  /\ UNCHANGED active
  /\ \/ active = "processes" /\ Next /\ UNCHANGED inodeVars
     \/ active = "inodes" /\ InodesNext /\ UNCHANGED vars

TablesSpec == TablesInit /\ [][TablesNext]_<<active, vars, inodeVars>>

\* The users of the file system are alike, and so are the names.
Alike == Permutations(Process) \cup Permutations(Name)

=============================================================================
