-------------------------------- MODULE MCInodes --------------------------------
(***************************************************************************)
(* Instances of Inodes for TLC: one name, in the working directory, and the *)
(* way up from there.                                                      *)
(***************************************************************************)
EXTENDS Inodes

MCPath == {<<n>> : n \in Name}
MCPathUp == MCPath \cup {<<"..">>}

=============================================================================
