--------------------------------- MODULE MCProc ---------------------------------
(***************************************************************************)
(* Instances of ProcTable for TLC.                                          *)
(***************************************************************************)
EXTENDS ProcTable

\* One program sleeps: the others are enough to keep it waiting.
OneSleeper == [p \in Proc |-> IF p = 2 THEN {1} ELSE {}]

\* No program sleeps.
NoSleeps == [p \in Proc |-> {}]

=============================================================================
