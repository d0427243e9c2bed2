------------------------------ MODULE MCMutex ------------------------------
(***************************************************************************)
(* Mutex for TLC: four tasks of the priorities 1 to 4.                     *)
(***************************************************************************)
EXTENDS Mutex

Rising == [t \in Task |-> t]
=============================================================================
