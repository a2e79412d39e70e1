------------------------------ MODULE MCChrDev ------------------------------
(* Instances of ChrDev for TLC. *)
EXTENDS ChrDev, TLC

\* Processes are alike; one byte is 0.
Alike == Permutations(Procs)

=============================================================================
