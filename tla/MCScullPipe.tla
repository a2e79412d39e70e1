---------------------------- MODULE MCScullPipe -----------------------------
(* Instances of ScullPipe for TLC. *)
EXTENDS ScullPipe, TLC

\* Processes are alike, and so are bytes.
Alike == Permutations(Procs) \cup Permutations(Bytes)

=============================================================================
