------------------------------ MODULE MCMread -------------------------------
(***************************************************************************)
(* Two instances of MreadSockets for TLC, checked in one run: with few     *)
(* connections, more descriptors and a failure, and with Many, which use   *)
(* every slot and a slot after that.  A behaviour keeps to one of them.    *)
(***************************************************************************)
EXTENDS MreadSockets, TLC

VARIABLE crowd

Many == INSTANCE MreadSockets WITH Fds <- {1, 5}, MaxConnects <- 4, MaxFailures <- 0

mreadVars == <<crowd, msVars>>

MreadInit == crowd \in {"few", "many"} /\ MsInit

MreadNext ==
    /\ UNCHANGED crowd
    /\ \/ crowd = "few" /\ MsNext
       \/ crowd = "many" /\ Many!MsNext

MreadSpec == MreadInit /\ [][MreadNext]_mreadVars

\* Connections are alike.
Alike == Permutations(Conns)

=============================================================================
