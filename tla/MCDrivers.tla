----------------------------- MODULE MCDrivers ------------------------------
(***************************************************************************)
(* The drivers snull, sbull, short and shortprint, checked in one run.     *)
(* They share nothing: a behaviour picks one of them and steps it only.    *)
(***************************************************************************)
EXTENDS LddDrivers, ShortIrq, TLC

VARIABLE driver

driversVars == <<driver, snVars, shVars, spVars, sbVars>>

DriversInit ==
    /\ driver \in {"snull", "short", "shortprint", "sbull"}
    /\ SnInit /\ ShInit /\ SpInit /\ SbInit
    \* The choices of the others do not matter.
    /\ driver # "snull" => napi /\ load = CHOOSE l \in Loads : TRUE
    /\ driver # "short" => halves
    /\ driver # "sbull" => bios

DriversNext ==
    /\ UNCHANGED driver
    /\ \/ driver = "snull" /\ SnNext /\ UNCHANGED <<shVars, spVars, sbVars>>
       \/ driver = "short" /\ ShNext /\ UNCHANGED <<snVars, spVars, sbVars>>
       \/ driver = "shortprint" /\ SpNext /\ UNCHANGED <<snVars, shVars, sbVars>>
       \/ driver = "sbull" /\ SbNext /\ UNCHANGED <<snVars, shVars, spVars>>

DriversSpec == DriversInit /\ [][DriversNext]_driversVars

\* No buffer, ring position or skb is lost, used twice or freed twice, but
\* through the windows that SnPoolNotEmpty and SnFreedOnce name
\* (snull.c:159, 214, 547).
BuffersConserved == SnTypeOK /\ SnBuffersConserved /\ SnPoolNotEmpty /\ SnFreedOnce /\ ShTypeOK /\ SpTypeOK

\* What goes out and what is reported keeps its order, each once, and counts
\* run ahead of the interrupts only by what the unlocked increment stores
\* again after a reset (short_bottom_half, shortp_do_write, short.c:422).
LinesInOrder == ShTimesInOrder /\ ShCountsNoMore /\ SpPrintsInOrder

\* Neither a queue of the network, nor a reader of short, nor a process that
\* writes to the printer or closes it, is left asleep when it could go on; and
\* whatever is under way has something coming that takes it further: an
\* interrupt, a poll, a work item or a timer (snull.c:320, shortprint.c:336),
\* but for an interface whose receive interrupts were disabled while it was
\* down (snull.c:405).
DriverSleepersNotForgotten ==
    /\ SnQueueNotForgotten /\ ShReadersNotForgotten /\ SpSleepersNotForgotten
    /\ SnPacketsAwaited /\ SpOutputStarted /\ SpSomethingComing

\* The disk keeps what its users write, but for segments of other lengths than
\* the first of their bio (sbull.c:138-140), and timers are added once and
\* find nobody, but for the races of sbull.c:210 and shortprint.c:384.
DiskKept == SbTypeOK /\ SbMediumKept /\ SbTimerSane /\ SpTimerAddedOnce

\* Readers are alike.
Alike == Permutations(ShReaders)

\* Two devices that both send, and one that only receives.
LightLoads == {<<1, {0, 1}>>, <<2, {0}>>, <<3, {0}>>}
=============================================================================
