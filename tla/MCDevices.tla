----------------------------- MODULE MCDevices ------------------------------
(***************************************************************************)
(* The character devices ScullDev, PagedScull and the three FifoDrivers,   *)
(* checked in one run.  They share nothing: a behaviour picks one of them  *)
(* and steps it only.                                                      *)
(***************************************************************************)
EXTENDS ScullDev, PagedScull, FifoDrivers, TLC

VARIABLE device

devicesVars == <<device, scullVars, psVars, gfVars, kfVars, ctVars>>

DevicesInit ==
    /\ device \in {"scull", "paged", "globalfifo", "scull_kfifo", "ctest"}
    /\ ScullInit /\ PsInit /\ GfInit /\ KfInit /\ CtInit
    \* What the pages of ctest hold first, and which of the paged drivers there
    \* is, does not matter to the others.
    /\ device # "ctest" => ctMem = [i \in DOMAIN ctMem |-> CHOOSE x \in CtBytes : TRUE]
    /\ device # "paged" => psDriver = "scullp"
    \* As they are loaded: scullv.h:52 has an order, scullp.h:52 none.
    /\ psParam = IF psDriver = "scullv" THEN <<2, 1>> ELSE <<1, 2>>

DevicesNext ==
    /\ UNCHANGED device
    /\ \/ device = "scull" /\ ScullNext /\ UNCHANGED <<psVars, gfVars, kfVars, ctVars>>
       \/ device = "paged" /\ PsNext /\ UNCHANGED <<scullVars, gfVars, kfVars, ctVars>>
       \/ device = "globalfifo" /\ GfNext /\ UNCHANGED <<scullVars, psVars, kfVars, ctVars>>
       \/ device = "scull_kfifo" /\ KfNext /\ UNCHANGED <<scullVars, psVars, gfVars, ctVars>>
       \/ device = "ctest" /\ CtNext /\ UNCHANGED <<scullVars, psVars, gfVars, kfVars>>

DevicesSpec == DevicesInit /\ [][DevicesNext]_devicesVars

\* Every call stays inside what was allocated, and every variable in its range
\* (scull_read, scull_write, scull_trim, globalfifo_write, kfifo_put); so do
\* ctest's, whose poll tells who may go on (ctest.c:121) -- scull unless it
\* computes with a geometry that another process has replaced; and the paged ones
\* not when they look for an item of the list that cannot be allocated
\* (scullp_follow, main.c:155).  And
\* what is mapped of a paged device is that device, and no page is lost, unless
\* its counter of mappings was raced for (scullp_trim, scullp_vma_open).
MemoryKept ==
    /\ device = "scull" => ScullTypeOK /\ ScullWithinBounds /\ ScullSizeCovered
    /\ device = "paged" => PsTypeOK /\ PsWithinBounds /\ MappingShowsDevice /\ PagesCounted
    /\ device = "globalfifo" => GfTypeOK
    /\ device = "scull_kfifo" => KfTypeOK
    /\ device = "ctest" => CtTypeOK /\ CtPollHonest

\* Nobody in the wait queues of globalfifo, scull_kfifo and ctest sleeps through
\* what he waits for, and a queue is changed under its lock, up to the exceptions
\* that GfSleepersNotForgotten and CtSleepersNotForgotten (a clear, ctest.c:85),
\* GfListsAlone and CtListsAlone (readers that leave: globalfifo.c:164,
\* ctest.c:161, 213) name.
SleepersNotForgotten ==
    /\ GfSleepersNotForgotten /\ GfListsAlone
    /\ KfSleepersNotForgotten
    /\ CtSleepersNotForgotten /\ CtListsAlone

\* The three are FIFOs: bytes leave from the head, in order, each once, but for a
\* clear, a reset and a copy to the user that fails (scull_kfifo.c:92).
FifosInOrder ==
    [][ /\ device = "globalfifo" => GfStepInOrder
        /\ device = "scull_kfifo" => KfStepInOrder
        /\ device = "ctest" => CtStepInOrder ]_<<mem, kfifo, bounce, kfGot, ctMem, ctR, ctW>>

\* A read that returns 0 bytes has one of the explanations that the code allows:
\* another reader or a clear after the wake-up, or a wake-up by a write of 0 bytes
\* (globalfifo.c:121 is an if), a reset during the read (scull_kfifo.c:171 takes
\* no semaphore); in ctest these hold for writes as well, and a signal may wake
\* the caller (ctest.c:168, 256).
EmptyReadsExplained ==
    [][GfEmptyReadExplained /\ KfEmptyReadExplained /\ CtNothingExplained]_devicesVars

\* Where a behaviour is not followed further: no property says anything of the
\* scull device once a stale geometry was used, until a trim has emptied it; and
\* to that a behaviour without the stale call leads as well.
Fresh == ~stale

\* Two tasks are alike; the third one is only there for globalfifo.
Alike == Permutations(Tasks)
Shapes == {<<1, 2>>, <<2, 1>>}
PagedShapes == {<<1, 2>>, <<2, 1>>}
=============================================================================
