------------------------- MODULE ResumableTransfer -------------------------
(***************************************************************************)
(* What the updater promises: the abstract specification of a file         *)
(* transfer that can be interrupted at any time and resumed.  There is the *)
(* progress that is saved and the progress being made; each is a number of *)
(* blocks of one version.  A version is checkpointed before its first      *)
(* block is counted, an interruption falls back to the checkpoint, and     *)
(* only a complete version is ever installed.                              *)
(***************************************************************************)
EXTENDS Naturals

CONSTANTS Versions, NoVersion, Blocks

VARIABLES saved, working, installed

tvars == <<saved, working, installed>>

Nothing == [ver |-> NoVersion, count |-> 0]

Init ==
    /\ saved = Nothing
    /\ working = Nothing
    /\ installed = "nothing"

\* The server's file is not the one that was begun: start over.
Begin(v) ==
    /\ working' = [ver |-> v, count |-> 0]
    /\ UNCHANGED <<saved, installed>>

Save ==
    /\ saved' = working
    /\ UNCHANGED <<working, installed>>

\* One more block; the checkpoint is of the same version.
Receive ==
    /\ saved.ver = working.ver
    /\ working.ver \in Versions
    /\ working.count < Blocks[working.ver]
    /\ working' = [working EXCEPT !.count = @ + 1]
    /\ UNCHANGED <<saved, installed>>

\* The updater stops; it will go on from the checkpoint.
Interrupt ==
    /\ working' = saved
    /\ UNCHANGED <<saved, installed>>

Complete == working.ver \in Versions /\ working.count = Blocks[working.ver]

BeginInstall ==
    /\ Complete
    /\ installed' = "partial"
    /\ UNCHANGED <<saved, working>>

EndInstall ==
    /\ Complete
    /\ installed = "partial"
    /\ installed' = working.ver
    /\ UNCHANGED <<saved, working>>

Next ==
    \/ \E v \in Versions \cup {NoVersion} : Begin(v)
    \/ Save
    \/ Receive
    \/ Interrupt
    \/ BeginInstall
    \/ EndInstall

Spec == Init /\ [][Next]_tvars

=============================================================================
