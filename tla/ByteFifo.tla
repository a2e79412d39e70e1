------------------------------ MODULE ByteFifo ------------------------------
(***************************************************************************)
(* What a character device that queues bytes promises: bytes are taken in  *)
(* the order they were put, each at most once and none skipped, and never  *)
(* more than Capacity of them wait.  Opening a file empties the queue, and *)
(* nothing else does.                                                      *)
(***************************************************************************)
EXTENDS Naturals, Sequences, SequencesExt

CONSTANT Capacity

VARIABLES
    queue,  \* the bytes waiting
    got,    \* the bytes taken last
    files   \* how many openings there are

fvars == <<queue, got, files>>

Init ==
    /\ queue = <<>>
    /\ got = <<>>
    /\ files = 0

Put ==
    /\ IsPrefix(queue, queue')
    /\ Len(queue') <= Capacity
    /\ UNCHANGED <<got, files>>

Get ==
    /\ got' \o queue' = queue
    /\ UNCHANGED files

Open ==
    /\ files' > files
    /\ queue' = <<>>
    /\ UNCHANGED got

Close ==
    /\ files' < files
    /\ UNCHANGED <<queue, got>>

Next == Put \/ Get \/ Open \/ Close

Spec == Init /\ [][Next]_fvars

=============================================================================
