----------------------------- MODULE ScullUser ------------------------------
(***************************************************************************)
(* sculluid and scullwuid, the devices only one user may have open.  The    *)
(* first refuses other users with -EBUSY, the second lets them wait until   *)
(* the device is closed; Waits tells which one is modelled.  What scull     *)
(* does with the data is reduced to who is inside it, with the semaphore or *)
(* (scull_trim, called from open) without.                                  *)
(***************************************************************************)
EXTENDS Naturals, FiniteSets

CONSTANTS
    Procs,
    Users,
    uid, euid,    \* the credentials of the processes
    Privileged,   \* those with CAP_DAC_OVERRIDE
    NoOwner,
    Waits

UsersAssumption ==
    /\ uid \in [Procs -> Users]
    /\ euid \in [Procs -> Users]
    /\ Privileged \subseteq Procs
    /\ Waits \in BOOLEAN

VARIABLES
    count,   \* scull_w_count, scull_u_count
    owner,   \* scull_w_owner, scull_u_owner
    sem,     \* who holds the semaphore of the device
    pc       \* control of the processes

vars == <<count, owner, sem, pc>>

Nobody == "nobody"

\* Those counted in count.
Holds(p) == pc[p] \in {"trim", "open", "inside"}
Holders  == {p \in Procs : Holds(p)}

TypeOK ==
    /\ count = Cardinality(Holders)
    /\ owner \in Users \cup {NoOwner}
    /\ sem \in Procs \cup {Nobody}
    /\ pc \in [Procs -> {"closed", "test", "check", "asleep", "trim", "open",
                         "inside", "wake"}]
    /\ \A p \in Procs : pc[p] = "inside" <=> sem = p
    /\ count # 0 => owner # NoOwner

Init ==
    /\ count = 0
    /\ owner = NoOwner
    /\ sem = Nobody
    /\ pc = [p \in Procs |-> "closed"]

Goto(p, next) == pc' = [pc EXCEPT ![p] = next]

\* The owner's processes, whoever did su to the owner, and root.
Allowed(p) == owner \in {uid[p], euid[p]} \/ p \in Privileged
Available(p) == count = 0 \/ Allowed(p)

---------------------------------------------------------------------------
OpenStart(p) ==
    /\ pc[p] = "closed"
    /\ Goto(p, "test")
    /\ UNCHANGED <<count, owner, sem>>

\* The first to open the device owns it.  (A slip: so does everyone who
\* opens it.)
GrabsAlways(n) == TRUE
Grabs(n) == n = 0

\* Under the spinlock: count, and own the device if nobody has it open.
OpenGranted(p) ==
    /\ pc[p] = "test"
    /\ Available(p)
    /\ owner' = IF Grabs(count) THEN uid[p] ELSE owner
    /\ count' = count + 1
    /\ \E next \in {"trim", "open"} : Goto(p, next)
    /\ UNCHANGED sem

\* -EBUSY, or -EAGAIN with O_NONBLOCK; scullwuid goes on to wait_event.
OpenDenied(p) ==
    /\ pc[p] = "test"
    /\ ~Available(p)
    /\ Goto(p, "closed") \/ (Waits /\ Goto(p, "check"))
    /\ UNCHANGED <<count, owner, sem>>

\* wait_event_interruptible looks at count and owner without the spinlock.
Check(p) ==
    /\ pc[p] = "check"
    /\ Goto(p, IF Available(p) THEN "test" ELSE "asleep")
    /\ UNCHANGED <<count, owner, sem>>

Interrupted(p) ==
    /\ pc[p] \in {"check", "asleep"}
    /\ Goto(p, "closed")
    /\ UNCHANGED <<count, owner, sem>>

TrimDone(p) ==
    /\ pc[p] = "trim"
    /\ Goto(p, "open")
    /\ UNCHANGED <<count, owner, sem>>

\* scull_read, scull_write: everything in them is done under the semaphore.
Enter(p) ==
    /\ pc[p] = "open"
    /\ sem = Nobody
    /\ sem' = p
    /\ Goto(p, "inside")
    /\ UNCHANGED <<count, owner>>

Leave(p) ==
    /\ pc[p] = "inside"
    /\ sem' = Nobody
    /\ Goto(p, "open")
    /\ UNCHANGED <<count, owner>>

\* What count was is kept in temp: once the spinlock is released, the device
\* may have been opened again.  (A slip would look at count.)
Release(p) ==
    /\ pc[p] = "open"
    /\ count' = count - 1
    /\ Goto(p, IF Waits /\ count' = 0 THEN "wake" ELSE "closed")
    /\ UNCHANGED <<owner, sem>>

WakesIfClosed(q) == IF count = 0 /\ pc[q] = "asleep" THEN "check" ELSE pc[q]
Wakes(q) == IF pc[q] = "asleep" THEN "check" ELSE pc[q]

Wake(p) ==
    /\ pc[p] = "wake"
    /\ pc' = [q \in Procs |-> IF q = p THEN "closed" ELSE Wakes(q)]
    /\ UNCHANGED <<count, owner, sem>>

Next ==
    \E p \in Procs :
        \/ OpenStart(p) \/ OpenGranted(p) \/ OpenDenied(p) \/ Check(p)
        \/ Interrupted(p) \/ TrimDone(p) \/ Enter(p) \/ Leave(p)
        \/ Release(p) \/ Wake(p)

Spec == Init /\ [][Next]_vars

---------------------------------------------------------------------------
\* Whoever has the device open may: access is denied to other users for as
\* long as it is open (the test in scull_u_open and scull_w_available).
HoldersAllowed == \A p \in Holders : Allowed(p)

\* Nobody sleeps while it could open the device, unless it is about to be
\* woken (scull_w_release's wake_up, after the spinlock is released).
SleepersNotForgotten ==
    (\E p \in Procs : pc[p] = "asleep" /\ Available(p)) =>
        \E q \in Procs : pc[q] = "wake"

=============================================================================
