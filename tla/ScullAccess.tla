---------------------------- MODULE ScullAccess -----------------------------
(***************************************************************************)
(* scullsingle, the device that only one file may have open at a time.     *)
(* There is no lock: open decrements an atomic counter, and increments it   *)
(* again when it was not the one that brought it to zero.                  *)
(***************************************************************************)
EXTENDS Integers, FiniteSets

CONSTANT Procs

ASSUME ProcsAssumption == IsFiniteSet(Procs)

VARIABLES
    scull_s_available,
    pc   \* control of the processes

vars == <<scull_s_available, pc>>

Control == {"closed", "backOff", "trim", "open"}

\* Those the device is granted to, and those that have taken from the counter.
Granted(p) == pc[p] \in {"trim", "open"}
Inside     == {p \in Procs : pc[p] # "closed"}

TypeOK ==
    /\ scull_s_available \in 1 - Cardinality(Procs) .. 1
    /\ pc \in [Procs -> Control]

Init ==
    /\ scull_s_available = 1
    /\ pc = [p \in Procs |-> "closed"]

\* atomic_dec_and_test.  (A slip would take less than zero for zero.)
NoneLeft(n) == n <= 0
TakesLast(n) == n = 0

\* A file opened write-only is emptied first.
OpenGranted(p) ==
    /\ pc[p] = "closed"
    /\ TakesLast(scull_s_available - 1)
    /\ scull_s_available' = scull_s_available - 1
    /\ \E next \in {"trim", "open"} : pc' = [pc EXCEPT ![p] = next]

OpenRefused(p) ==
    /\ pc[p] = "closed"
    /\ ~TakesLast(scull_s_available - 1)
    /\ scull_s_available' = scull_s_available - 1
    /\ pc' = [pc EXCEPT ![p] = "backOff"]

\* -EBUSY, with what was taken put back.  (A slip would only return.)
KeepsIt(n) == n
PutsBack(n) == n + 1

BackOff(p) ==
    /\ pc[p] = "backOff"
    /\ scull_s_available' = PutsBack(scull_s_available)
    /\ pc' = [pc EXCEPT ![p] = "closed"]

TrimDone(p) ==
    /\ pc[p] = "trim"
    /\ pc' = [pc EXCEPT ![p] = "open"]
    /\ UNCHANGED scull_s_available

Release(p) ==
    /\ pc[p] = "open"
    /\ scull_s_available' = scull_s_available + 1
    /\ pc' = [pc EXCEPT ![p] = "closed"]

Next ==
    \E p \in Procs : \/ OpenGranted(p) \/ OpenRefused(p) \/ BackOff(p)
                     \/ TrimDone(p) \/ Release(p)

Spec == Init /\ [][Next]_vars

---------------------------------------------------------------------------
\* Only one file has the device open, so scull_trim, which scull_s_open calls
\* without the semaphore, has it to itself.
SingleOpen == \A p, q \in Procs : Granted(p) /\ Granted(q) => p = q

\* The counter is what is left of 1: nothing is lost, whoever was refused.
Conserved == scull_s_available = 1 - Cardinality(Inside)

-----------------------------------------------------------------------------
(***************************************************************************)
(* Two of the devices of scull's access.c in one module, used by the same  *)
(* processes: scullsingle, and the one of sculluid and scullwuid that Waits *)
(* tells.  They share scull's code and nothing else.                       *)
(***************************************************************************)

CONSTANTS Users, uid, euid, Privileged, NoOwner, Waits

VARIABLES count, owner, sem, userPc

User == INSTANCE ScullUser WITH pc <- userPc

ASSUME UsersAssumption == User!UsersAssumption

userVars == <<count, owner, sem, userPc>>

AccessInit == Init /\ User!Init

AccessNext ==
    \/ Next /\ UNCHANGED userVars
    \/ User!Next /\ UNCHANGED vars

AccessSpec == AccessInit /\ [][AccessNext]_<<vars, userVars>>

---------------------------------------------------------------------------
(* What ScullUser promises, see there.                                     *)

\* count counts the open files, and the owner is known while there are any.
UserTypeOK == User!TypeOK

\* Whoever has the device open may.
HoldersAllowed == User!HoldersAllowed

\* Nobody sleeps while it could open the device, with no wake-up to come.
SleepersNotForgotten == User!SleepersNotForgotten
=============================================================================
