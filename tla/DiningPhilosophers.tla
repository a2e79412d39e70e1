------------------------- MODULE DiningPhilosophers -------------------------
(***************************************************************************)
(* The philosophers as processes: their states in shared memory, a System  *)
(* V semaphore that guards them, and one semaphore per philosopher on      *)
(* which he waits for his forks.  Every semop has SEM_UNDO: the kernel     *)
(* keeps a sum of adjustments for each process and semaphore, adds it back *)
(* when the process ends, and refuses a semop that would take the sum past *)
(* SEMAEM; the program does not look at the result of semop.               *)
(***************************************************************************)
EXTENDS Integers, FiniteSets

CONSTANTS
    PhNum,
    SEMAEM,    \* 32767 in Linux
    MaxKilled  \* bound on philosophers that are killed

ASSUME DpAssumption == PhNum \in Nat /\ PhNum > 1 /\ SEMAEM \in Nat /\ MaxKilled \in Nat

VARIABLES
    state,    \* the shared array
    guard,    \* semaphore PhNum, and the process that took it
    forks,    \* the semaphores 0 .. PhNum - 1
    adj,      \* adj[i][j]: what ending i would add to forks[j]
    phPc,     \* where a philosopher is
    killed,
    refused,  \* history: a semop has failed
    robbed    \* history: whose grant the end of a neighbour took back

dpVars == <<state, guard, forks, adj, phPc, killed, refused, robbed>>

Philosophers == 0 .. PhNum - 1
Nobody == -1

\* A slip would take the same side twice.
LEFTisRIGHT(i) == (i + 1) % PhNum
LEFT(i)  == (PhNum + i - 1) % PhNum
RIGHT(i) == (i + 1) % PhNum

\* With the guard; the second letter tells whose forks are tested.
Guarding == {"hungry", "testI", "grantI", "leaveI", "think", "testL", "grantL",
             "testR", "grantR", "leaveLR"}

DpTypeOK ==
    /\ state \in [Philosophers -> {"THINKING", "HUNGRY", "EATING"}]
    /\ guard \in Philosophers \cup {Nobody}
    /\ forks \in [Philosophers -> Nat]
    /\ adj \in [Philosophers -> [Philosophers -> -SEMAEM - 1 .. SEMAEM]]
    /\ phPc \in [Philosophers -> {"thinking", "wait", "eating", "dead"} \cup Guarding]
    /\ \A i \in Philosophers : phPc[i] \in Guarding <=> guard = i
    /\ robbed \subseteq Philosophers

DpInit ==
    /\ state = [i \in Philosophers |-> "THINKING"]
    /\ guard = Nobody
    /\ forks = [i \in Philosophers |-> 0]
    /\ adj = [i \in Philosophers |-> [j \in Philosophers |-> 0]]
    /\ phPc = [i \in Philosophers |-> "thinking"]
    /\ killed = 0 /\ refused = FALSE /\ robbed = {}

At(i, pc) == phPc[i] = pc
To(i, pc) == phPc' = [phPc EXCEPT ![i] = pc]

\* take_forks and put_forks begin with the guard.
PGuard(i) ==
    /\ guard = Nobody /\ guard' = i
    /\ \/ At(i, "thinking") /\ To(i, "hungry")
       \/ At(i, "eating") /\ To(i, "think")
    /\ UNCHANGED <<state, forks, adj, killed, refused, robbed>>

VGuard(i) ==
    /\ \/ At(i, "leaveI") /\ To(i, "wait")
       \/ At(i, "leaveLR") /\ To(i, "thinking")
    /\ guard' = Nobody
    /\ UNCHANGED <<state, forks, adj, killed, refused, robbed>>

Hungry(i) ==
    /\ At(i, "hungry") /\ To(i, "testI")
    /\ state' = [state EXCEPT ![i] = "HUNGRY"]
    /\ UNCHANGED <<guard, forks, adj, killed, refused, robbed>>

Think(i) ==
    /\ At(i, "think") /\ To(i, "testL")
    /\ state' = [state EXCEPT ![i] = "THINKING"]
    /\ UNCHANGED <<guard, forks, adj, killed, refused, robbed>>

CanEat(j) == /\ state[j] = "HUNGRY"
             /\ state[LEFT(j)] # "EATING"
             /\ state[RIGHT(j)] # "EATING"

\* test(j), by philosopher i: mark j, then v his semaphore.
Test(i, j, here, grant, next) ==
    /\ At(i, here)
    /\ IF CanEat(j)
         THEN state' = [state EXCEPT ![j] = "EATING"] /\ To(i, grant)
         ELSE UNCHANGED state /\ To(i, next)
    /\ UNCHANGED <<guard, forks, adj, killed, refused, robbed>>

\* A semop with SEM_UNDO on forks[j], which fails beyond the limit.
InRange(n) == n \in -SEMAEM - 1 .. SEMAEM
Upped(n) == n + 1

Grant(i, j, here, next) ==
    /\ At(i, here) /\ To(i, next)
    /\ IF InRange(adj[i][j] - 1)
         THEN /\ forks' = [forks EXCEPT ![j] = Upped(@)]
              /\ adj' = [adj EXCEPT ![i][j] = @ - 1]
              /\ UNCHANGED refused
         ELSE refused' = TRUE /\ UNCHANGED <<forks, adj>>
    /\ UNCHANGED <<state, guard, killed, robbed>>

\* p_operate(semid, argi) waits for the forks, or fails at once.
HasForks(i) == forks[i] > 0

Await(i) ==
    /\ At(i, "wait") /\ To(i, "eating")
    /\ \/ /\ InRange(adj[i][i] + 1) /\ HasForks(i)
          /\ forks' = [forks EXCEPT ![i] = @ - 1]
          /\ adj' = [adj EXCEPT ![i][i] = @ + 1]
          /\ UNCHANGED refused
       \/ /\ ~InRange(adj[i][i] + 1) /\ HasForks(i)
          /\ refused' = TRUE /\ UNCHANGED <<forks, adj>>
    /\ UNCHANGED <<state, guard, killed, robbed>>

\* k is about to up the semaphore of his neighbour j.
Granting(k, j) == \/ At(k, "grantL") /\ LEFT(k) = j
                  \/ At(k, "grantR") /\ RIGHT(k) = j

\* Who loses a grant when i ends: it is up and i has ever upped that semaphore,
\* for him or before, or i was about to up it.
Robbed(i) == {j \in Philosophers \ {i} :
                IF forks[j] > 0 THEN adj[i][j] < 0 ELSE Granting(i, j)}

\* SIGINT or a crash, anywhere: the kernel undoes what is left to undo.
Kill(i) ==
    /\ phPc[i] # "dead" /\ killed < MaxKilled
    /\ killed' = killed + 1 /\ robbed' = robbed \cup Robbed(i)
    /\ To(i, "dead")
    /\ guard' = IF guard = i THEN Nobody ELSE guard
    /\ forks' = [j \in Philosophers |-> IF forks[j] + adj[i][j] < 0 THEN 0
                                        ELSE forks[j] + adj[i][j]]
    /\ adj' = [adj EXCEPT ![i] = [j \in Philosophers |-> 0]]
    /\ UNCHANGED <<state, refused>>

Philosopher(i) ==
    \/ PGuard(i) \/ VGuard(i) \/ Hungry(i) \/ Think(i) \/ Await(i)
    \/ Test(i, i, "testI", "grantI", "leaveI") \/ Grant(i, i, "grantI", "leaveI")
    \/ Test(i, LEFT(i), "testL", "grantL", "testR") \/ Grant(i, LEFT(i), "grantL", "testR")
    \/ Test(i, RIGHT(i), "testR", "grantR", "leaveLR") \/ Grant(i, RIGHT(i), "grantR", "leaveLR")

DpNext == \E i \in Philosophers : Philosopher(i) \/ Kill(i)

\* Every process that can run does: sleep() ends, and semop serves waiters.
DpFairness == \A i \in Philosophers : WF_dpVars(Philosopher(i)) /\ SF_dpVars(PGuard(i))

DpSpec == DpInit /\ [][DpNext]_dpVars /\ DpFairness

-----------------------------------------------------------------------------
\* Two neighbours do not eat at a time, whoever is killed when: not by the
\* states that take_forks and put_forks share, nor in fact, as long as the
\* adjustments of SEM_UNDO stay in range.  (After that p_operate returns at
\* once and leaves the semaphore up: he eats whenever he likes.)
DpNeighboursExclude ==
    \A i \in Philosophers :
        /\ ~(state[i] = "EATING" /\ state[RIGHT(i)] = "EATING")
        /\ ~refused => ~(At(i, "eating") /\ At(RIGHT(i), "eating"))

\* A philosopher that was marked as eating is not left waiting for his
\* semaphore, whoever else is killed when: it is up, or a neighbour is about to
\* up it.  He is left there, as long as no semop is refused, just if a neighbour
\* died between marking him and upping him, or died while the semaphore was up
\* and had upped it some time: SEM_UNDO then takes the grant back, and as no
\* test() marks him again he waits for ever.
DpGrantKept ==
    \A i \in Philosophers :
        /\ At(i, "wait") /\ state[i] = "EATING" /\ ~refused =>
              (i \in robbed <=> forks[i] # 1 /\ \A j \in Philosophers : ~Granting(j, i))
        /\ i \in robbed /\ ~refused => At(i, "dead") \/ phPc[i] \in {"leaveI", "wait"}
        /\ i \in robbed => At(LEFT(i), "dead") \/ At(RIGHT(i), "dead")

\* The philosophers do not come to a standstill: somebody eats again and
\* again, unless one was killed or the kernel has refused a semop.
DpSomebodyEats ==
    []<>(\E i \in Philosophers : At(i, "eating")) \/ <>(killed > 0 \/ refused)
=============================================================================
