-------------------------- MODULE ProcessesProofs ---------------------------
(***************************************************************************)
(* What the run of MCProcesses checks of the dining philosophers and of    *)
(* producer and consumer, for any number of processes, shelves and deaths: *)
(* the invariant of the table, the invariant of the market, and the two    *)
(* programs side by side.                                                  *)
(***************************************************************************)
EXTENDS MCProcesses, FiniteSetTheorems, TLAPS

-----------------------------------------------------------------------------
(* The table.                                                              *)

EatersApart == \A i \in Philosophers : ~(state[i] = "EATING" /\ state[RIGHT(i)] = "EATING")

\* What the end of a philosopher does to the semaphore of another one: it can
\* only take grants back, and only those of a neighbour.
OwnForksOnly ==
    \A i, j \in Philosophers : i # j =>
        adj[i][j] <= 0 /\ (adj[i][j] # 0 => j \in {LEFT(i), RIGHT(i)})

\* Nobody is robbed but by the death of a neighbour.
RobbedBeside == \A j \in robbed : At(LEFT(j), "dead") \/ At(RIGHT(j), "dead")

\* The shared state of a philosopher, from where he is.
StatesTold ==
    \A i \in Philosophers :
        /\ phPc[i] \in {"thinking", "hungry", "testL", "grantL", "testR", "grantR", "leaveLR"}
              => state[i] = "THINKING"
        /\ At(i, "testI") => state[i] = "HUNGRY"
        /\ At(i, "grantI") => state[i] = "EATING"
        /\ phPc[i] \in {"leaveI", "wait"} => state[i] # "THINKING"
        /\ phPc[i] \in {"eating", "think"} => state[i] = "EATING"

\* A semaphore is up only for one who is marked as eating and has not taken it.
ForksGranted ==
    \A i \in Philosophers : ~At(i, "dead") =>
        forks[i] = 0 \/ (forks[i] = 1 /\ phPc[i] \in {"leaveI", "wait"} /\ state[i] = "EATING")

\* Who is about to be granted his forks waits for them.
GrantsDue ==
    \A k, j \in Philosophers : Granting(k, j) =>
        state[j] = "EATING" /\ (At(j, "dead") \/ (At(j, "wait") /\ forks[j] = 0))

\* A grant is not lost but by those who are robbed of it,
NoGrantLost ==
    \A i \in Philosophers :
        phPc[i] \in {"leaveI", "wait"} /\ state[i] = "EATING" =>
            forks[i] = 1 \/ (\E k \in Philosophers : Granting(k, i)) \/ i \in robbed

\* and they never get another one.
RobbedLost ==
    \A j \in robbed : ~At(j, "dead") =>
        /\ phPc[j] \in {"leaveI", "wait"} /\ state[j] = "EATING" /\ forks[j] = 0
        /\ \A k \in Philosophers : ~Granting(k, j)

Granted == ~refused => StatesTold /\ ForksGranted /\ GrantsDue /\ NoGrantLost /\ RobbedLost

DpInv == DpTypeOK /\ EatersApart /\ OwnForksOnly /\ RobbedBeside /\ Granted

\* The neighbours of a philosopher.
LEMMA Sides ==
    ASSUME NEW i \in Philosophers
    PROVE  /\ LEFT(i) \in Philosophers /\ RIGHT(i) \in Philosophers
           /\ LEFT(i) # i /\ RIGHT(i) # i
           /\ RIGHT(LEFT(i)) = i /\ LEFT(RIGHT(i)) = i
<1> USE DpAssumption DEF Philosophers
<1>1. \A r \in 0 .. PhNum - 1 : r % PhNum = r /\ (r + PhNum) % PhNum = r
  OBVIOUS
<1>2. ASSUME NEW j \in Philosophers PROVE RIGHT(j) = IF j + 1 < PhNum THEN j + 1 ELSE 0
  <2>1. CASE j + 1 < PhNum
    BY <1>1, <2>1 DEF RIGHT
  <2>2. CASE j + 1 = PhNum
    BY <2>2 DEF RIGHT
  <2>3. QED
    BY <2>1, <2>2
<1>3. ASSUME NEW j \in Philosophers PROVE LEFT(j) = IF j > 0 THEN j - 1 ELSE PhNum - 1
  <2>1. CASE j > 0
    <3>1. j - 1 \in 0 .. PhNum - 1 /\ PhNum + j - 1 = (j - 1) + PhNum
      BY <2>1
    <3>2. QED
      BY <1>1, <2>1, <3>1 DEF LEFT
  <2>2. CASE j = 0
    <3>1. PhNum - 1 \in 0 .. PhNum - 1 /\ PhNum + j - 1 = PhNum - 1
      BY <2>2
    <3>2. QED
      BY <1>1, <2>2, <3>1 DEF LEFT
  <2>3. QED
    BY <2>1, <2>2
<1>4. LEFT(i) \in Philosophers /\ RIGHT(i) \in Philosophers
  BY <1>2, <1>3
<1>5. RIGHT(LEFT(i)) = i /\ LEFT(RIGHT(i)) = i
  BY <1>2, <1>3, <1>4
<1>6. QED
  BY <1>2, <1>3, <1>4, <1>5

LEMMA DpInitially == DpInit => DpInv
<1> SUFFICES ASSUME DpInit PROVE DpInv
  OBVIOUS
<1> USE DpAssumption DEF DpInit, At
<1>1. DpTypeOK
  BY DEF DpTypeOK, Guarding, Philosophers, Nobody
<1>2. EatersApart
  BY Sides DEF EatersApart
<1>3. OwnForksOnly /\ RobbedBeside
  BY DEF OwnForksOnly, RobbedBeside
<1>4. Granted
  BY DEF Granted, StatesTold, ForksGranted, GrantsDue, NoGrantLost, RobbedLost, Granting
<1>5. QED
  BY <1>1, <1>2, <1>3, <1>4 DEF DpInv

\* test(j) keeps the types, and marks nobody next to one who eats.
LEMMA TestTypes ==
    ASSUME DpTypeOK, EatersApart, NEW i \in Philosophers, NEW j \in Philosophers,
           NEW here \in Guarding, NEW grant \in Guarding, NEW next \in Guarding,
           Test(i, j, here, grant, next)
    PROVE  DpTypeOK' /\ EatersApart'
<1>0. /\ \/ state' = [state EXCEPT ![j] = "EATING"] /\ CanEat(j)
         \/ state' = state
      /\ phPc[i] = here
      /\ phPc' = [phPc EXCEPT ![i] = grant] \/ phPc' = [phPc EXCEPT ![i] = next]
      /\ UNCHANGED <<guard, forks, adj, killed, refused, robbed>>
  BY DEF Test, At, To
<1>1. state' \in [Philosophers -> {"THINKING", "HUNGRY", "EATING"}]
  BY <1>0 DEF DpTypeOK
<1>2. /\ phPc' \in [Philosophers -> {"thinking", "wait", "eating", "dead"} \cup Guarding]
      /\ \A k \in Philosophers : phPc'[k] \in Guarding <=> guard = k
  BY <1>0 DEF DpTypeOK
<1>3. DpTypeOK'
  BY <1>0, <1>1, <1>2 DEF DpTypeOK
<1>4. ASSUME NEW k \in Philosophers PROVE ~(state'[k] = "EATING" /\ state'[RIGHT(k)] = "EATING")
  <2>1. /\ RIGHT(k) \in Philosophers /\ LEFT(RIGHT(k)) = k
        /\ RIGHT(j) # j /\ ~(state[k] = "EATING" /\ state[RIGHT(k)] = "EATING")
    BY Sides DEF EatersApart
  <2>2. CASE state' = state
    BY <2>1, <2>2
  <2>3. CASE state' = [state EXCEPT ![j] = "EATING"] /\ CanEat(j)
    BY <2>1, <2>3 DEF CanEat, DpTypeOK
  <2>4. QED
    BY <1>0, <2>2, <2>3
<1>5. QED
  BY <1>3, <1>4 DEF EatersApart

\* So does the semop that grants; what it may have to undo takes a fork back.
LEMMA GrantTypes ==
    ASSUME DpTypeOK, OwnForksOnly, NEW i \in Philosophers, NEW j \in Philosophers,
           NEW here \in Guarding, NEW next \in Guarding, Grant(i, j, here, next),
           j \in {i, LEFT(i), RIGHT(i)}
    PROVE  DpTypeOK' /\ OwnForksOnly'
<1> USE DpAssumption
<1>0. /\ phPc[i] = here /\ phPc' = [phPc EXCEPT ![i] = next]
      /\ UNCHANGED <<state, guard, killed, robbed>>
      /\ \/ /\ adj[i][j] - 1 \in -SEMAEM - 1 .. SEMAEM
            /\ forks' = [forks EXCEPT ![j] = @ + 1]
            /\ adj' = [adj EXCEPT ![i][j] = @ - 1]
         \/ UNCHANGED <<forks, adj>>
  BY DEF Grant, At, To, InRange, Upped
<1>1. /\ phPc' \in [Philosophers -> {"thinking", "wait", "eating", "dead"} \cup Guarding]
      /\ \A k \in Philosophers : phPc'[k] \in Guarding <=> guard = k
  BY <1>0 DEF DpTypeOK
<1>2. forks' \in [Philosophers -> Nat]
  BY <1>0 DEF DpTypeOK
<1>3. /\ adj' \in [Philosophers -> [Philosophers -> -SEMAEM - 1 .. SEMAEM]]
      /\ \A k, l \in Philosophers : k # l =>
            adj'[k][l] <= 0 /\ (adj'[k][l] # 0 => l \in {LEFT(k), RIGHT(k)})
  <2>1. CASE UNCHANGED adj
    BY <2>1 DEF DpTypeOK, OwnForksOnly
  <2>2. CASE adj[i][j] - 1 \in -SEMAEM - 1 .. SEMAEM /\ adj' = [adj EXCEPT ![i][j] = @ - 1]
    <3>1. adj' \in [Philosophers -> [Philosophers -> -SEMAEM - 1 .. SEMAEM]]
      BY <2>2 DEF DpTypeOK
    <3>2. ASSUME NEW k \in Philosophers, NEW l \in Philosophers, k # l
                 PROVE adj'[k][l] <= 0 /\ (adj'[k][l] # 0 => l \in {LEFT(k), RIGHT(k)})
      <4>1. /\ adj[k][l] <= 0 /\ adj[k][l] \in Int
            /\ adj[k][l] # 0 => l \in {LEFT(k), RIGHT(k)}
        BY <3>2 DEF DpTypeOK, OwnForksOnly
      <4>2. CASE k = i /\ l = j
        <5>1. adj'[k][l] = adj[k][l] - 1
          BY <2>2, <4>2 DEF DpTypeOK
        <5>2. QED
          BY <3>2, <4>1, <4>2, <5>1
      <4>3. CASE ~(k = i /\ l = j)
        <5>1. adj'[k][l] = adj[k][l]
          BY <2>2, <4>3 DEF DpTypeOK
        <5>2. QED
          BY <4>1, <5>1
      <4>4. QED
        BY <4>2, <4>3
    <3>3. QED
      BY <3>1, <3>2
  <2>3. QED
    BY <1>0, <2>1, <2>2
<1>4. QED
  BY <1>0, <1>1, <1>2, <1>3 DEF DpTypeOK, OwnForksOnly

\* Every step keeps the invariant; a semop that is refused ends what Granted
\* says.
LEMMA DpStep ==
    ASSUME DpInv, [DpNext]_dpVars
    PROVE  DpInv'
<1> USE DpAssumption DEF At, To
<1>0. /\ DpTypeOK /\ EatersApart /\ OwnForksOnly /\ RobbedBeside /\ Granted
      /\ \A i \in Philosophers :
            /\ LEFT(i) \in Philosophers /\ RIGHT(i) \in Philosophers
            /\ LEFT(i) # i /\ RIGHT(i) # i
            /\ RIGHT(LEFT(i)) = i /\ LEFT(RIGHT(i)) = i
      /\ Nobody \notin Philosophers
  BY Sides DEF DpInv, Philosophers, Nobody
<1>1. ASSUME NEW i \in Philosophers, PGuard(i) PROVE DpInv'
  <2>1. DpTypeOK'
    BY <1>0, <1>1 DEF PGuard, DpTypeOK, Guarding
  <2>2. EatersApart'
    BY <1>0, <1>1 DEF PGuard, DpTypeOK, EatersApart
  <2>3. OwnForksOnly'
    BY <1>0, <1>1 DEF PGuard, DpTypeOK, OwnForksOnly
  <2>4. RobbedBeside'
    BY <1>0, <1>1 DEF PGuard, DpTypeOK, RobbedBeside
  <2>5. Granted'
    <3> SUFFICES ASSUME ~refused' PROVE (StatesTold /\ ForksGranted /\ GrantsDue /\ NoGrantLost /\ RobbedLost)'
      BY DEF Granted
    <3>0. ~refused /\ StatesTold /\ ForksGranted /\ GrantsDue /\ NoGrantLost /\ RobbedLost
      BY <1>0, <1>1 DEF PGuard, Granted
    <3>1. StatesTold'
      BY <1>0, <1>1, <3>0 DEF PGuard, DpTypeOK, StatesTold, GrantsDue
    <3>2. ForksGranted'
      BY <1>0, <1>1, <3>0 DEF PGuard, DpTypeOK, ForksGranted, GrantsDue, Granting
    <3>3. GrantsDue'
      BY <1>0, <1>1, <3>0 DEF PGuard, DpTypeOK, GrantsDue, Granting, StatesTold, ForksGranted, Guarding
    <3>4. NoGrantLost'
      BY <1>0, <1>1, <3>0 DEF PGuard, DpTypeOK, NoGrantLost, Granting, StatesTold, ForksGranted
    <3>5. RobbedLost'
      BY <1>0, <1>1, <3>0 DEF PGuard, DpTypeOK, RobbedLost, Granting, StatesTold, ForksGranted, GrantsDue, Guarding
    <3>6. QED
      BY <3>1, <3>2, <3>3, <3>4, <3>5
  <2>6. QED
    BY <2>1, <2>2, <2>3, <2>4, <2>5 DEF DpInv
<1>2. ASSUME NEW i \in Philosophers, VGuard(i) PROVE DpInv'
  <2>1. DpTypeOK'
    <3>1. PICK pc \in {"wait", "thinking"} :
             /\ phPc' = [phPc EXCEPT ![i] = pc] /\ phPc[i] \in {"leaveI", "leaveLR"}
             /\ guard' = Nobody /\ UNCHANGED <<state, forks, adj, killed, refused, robbed>>
      BY <1>2 DEF VGuard
    <3>2. \A j \in Philosophers : j # i => phPc[j] \notin Guarding
      BY <1>0, <3>1 DEF DpTypeOK, Guarding
    <3>3. pc \notin Guarding
      BY <3>1 DEF Guarding
    <3>4. phPc' \in [Philosophers -> {"thinking", "wait", "eating", "dead"} \cup Guarding]
      BY <1>0, <3>1 DEF DpTypeOK
    <3>5. \A j \in Philosophers : phPc'[j] = IF j = i THEN pc ELSE phPc[j]
      BY <1>0, <3>1 DEF DpTypeOK
    <3>6. \A j \in Philosophers : phPc'[j] \notin Guarding /\ guard' # j
      BY <1>0, <3>1, <3>2, <3>3, <3>5
    <3>7. QED
      BY <1>0, <3>1, <3>4, <3>6 DEF DpTypeOK
  <2>2. EatersApart'
    BY <1>0, <1>2 DEF VGuard, DpTypeOK, EatersApart
  <2>3. OwnForksOnly'
    BY <1>0, <1>2 DEF VGuard, DpTypeOK, OwnForksOnly
  <2>4. RobbedBeside'
    BY <1>0, <1>2 DEF VGuard, DpTypeOK, RobbedBeside
  <2>5. Granted'
    <3> SUFFICES ASSUME ~refused' PROVE (StatesTold /\ ForksGranted /\ GrantsDue /\ NoGrantLost /\ RobbedLost)'
      BY DEF Granted
    <3>0. ~refused /\ StatesTold /\ ForksGranted /\ GrantsDue /\ NoGrantLost /\ RobbedLost
      BY <1>0, <1>2 DEF VGuard, Granted
    <3>1. StatesTold'
      BY <1>0, <1>2, <3>0 DEF VGuard, DpTypeOK, StatesTold, GrantsDue
    <3>2. ForksGranted'
      BY <1>0, <1>2, <3>0 DEF VGuard, DpTypeOK, ForksGranted, GrantsDue, Granting
    <3>3. GrantsDue'
      BY <1>0, <1>2, <3>0 DEF VGuard, DpTypeOK, GrantsDue, Granting, StatesTold, ForksGranted, Guarding
    <3>4. NoGrantLost'
      BY <1>0, <1>2, <3>0 DEF VGuard, DpTypeOK, NoGrantLost, Granting, StatesTold, ForksGranted
    <3>5. RobbedLost'
      BY <1>0, <1>2, <3>0 DEF VGuard, DpTypeOK, RobbedLost, Granting, StatesTold, ForksGranted, GrantsDue, Guarding
    <3>6. QED
      BY <3>1, <3>2, <3>3, <3>4, <3>5
  <2>6. QED
    BY <2>1, <2>2, <2>3, <2>4, <2>5 DEF DpInv
<1>3. ASSUME NEW i \in Philosophers, Hungry(i) PROVE DpInv'
  <2>1. DpTypeOK'
    BY <1>0, <1>3 DEF Hungry, DpTypeOK, Guarding
  <2>2. EatersApart'
    BY <1>0, <1>3 DEF Hungry, DpTypeOK, EatersApart
  <2>3. OwnForksOnly'
    BY <1>0, <1>3 DEF Hungry, DpTypeOK, OwnForksOnly
  <2>4. RobbedBeside'
    BY <1>0, <1>3 DEF Hungry, DpTypeOK, RobbedBeside
  <2>5. Granted'
    <3> SUFFICES ASSUME ~refused' PROVE (StatesTold /\ ForksGranted /\ GrantsDue /\ NoGrantLost /\ RobbedLost)'
      BY DEF Granted
    <3>0. ~refused /\ StatesTold /\ ForksGranted /\ GrantsDue /\ NoGrantLost /\ RobbedLost
      BY <1>0, <1>3 DEF Hungry, Granted
    <3>1. StatesTold'
      BY <1>0, <1>3, <3>0 DEF Hungry, DpTypeOK, StatesTold, GrantsDue
    <3>2. ForksGranted'
      BY <1>0, <1>3, <3>0 DEF Hungry, DpTypeOK, ForksGranted, GrantsDue, Granting
    <3>3. GrantsDue'
      BY <1>0, <1>3, <3>0 DEF Hungry, DpTypeOK, GrantsDue, Granting, StatesTold, ForksGranted, Guarding
    <3>4. NoGrantLost'
      BY <1>0, <1>3, <3>0 DEF Hungry, DpTypeOK, NoGrantLost, Granting, StatesTold, ForksGranted
    <3>5. RobbedLost'
      BY <1>0, <1>3, <3>0 DEF Hungry, DpTypeOK, RobbedLost, Granting, StatesTold, ForksGranted, GrantsDue, Guarding
    <3>6. QED
      BY <3>1, <3>2, <3>3, <3>4, <3>5
  <2>6. QED
    BY <2>1, <2>2, <2>3, <2>4, <2>5 DEF DpInv
<1>4. ASSUME NEW i \in Philosophers, Think(i) PROVE DpInv'
  <2>1. DpTypeOK'
    BY <1>0, <1>4 DEF Think, DpTypeOK, Guarding
  <2>2. EatersApart'
    BY <1>0, <1>4 DEF Think, DpTypeOK, EatersApart
  <2>3. OwnForksOnly'
    BY <1>0, <1>4 DEF Think, DpTypeOK, OwnForksOnly
  <2>4. RobbedBeside'
    BY <1>0, <1>4 DEF Think, DpTypeOK, RobbedBeside
  <2>5. Granted'
    <3> SUFFICES ASSUME ~refused' PROVE (StatesTold /\ ForksGranted /\ GrantsDue /\ NoGrantLost /\ RobbedLost)'
      BY DEF Granted
    <3>0. ~refused /\ StatesTold /\ ForksGranted /\ GrantsDue /\ NoGrantLost /\ RobbedLost
      BY <1>0, <1>4 DEF Think, Granted
    <3>1. StatesTold'
      BY <1>0, <1>4, <3>0 DEF Think, DpTypeOK, StatesTold, GrantsDue
    <3>2. ForksGranted'
      BY <1>0, <1>4, <3>0 DEF Think, DpTypeOK, ForksGranted, GrantsDue, Granting
    <3>3. GrantsDue'
      BY <1>0, <1>4, <3>0 DEF Think, DpTypeOK, GrantsDue, Granting, StatesTold, ForksGranted, Guarding
    <3>4. NoGrantLost'
      BY <1>0, <1>4, <3>0 DEF Think, DpTypeOK, NoGrantLost, Granting, StatesTold, ForksGranted
    <3>5. RobbedLost'
      BY <1>0, <1>4, <3>0 DEF Think, DpTypeOK, RobbedLost, Granting, StatesTold, ForksGranted, GrantsDue, Guarding
    <3>6. QED
      BY <3>1, <3>2, <3>3, <3>4, <3>5
  <2>6. QED
    BY <2>1, <2>2, <2>3, <2>4, <2>5 DEF DpInv
<1>5. ASSUME NEW i \in Philosophers, Await(i) PROVE DpInv'
  <2>1. DpTypeOK'
    BY SMTT(30), <1>0, <1>5 DEF Await, HasForks, InRange, DpTypeOK, Guarding
  <2>2. EatersApart'
    BY <1>0, <1>5 DEF Await, HasForks, InRange, DpTypeOK, EatersApart
  <2>3. OwnForksOnly'
    BY <1>0, <1>5 DEF Await, HasForks, InRange, DpTypeOK, OwnForksOnly
  <2>4. RobbedBeside'
    BY <1>0, <1>5 DEF Await, HasForks, InRange, DpTypeOK, RobbedBeside
  <2>5. Granted'
    <3> SUFFICES ASSUME ~refused' PROVE (StatesTold /\ ForksGranted /\ GrantsDue /\ NoGrantLost /\ RobbedLost)'
      BY DEF Granted
    <3>0. ~refused /\ StatesTold /\ ForksGranted /\ GrantsDue /\ NoGrantLost /\ RobbedLost
      BY <1>0, <1>5 DEF Await, HasForks, InRange, Granted
    <3>1. StatesTold'
      BY <1>0, <1>5, <3>0 DEF Await, HasForks, InRange, DpTypeOK, StatesTold, ForksGranted
    <3>2. ForksGranted'
      BY <1>0, <1>5, <3>0 DEF Await, HasForks, InRange, DpTypeOK, ForksGranted, GrantsDue, Granting
    <3>3. GrantsDue'
      BY <1>0, <1>5, <3>0 DEF Await, HasForks, InRange, DpTypeOK, GrantsDue, Granting, StatesTold, ForksGranted, Guarding
    <3>4. NoGrantLost'
      BY <1>0, <1>5, <3>0 DEF Await, HasForks, InRange, DpTypeOK, NoGrantLost, Granting, StatesTold, ForksGranted
    <3>5. RobbedLost'
      BY <1>0, <1>5, <3>0 DEF Await, HasForks, InRange, DpTypeOK, RobbedLost, Granting, StatesTold, ForksGranted, GrantsDue, Guarding
    <3>6. QED
      BY <3>1, <3>2, <3>3, <3>4, <3>5
  <2>6. QED
    BY <2>1, <2>2, <2>3, <2>4, <2>5 DEF DpInv
<1>6. ASSUME NEW i \in Philosophers, Test(i, i, "testI", "grantI", "leaveI") PROVE DpInv'
  <2>0. DpTypeOK' /\ EatersApart'
    BY <1>0, <1>6, TestTypes DEF Guarding
  <2>1. DpTypeOK'
    BY <2>0
  <2>2. EatersApart'
    BY <2>0
  <2>3. OwnForksOnly'
    BY <1>0, <1>6 DEF Test, CanEat, DpTypeOK, OwnForksOnly
  <2>4. RobbedBeside'
    BY <1>0, <1>6 DEF Test, CanEat, DpTypeOK, RobbedBeside
  <2>5. Granted'
    <3> SUFFICES ASSUME ~refused' PROVE (StatesTold /\ ForksGranted /\ GrantsDue /\ NoGrantLost /\ RobbedLost)'
      BY DEF Granted
    <3>0. ~refused /\ StatesTold /\ ForksGranted /\ GrantsDue /\ NoGrantLost /\ RobbedLost
      BY <1>0, <1>6 DEF Test, CanEat, Granted
    <3>1. StatesTold'
      BY SMTT(30), <1>0, <1>6, <3>0 DEF Test, CanEat, DpTypeOK, StatesTold, GrantsDue, Guarding
    <3>2. ForksGranted'
      BY <1>0, <1>6, <3>0 DEF Test, CanEat, DpTypeOK, ForksGranted, GrantsDue, Granting
    <3>3. GrantsDue'
      BY SMTT(30), <1>0, <1>6, <3>0 DEF Test, CanEat, DpTypeOK, GrantsDue, Granting, StatesTold, ForksGranted, Guarding
    <3>4. NoGrantLost'
      <4> SUFFICES ASSUME NEW x \in Philosophers,
                          phPc'[x] \in {"leaveI", "wait"}, state'[x] = "EATING"
                   PROVE  forks'[x] = 1 \/ (\E k \in Philosophers : Granting(k, x)') \/ x \in robbed'
        BY DEF NoGrantLost
      <4>1. /\ phPc[i] = "testI" /\ state[i] = "HUNGRY" /\ forks' = forks /\ robbed' = robbed
            /\ phPc'[i] \in {"grantI", "leaveI"}
            /\ phPc'[i] = "leaveI" => state' = state
            /\ \A y \in Philosophers : y # i => phPc'[y] = phPc[y] /\ state'[y] = state[y]
        BY <1>0, <1>6, <3>0 DEF Test, CanEat, DpTypeOK, StatesTold, At, To
      <4>2. x # i
        BY <4>1
      <4>3. forks[x] = 1 \/ (\E k \in Philosophers : Granting(k, x)) \/ x \in robbed
        BY <3>0, <4>1, <4>2 DEF NoGrantLost
      <4>4. \A k \in Philosophers : Granting(k, x) => Granting(k, x)'
        BY <4>1 DEF Granting, At
      <4>5. QED
        BY <4>1, <4>3, <4>4
    <3>5. RobbedLost'
      BY <1>0, <1>6, <3>0 DEF Test, CanEat, DpTypeOK, RobbedLost, Granting, StatesTold, ForksGranted, GrantsDue, Guarding
    <3>6. QED
      BY <3>1, <3>2, <3>3, <3>4, <3>5
  <2>6. QED
    BY <2>1, <2>2, <2>3, <2>4, <2>5 DEF DpInv
<1>7. ASSUME NEW i \in Philosophers, Test(i, LEFT(i), "testL", "grantL", "testR") PROVE DpInv'
  <2>0. DpTypeOK' /\ EatersApart'
    BY <1>0, <1>7, TestTypes DEF Guarding
  <2>1. DpTypeOK'
    BY <2>0
  <2>2. EatersApart'
    BY <2>0
  <2>3. OwnForksOnly'
    BY <1>0, <1>7 DEF Test, CanEat, DpTypeOK, OwnForksOnly
  <2>4. RobbedBeside'
    BY <1>0, <1>7 DEF Test, CanEat, DpTypeOK, RobbedBeside
  <2>5. Granted'
    <3> SUFFICES ASSUME ~refused' PROVE (StatesTold /\ ForksGranted /\ GrantsDue /\ NoGrantLost /\ RobbedLost)'
      BY DEF Granted
    <3>0. ~refused /\ StatesTold /\ ForksGranted /\ GrantsDue /\ NoGrantLost /\ RobbedLost
      BY <1>0, <1>7 DEF Test, CanEat, Granted
    <3>1. StatesTold'
      BY SMTT(30), <1>0, <1>7, <3>0 DEF Test, CanEat, DpTypeOK, StatesTold, GrantsDue, Guarding
    <3>2. ForksGranted'
      BY <1>0, <1>7, <3>0 DEF Test, CanEat, DpTypeOK, ForksGranted, GrantsDue, Granting
    <3>3. GrantsDue'
      BY <1>0, <1>7, <3>0 DEF Test, CanEat, DpTypeOK, GrantsDue, Granting, StatesTold, ForksGranted, Guarding
    <3>4. NoGrantLost'
      BY <1>0, <1>7, <3>0 DEF Test, CanEat, DpTypeOK, NoGrantLost, Granting, StatesTold, ForksGranted
    <3>5. RobbedLost'
      BY <1>0, <1>7, <3>0 DEF Test, CanEat, DpTypeOK, RobbedLost, Granting, StatesTold, ForksGranted, GrantsDue, Guarding
    <3>6. QED
      BY <3>1, <3>2, <3>3, <3>4, <3>5
  <2>6. QED
    BY <2>1, <2>2, <2>3, <2>4, <2>5 DEF DpInv
<1>8. ASSUME NEW i \in Philosophers, Test(i, RIGHT(i), "testR", "grantR", "leaveLR") PROVE DpInv'
  <2>0. DpTypeOK' /\ EatersApart'
    BY <1>0, <1>8, TestTypes DEF Guarding
  <2>1. DpTypeOK'
    BY <2>0
  <2>2. EatersApart'
    BY <2>0
  <2>3. OwnForksOnly'
    BY <1>0, <1>8 DEF Test, CanEat, DpTypeOK, OwnForksOnly
  <2>4. RobbedBeside'
    BY <1>0, <1>8 DEF Test, CanEat, DpTypeOK, RobbedBeside
  <2>5. Granted'
    <3> SUFFICES ASSUME ~refused' PROVE (StatesTold /\ ForksGranted /\ GrantsDue /\ NoGrantLost /\ RobbedLost)'
      BY DEF Granted
    <3>0. ~refused /\ StatesTold /\ ForksGranted /\ GrantsDue /\ NoGrantLost /\ RobbedLost
      BY <1>0, <1>8 DEF Test, CanEat, Granted
    <3>1. StatesTold'
      BY SMTT(30), <1>0, <1>8, <3>0 DEF Test, CanEat, DpTypeOK, StatesTold, GrantsDue, Guarding
    <3>2. ForksGranted'
      BY <1>0, <1>8, <3>0 DEF Test, CanEat, DpTypeOK, ForksGranted, GrantsDue, Granting
    <3>3. GrantsDue'
      BY SMTT(30), <1>0, <1>8, <3>0 DEF Test, CanEat, DpTypeOK, GrantsDue, Granting, StatesTold, ForksGranted, Guarding
    <3>4. NoGrantLost'
      BY <1>0, <1>8, <3>0 DEF Test, CanEat, DpTypeOK, NoGrantLost, Granting, StatesTold, ForksGranted
    <3>5. RobbedLost'
      BY <1>0, <1>8, <3>0 DEF Test, CanEat, DpTypeOK, RobbedLost, Granting, StatesTold, ForksGranted, GrantsDue, Guarding
    <3>6. QED
      BY <3>1, <3>2, <3>3, <3>4, <3>5
  <2>6. QED
    BY <2>1, <2>2, <2>3, <2>4, <2>5 DEF DpInv
<1>9. ASSUME NEW i \in Philosophers, Grant(i, i, "grantI", "leaveI") PROVE DpInv'
  <2>0. DpTypeOK' /\ OwnForksOnly'
    BY <1>0, <1>9, GrantTypes DEF Guarding
  <2>1. DpTypeOK'
    BY <2>0
  <2>2. EatersApart'
    BY <1>0, <1>9 DEF Grant, InRange, Upped, DpTypeOK, EatersApart
  <2>3. OwnForksOnly'
    BY <2>0
  <2>4. RobbedBeside'
    BY <1>0, <1>9 DEF Grant, InRange, Upped, DpTypeOK, RobbedBeside
  <2>5. Granted'
    <3> SUFFICES ASSUME ~refused' PROVE (StatesTold /\ ForksGranted /\ GrantsDue /\ NoGrantLost /\ RobbedLost)'
      BY DEF Granted
    <3>0. ~refused /\ StatesTold /\ ForksGranted /\ GrantsDue /\ NoGrantLost /\ RobbedLost
      BY <1>0, <1>9 DEF Grant, InRange, Upped, Granted
    <3>1. StatesTold'
      BY <1>0, <1>9, <3>0 DEF Grant, InRange, Upped, DpTypeOK, StatesTold, GrantsDue
    <3>2. ForksGranted'
      BY <1>0, <1>9, <3>0 DEF Grant, InRange, Upped, DpTypeOK, ForksGranted, GrantsDue, Granting, StatesTold
    <3>3. GrantsDue'
      BY <1>0, <1>9, <3>0 DEF Grant, InRange, Upped, DpTypeOK, GrantsDue, Granting, StatesTold, ForksGranted, Guarding
    <3>4. NoGrantLost'
      BY <1>0, <1>9, <3>0 DEF Grant, InRange, Upped, DpTypeOK, NoGrantLost, Granting, StatesTold, ForksGranted, GrantsDue
    <3>5. RobbedLost'
      BY <1>0, <1>9, <3>0 DEF Grant, InRange, Upped, DpTypeOK, RobbedLost, Granting, StatesTold, ForksGranted, GrantsDue, Guarding
    <3>6. QED
      BY <3>1, <3>2, <3>3, <3>4, <3>5
  <2>6. QED
    BY <2>1, <2>2, <2>3, <2>4, <2>5 DEF DpInv
<1>10. ASSUME NEW i \in Philosophers, Grant(i, LEFT(i), "grantL", "testR") PROVE DpInv'
  <2>0. DpTypeOK' /\ OwnForksOnly'
    BY <1>0, <1>10, GrantTypes DEF Guarding
  <2>1. DpTypeOK'
    BY <2>0
  <2>2. EatersApart'
    BY <1>0, <1>10 DEF Grant, InRange, Upped, DpTypeOK, EatersApart
  <2>3. OwnForksOnly'
    BY <2>0
  <2>4. RobbedBeside'
    BY <1>0, <1>10 DEF Grant, InRange, Upped, DpTypeOK, RobbedBeside
  <2>5. Granted'
    <3> SUFFICES ASSUME ~refused' PROVE (StatesTold /\ ForksGranted /\ GrantsDue /\ NoGrantLost /\ RobbedLost)'
      BY DEF Granted
    <3>0. ~refused /\ StatesTold /\ ForksGranted /\ GrantsDue /\ NoGrantLost /\ RobbedLost
      BY <1>0, <1>10 DEF Grant, InRange, Upped, Granted
    <3>1. StatesTold'
      BY <1>0, <1>10, <3>0 DEF Grant, InRange, Upped, DpTypeOK, StatesTold, GrantsDue
    <3>2. ForksGranted'
      BY <1>0, <1>10, <3>0 DEF Grant, InRange, Upped, DpTypeOK, ForksGranted, GrantsDue, Granting, StatesTold
    <3>3. GrantsDue'
      BY <1>0, <1>10, <3>0 DEF Grant, InRange, Upped, DpTypeOK, GrantsDue, Granting, StatesTold, ForksGranted, Guarding
    <3>4. NoGrantLost'
      <4>1. /\ state' = state /\ robbed' = robbed /\ phPc[i] = "grantL"
            /\ \A k \in Philosophers : k # i => phPc'[k] = phPc[k]
            /\ phPc'[i] \notin {"leaveI", "wait"}
            /\ forks' = [forks EXCEPT ![LEFT(i)] = @ + 1]
        BY <1>0, <1>10, <3>0 DEF Grant, InRange, Upped, DpTypeOK
      <4>2. \A x \in Philosophers : x # LEFT(i) => forks'[x] = forks[x]
        BY <1>0, <4>1 DEF DpTypeOK
      <4>3. phPc[LEFT(i)] = "wait" => forks'[LEFT(i)] = 1
        BY <1>0, <3>0, <4>1 DEF DpTypeOK, GrantsDue, Granting
      <4>4. \A k, x \in Philosophers : Granting(k, x) /\ x # LEFT(i) => Granting(k, x)'
        BY <1>0, <4>1 DEF Granting
      <4>5. phPc[LEFT(i)] # "leaveI"
        BY <1>0, <4>1 DEF DpTypeOK, Guarding
      <4>6. QED
        BY <1>0, <3>0, <4>1, <4>2, <4>3, <4>4, <4>5 DEF NoGrantLost
    <3>5. RobbedLost'
      BY <1>0, <1>10, <3>0 DEF Grant, InRange, Upped, DpTypeOK, RobbedLost, Granting, StatesTold, ForksGranted, GrantsDue, Guarding
    <3>6. QED
      BY <3>1, <3>2, <3>3, <3>4, <3>5
  <2>6. QED
    BY <2>1, <2>2, <2>3, <2>4, <2>5 DEF DpInv
<1>11. ASSUME NEW i \in Philosophers, Grant(i, RIGHT(i), "grantR", "leaveLR") PROVE DpInv'
  <2>0. DpTypeOK' /\ OwnForksOnly'
    BY <1>0, <1>11, GrantTypes DEF Guarding
  <2>1. DpTypeOK'
    BY <2>0
  <2>2. EatersApart'
    BY <1>0, <1>11 DEF Grant, InRange, Upped, DpTypeOK, EatersApart
  <2>3. OwnForksOnly'
    BY <2>0
  <2>4. RobbedBeside'
    BY <1>0, <1>11 DEF Grant, InRange, Upped, DpTypeOK, RobbedBeside
  <2>5. Granted'
    <3> SUFFICES ASSUME ~refused' PROVE (StatesTold /\ ForksGranted /\ GrantsDue /\ NoGrantLost /\ RobbedLost)'
      BY DEF Granted
    <3>0. ~refused /\ StatesTold /\ ForksGranted /\ GrantsDue /\ NoGrantLost /\ RobbedLost
      BY <1>0, <1>11 DEF Grant, InRange, Upped, Granted
    <3>1. StatesTold'
      BY <1>0, <1>11, <3>0 DEF Grant, InRange, Upped, DpTypeOK, StatesTold, GrantsDue
    <3>2. ForksGranted'
      BY <1>0, <1>11, <3>0 DEF Grant, InRange, Upped, DpTypeOK, ForksGranted, GrantsDue, Granting, StatesTold
    <3>3. GrantsDue'
      BY <1>0, <1>11, <3>0 DEF Grant, InRange, Upped, DpTypeOK, GrantsDue, Granting, StatesTold, ForksGranted, Guarding
    <3>4. NoGrantLost'
      <4>1. /\ state' = state /\ robbed' = robbed /\ phPc[i] = "grantR"
            /\ \A k \in Philosophers : k # i => phPc'[k] = phPc[k]
            /\ phPc'[i] \notin {"leaveI", "wait"}
            /\ forks' = [forks EXCEPT ![RIGHT(i)] = @ + 1]
        BY <1>0, <1>11, <3>0 DEF Grant, InRange, Upped, DpTypeOK
      <4>2. \A x \in Philosophers : x # RIGHT(i) => forks'[x] = forks[x]
        BY <1>0, <4>1 DEF DpTypeOK
      <4>3. phPc[RIGHT(i)] = "wait" => forks'[RIGHT(i)] = 1
        BY <1>0, <3>0, <4>1 DEF DpTypeOK, GrantsDue, Granting
      <4>4. \A k, x \in Philosophers : Granting(k, x) /\ x # RIGHT(i) => Granting(k, x)'
        BY <1>0, <4>1 DEF Granting
      <4>5. phPc[RIGHT(i)] # "leaveI"
        BY <1>0, <4>1 DEF DpTypeOK, Guarding
      <4>6. QED
        BY <1>0, <3>0, <4>1, <4>2, <4>3, <4>4, <4>5 DEF NoGrantLost
    <3>5. RobbedLost'
      BY <1>0, <1>11, <3>0 DEF Grant, InRange, Upped, DpTypeOK, RobbedLost, Granting, StatesTold, ForksGranted, GrantsDue, Guarding
    <3>6. QED
      BY <3>1, <3>2, <3>3, <3>4, <3>5
  <2>6. QED
    BY <2>1, <2>2, <2>3, <2>4, <2>5 DEF DpInv
<1>12. ASSUME NEW i \in Philosophers, Kill(i) PROVE DpInv'
  <2>1. DpTypeOK'
    <3>1. robbed' \subseteq Philosophers
      BY <1>0, <1>12 DEF Kill, Robbed, DpTypeOK
    <3>2. QED
      BY <1>0, <1>12, <3>1 DEF Kill, DpTypeOK, Guarding
  <2>2. EatersApart'
    BY <1>0, <1>12 DEF Kill, DpTypeOK, EatersApart
  <2>3. OwnForksOnly'
    BY <1>0, <1>12 DEF Kill, DpTypeOK, OwnForksOnly
  <2>r. robbed' = robbed \cup Robbed(i) /\ phPc[i] # "dead" /\ phPc'[i] = "dead"
        /\ (\A j \in Philosophers : j # i => phPc'[j] = phPc[j])
        /\ state' = state /\ refused' = refused
    BY <1>0, <1>12 DEF Kill, DpTypeOK
  <2>n. ASSUME NEW j \in Robbed(i) PROVE j \in Philosophers /\ j # i /\ j \in {LEFT(i), RIGHT(i)}
    <3>1. /\ j \in Philosophers /\ j # i
          /\ IF forks[j] > 0 THEN adj[i][j] < 0 ELSE Granting(i, j)
      BY DEF Robbed
    <3>2. adj[i][j] \in Int /\ (adj[i][j] # 0 => j \in {LEFT(i), RIGHT(i)})
      BY <1>0, <3>1 DEF OwnForksOnly, DpTypeOK
    <3>3. QED
      BY <3>1, <3>2 DEF Granting
  <2>4. RobbedBeside'
    <3> SUFFICES ASSUME NEW j \in robbed' PROVE phPc'[LEFT(j)] = "dead" \/ phPc'[RIGHT(j)] = "dead"
      BY DEF RobbedBeside
    <3>1. CASE j \in robbed
      BY <1>0, <2>r, <3>1 DEF RobbedBeside, DpTypeOK
    <3>2. CASE j \in Robbed(i)
      BY <1>0, <2>r, <2>n, <3>2
    <3>3. QED
      BY <2>r, <3>1, <3>2
  <2>5. Granted'
    <3> SUFFICES ASSUME ~refused' PROVE (StatesTold /\ ForksGranted /\ GrantsDue /\ NoGrantLost /\ RobbedLost)'
      BY DEF Granted
    <3>0. ~refused /\ StatesTold /\ ForksGranted /\ GrantsDue /\ NoGrantLost /\ RobbedLost
      BY <1>0, <1>12 DEF Kill, Granted
    <3>f. \A k \in Philosophers : k # i /\ forks[k] \in {0, 1} =>
             forks'[k] \in {0, 1} /\ (forks[k] = 0 => forks'[k] = 0)
      <4> SUFFICES ASSUME NEW k \in Philosophers, k # i, forks[k] \in {0, 1}
                   PROVE  forks'[k] \in {0, 1} /\ (forks[k] = 0 => forks'[k] = 0)
        OBVIOUS
      <4>1. adj[i][k] \in Int /\ adj[i][k] <= 0
        BY <1>0 DEF DpTypeOK, OwnForksOnly
      <4>2. forks'[k] = IF forks[k] + adj[i][k] < 0 THEN 0 ELSE forks[k] + adj[i][k]
        BY <1>12 DEF Kill
      <4>3. QED
        BY <4>1, <4>2
    <3>1. StatesTold'
      BY <1>0, <1>12, <3>0 DEF Kill, DpTypeOK, StatesTold, GrantsDue
    <3>2. ForksGranted'
      BY <1>0, <1>12, <3>0, <3>f DEF Kill, DpTypeOK, ForksGranted
    <3>3. GrantsDue'
      BY SMTT(30), <1>0, <1>12, <3>0, <3>f DEF Kill, DpTypeOK, GrantsDue, Granting, StatesTold, ForksGranted, Guarding
    <3>g. \A l, j \in Philosophers : Granting(l, j)' <=> l # i /\ Granting(l, j)
      BY <2>r DEF Granting
    <3>4. NoGrantLost'
      <4> SUFFICES ASSUME NEW x \in Philosophers,
                          phPc'[x] \in {"leaveI", "wait"}, state'[x] = "EATING"
                   PROVE  forks'[x] = 1 \/ (\E l \in Philosophers : Granting(l, x)') \/ x \in robbed'
        BY DEF NoGrantLost
      <4>1. x # i /\ phPc[x] \in {"leaveI", "wait"} /\ state[x] = "EATING"
        BY <2>r
      <4>2. forks[x] \in {0, 1} /\ adj[i][x] \in Int /\ adj[i][x] <= 0
        BY <1>0, <3>0, <4>1 DEF ForksGranted, DpTypeOK, OwnForksOnly
      <4>3. CASE x \in robbed
        BY <2>r, <4>3
      <4>4. CASE forks[x] = 1
        <5>1. forks'[x] = IF forks[x] + adj[i][x] < 0 THEN 0 ELSE forks[x] + adj[i][x]
          BY <1>12 DEF Kill
        <5>2. adj[i][x] < 0 => x \in Robbed(i)
          BY <4>1, <4>4 DEF Robbed
        <5>3. QED
          BY <2>r, <4>2, <4>4, <5>1, <5>2
      <4>5. ASSUME NEW l \in Philosophers, Granting(l, x), forks[x] # 1
            PROVE  (\E m \in Philosophers : Granting(m, x)') \/ x \in robbed'
        <5>1. CASE l = i
          BY <2>r, <4>1, <4>2, <4>5, <5>1 DEF Robbed
        <5>2. CASE l # i
          BY <3>g, <4>5, <5>2
        <5>3. QED
          BY <5>1, <5>2
      <4>6. QED
        BY <3>0, <4>1, <4>3, <4>4, <4>5 DEF NoGrantLost
    <3>5. RobbedLost'
      <4> SUFFICES ASSUME NEW j \in robbed', phPc'[j] # "dead"
                   PROVE  /\ phPc'[j] \in {"leaveI", "wait"} /\ state'[j] = "EATING" /\ forks'[j] = 0
                          /\ \A l \in Philosophers : ~Granting(l, j)'
        BY DEF RobbedLost
      <4>1. j \in Philosophers /\ j # i /\ phPc'[j] = phPc[j]
        BY <1>0, <2>1, <2>r DEF DpTypeOK
      <4>2. CASE j \in robbed
        BY <2>r, <3>0, <3>f, <3>g, <4>1, <4>2 DEF RobbedLost
      <4>3. CASE j \in Robbed(i) /\ forks[j] > 0
        <5>1. adj[i][j] < 0 /\ adj[i][j] \in Int
          BY <1>0, <4>1, <4>3 DEF Robbed, DpTypeOK
        <5>2. forks[j] = 1 /\ phPc[j] \in {"leaveI", "wait"} /\ state[j] = "EATING"
          BY <3>0, <4>1, <4>3 DEF ForksGranted
        <5>3. forks'[j] = 0
          BY <1>12, <4>1, <5>1, <5>2 DEF Kill
        <5>4. \A l \in Philosophers : ~Granting(l, j)
          BY <3>0, <4>1, <5>2 DEF GrantsDue
        <5>5. QED
          BY <2>r, <3>g, <4>1, <5>2, <5>3, <5>4
      <4>4. CASE j \in Robbed(i) /\ ~(forks[j] > 0)
        <5>1. Granting(i, j)
          BY <4>4 DEF Robbed
        <5>2. state[j] = "EATING" /\ phPc[j] = "wait" /\ forks[j] = 0
          BY <3>0, <4>1, <5>1 DEF GrantsDue
        <5>3. phPc[i] \in Guarding
          BY <5>1 DEF Granting, Guarding
        <5>4. \A l \in Philosophers : Granting(l, j) => l = i
          BY <1>0, <5>3 DEF DpTypeOK, Granting, Guarding
        <5>5. QED
          BY <2>r, <3>f, <3>g, <4>1, <5>2, <5>4
      <4>5. QED
        BY <2>r, <4>2, <4>3, <4>4
    <3>6. QED
      BY <3>1, <3>2, <3>3, <3>4, <3>5
  <2>6. QED
    BY <2>1, <2>2, <2>3, <2>4, <2>5 DEF DpInv
<1>13. CASE UNCHANGED dpVars
  <2>1. DpTypeOK' /\ EatersApart' /\ OwnForksOnly' /\ RobbedBeside'
    BY <1>0, <1>13 DEF dpVars, DpTypeOK, EatersApart, OwnForksOnly, RobbedBeside
  <2>2. Granted'
    BY <1>0, <1>13 DEF dpVars, Granted, StatesTold, ForksGranted, GrantsDue, NoGrantLost, RobbedLost, Granting
  <2>3. QED
    BY <2>1, <2>2 DEF DpInv
<1>14. QED
  BY <1>1, <1>2, <1>3, <1>4, <1>5, <1>6, <1>7, <1>8, <1>9, <1>10, <1>11, <1>12, <1>13
     DEF DpNext, Philosopher

LEMMA DpKept == DpInv => ForksKept
<1> SUFFICES ASSUME DpInv PROVE ForksKept
  OBVIOUS
<1> USE DEF DpInv, At
<1>1. DpNeighboursExclude
  <2>1. \A i \in Philosophers : RIGHT(i) \in Philosophers
    BY Sides
  <2>2. QED
    BY <2>1 DEF DpNeighboursExclude, EatersApart, Granted, StatesTold
<1>2. DpGrantKept
  BY Sides DEF DpGrantKept, Granted, NoGrantLost, RobbedLost, RobbedBeside
<1>3. QED
  BY <1>1, <1>2 DEF ForksKept

-----------------------------------------------------------------------------
(* The market.                                                             *)

Pcs == {"shm", "zero", "sems", "set0", "set1", "p", "pm", "in", "v", "dead"}

\* How many of the processes S are at one of the places P, when f tells where
\* they are.
Num(f, S, P) == Cardinality({x \in S : f[x] \in P})

Inside   == Num(at, Workers, {"in"})
Bringing == Num(at, Producers, {"pm", "in"})
Brought  == Num(at, Producers, {"v"})
Fetching == Num(at, Consumers, {"pm", "in"})
Fetched  == Num(at, Consumers, {"v"})
Busy     == Num(at, Workers, {"pm", "in", "v"})

Setting == \E w \in Workers : at[w] \in {"set0", "set1"}

Shape ==
    /\ shelf \in [0 .. N - 1 -> Goods \cup {NoGood}]
    /\ index \in {NoShm} \cup (0 .. N - 1) \X (0 .. N - 1)
    /\ sem \in {NoSems} \cup Nat \X Nat \X Nat
    /\ at \in [Workers -> Pcs]
    /\ line \in Seq(Goods)
    /\ dead \in Nat

\* What a process works with has been created before.
Created ==
    /\ \A w \in Workers : at[w] \notin {"shm", "dead"} => index # NoShm
    /\ line # <<>> => index # NoShm
    /\ \A w \in Workers : at[w] \in {"set0", "set1", "p", "pm", "in", "v"} => sem # NoSems
    /\ sem = NoSems => line = <<>>

\* As long as the semaphores are set, by one process, nobody gets past them.
SetFirst ==
    \A w \in Workers : at[w] \in {"set0", "set1"} =>
        /\ sem = IF at[w] = "set0" THEN <<0, 0, 0>> ELSE <<1, 0, 0>>
        /\ line = <<>>
        /\ \A x \in Workers : x # w => at[x] \notin {"set0", "set1", "pm", "in", "v"}

\* Who has been let past a semaphore counts as if he held a shelf: what may be
\* fetched is on the shelves, and what may be brought finds room.
Slots ==
    sem # NoSems =>
        /\ sem[mutex] + Inside <= 1
        /\ sem[full] + Brought + Fetching <= Len(line)
        /\ sem[empty] + Bringing + Fetched + Len(line) <= N

\* The shelves between the two indices hold what the line holds.
Queue ==
    ~late => /\ ~unlike
             /\ index # NoShm => /\ index[1] = (index[2] + Len(line)) % N
                                 /\ \A k \in 1 .. Len(line) :
                                       shelf[(index[2] + k - 1) % N] = line[k]

AddUp ==
    sem # NoSems /\ ~Setting =>
        LET sum == sem[empty] + sem[full] + Busy
        IN sum = N \/ (dead > 0 /\ (sum = 0 \/ (N - dead <= sum /\ sum <= N)))

PcInv == Shape /\ Created /\ SetFirst /\ Slots /\ Queue /\ AddUp

\* Counting.
LEMMA NumIsNat ==
    ASSUME NEW T, IsFiniteSet(T), NEW S \in SUBSET T, NEW f, NEW P
    PROVE  /\ IsFiniteSet({x \in S : f[x] \in P}) /\ Num(f, S, P) \in Nat
           /\ (\A x \in S : f[x] \notin P) => Num(f, S, P) = 0
           /\ (\E x \in S : f[x] \in P) => Num(f, S, P) > 0
<1> DEFINE A == {x \in S : f[x] \in P}
<1>1. IsFiniteSet(A)
  BY FS_Subset
<1>2. Cardinality(A) \in Nat /\ (Cardinality(A) = 0 <=> A = {})
  BY <1>1, FS_CardinalityType, FS_EmptySet
<1>3. QED
  BY <1>1, <1>2 DEF Num

LEMMA NumMoves ==
    ASSUME at \in [Workers -> Pcs], NEW w \in Workers, NEW pc \in Pcs,
           at' = [at EXCEPT ![w] = pc], NEW S \in SUBSET Workers, NEW P
    PROVE  Num(at', S, P) = Num(at, S, P) + (IF w \in S /\ pc \in P THEN 1 ELSE 0)
                                          - (IF w \in S /\ at[w] \in P THEN 1 ELSE 0)
<1> DEFINE A == {x \in S : at[x] \in P}
           B == {x \in S : at'[x] \in P}
<1>1. IsFiniteSet(A) /\ Cardinality(A) \in Nat
  BY PcAssumption, NumIsNat DEF Num, Workers
<1>2. \A x \in S : at'[x] = IF x = w THEN pc ELSE at[x]
  OBVIOUS
<1>3. CASE w \in S /\ pc \in P /\ at[w] \notin P
  <2>1. B = A \cup {w} /\ w \notin A
    BY <1>2, <1>3
  <2>2. Cardinality(B) = Cardinality(A) + 1
    BY <1>1, <2>1, FS_AddElement
  <2>3. QED
    BY <1>1, <1>3, <2>2 DEF Num
<1>4. CASE w \in S /\ pc \notin P /\ at[w] \in P
  <2>1. B = A \ {w} /\ w \in A
    BY <1>2, <1>4
  <2> HIDE DEF A, B
  <2>2. Cardinality(B) = Cardinality(A) - 1
    BY <1>1, <2>1, FS_RemoveElement
  <2> USE DEF A, B
  <2>3. QED
    BY <1>1, <1>4, <2>2 DEF Num
<1>5. CASE w \notin S \/ (pc \in P <=> at[w] \in P)
  <2>1. B = A
    BY <1>2, <1>5
  <2>2. Num(at', S, P) = Num(at, S, P) /\ Num(at, S, P) \in Nat
    BY <1>1, <2>1 DEF Num
  <2>3. QED
    BY <1>5, <2>2
<1>6. QED
  BY <1>3, <1>4, <1>5

\* What one process does to the six counts.
One(b) == IF b THEN 1 ELSE 0

LEMMA CountsMove ==
    ASSUME at \in [Workers -> Pcs], NEW w \in Workers, NEW pc \in Pcs,
           at' = [at EXCEPT ![w] = pc]
    PROVE  /\ Inside' = Inside + One(pc = "in") - One(at[w] = "in")
           /\ Busy' = Busy + One(pc \in {"pm", "in", "v"}) - One(at[w] \in {"pm", "in", "v"})
           /\ Bringing' = Bringing + One(w \in Producers /\ pc \in {"pm", "in"})
                                   - One(w \in Producers /\ at[w] \in {"pm", "in"})
           /\ Brought'  = Brought + One(w \in Producers /\ pc = "v")
                                  - One(w \in Producers /\ at[w] = "v")
           /\ Fetching' = Fetching + One(w \notin Producers /\ pc \in {"pm", "in"})
                                   - One(w \notin Producers /\ at[w] \in {"pm", "in"})
           /\ Fetched'  = Fetched + One(w \notin Producers /\ pc = "v")
                                  - One(w \notin Producers /\ at[w] = "v")
<1>1. Workers \in SUBSET Workers /\ Producers \in SUBSET Workers /\ Consumers \in SUBSET Workers
  BY DEF Workers
<1>2. w \in Workers /\ (w \in Consumers <=> w \notin Producers)
  BY PcAssumption DEF Workers
<1>3. \A S \in SUBSET Workers : \A P :
         Num(at', S, P) = Num(at, S, P) + (IF w \in S /\ pc \in P THEN 1 ELSE 0)
                                        - (IF w \in S /\ at[w] \in P THEN 1 ELSE 0)
  BY ZenonT(60), NumMoves
<1>4. Inside' = Inside + One(pc = "in")
                - One(at[w] = "in")
  <2>1. Num(at', Workers, {"in"})
          = Num(at, Workers, {"in"}) + (IF w \in Workers /\ pc \in {"in"} THEN 1 ELSE 0)
            - (IF w \in Workers /\ at[w] \in {"in"} THEN 1 ELSE 0)
    BY <1>1, <1>3
  <2>2. /\ w \in Workers /\ pc \in {"in"} <=> pc = "in"
        /\ w \in Workers /\ at[w] \in {"in"} <=> at[w] = "in"
    BY <1>2
  <2>3. QED
    BY <2>1, <2>2 DEF Inside, One
<1>5. Busy' = Busy + One(pc \in {"pm", "in", "v"})
              - One(at[w] \in {"pm", "in", "v"})
  <2>1. Num(at', Workers, {"pm", "in", "v"})
          = Num(at, Workers, {"pm", "in", "v"}) + (IF w \in Workers /\ pc \in {"pm", "in", "v"} THEN 1 ELSE 0)
            - (IF w \in Workers /\ at[w] \in {"pm", "in", "v"} THEN 1 ELSE 0)
    BY <1>1, <1>3
  <2>2. /\ w \in Workers /\ pc \in {"pm", "in", "v"} <=> pc \in {"pm", "in", "v"}
        /\ w \in Workers /\ at[w] \in {"pm", "in", "v"} <=> at[w] \in {"pm", "in", "v"}
    BY <1>2
  <2>3. QED
    BY <2>1, <2>2 DEF Busy, One
<1>6. Bringing' = Bringing + One(w \in Producers /\ pc \in {"pm", "in"})
                  - One(w \in Producers /\ at[w] \in {"pm", "in"})
  <2>1. Num(at', Producers, {"pm", "in"})
          = Num(at, Producers, {"pm", "in"}) + (IF w \in Producers /\ pc \in {"pm", "in"} THEN 1 ELSE 0)
            - (IF w \in Producers /\ at[w] \in {"pm", "in"} THEN 1 ELSE 0)
    BY <1>1, <1>3
  <2>2. /\ w \in Producers /\ pc \in {"pm", "in"} <=> w \in Producers /\ pc \in {"pm", "in"}
        /\ w \in Producers /\ at[w] \in {"pm", "in"} <=> w \in Producers /\ at[w] \in {"pm", "in"}
    BY <1>2
  <2>3. QED
    BY <2>1, <2>2 DEF Bringing, One
<1>7. Brought' = Brought + One(w \in Producers /\ pc = "v")
                 - One(w \in Producers /\ at[w] = "v")
  <2>1. Num(at', Producers, {"v"})
          = Num(at, Producers, {"v"}) + (IF w \in Producers /\ pc \in {"v"} THEN 1 ELSE 0)
            - (IF w \in Producers /\ at[w] \in {"v"} THEN 1 ELSE 0)
    BY <1>1, <1>3
  <2>2. /\ w \in Producers /\ pc \in {"v"} <=> w \in Producers /\ pc = "v"
        /\ w \in Producers /\ at[w] \in {"v"} <=> w \in Producers /\ at[w] = "v"
    BY <1>2
  <2>3. QED
    BY <2>1, <2>2 DEF Brought, One
<1>8. Fetching' = Fetching + One(w \notin Producers /\ pc \in {"pm", "in"})
                  - One(w \notin Producers /\ at[w] \in {"pm", "in"})
  <2>1. Num(at', Consumers, {"pm", "in"})
          = Num(at, Consumers, {"pm", "in"}) + (IF w \in Consumers /\ pc \in {"pm", "in"} THEN 1 ELSE 0)
            - (IF w \in Consumers /\ at[w] \in {"pm", "in"} THEN 1 ELSE 0)
    BY <1>1, <1>3
  <2>2. /\ w \in Consumers /\ pc \in {"pm", "in"} <=> w \notin Producers /\ pc \in {"pm", "in"}
        /\ w \in Consumers /\ at[w] \in {"pm", "in"} <=> w \notin Producers /\ at[w] \in {"pm", "in"}
    BY <1>2
  <2>3. QED
    BY <2>1, <2>2 DEF Fetching, One
<1>9. Fetched' = Fetched + One(w \notin Producers /\ pc = "v")
                 - One(w \notin Producers /\ at[w] = "v")
  <2>1. Num(at', Consumers, {"v"})
          = Num(at, Consumers, {"v"}) + (IF w \in Consumers /\ pc \in {"v"} THEN 1 ELSE 0)
            - (IF w \in Consumers /\ at[w] \in {"v"} THEN 1 ELSE 0)
    BY <1>1, <1>3
  <2>2. /\ w \in Consumers /\ pc \in {"v"} <=> w \notin Producers /\ pc = "v"
        /\ w \in Consumers /\ at[w] \in {"v"} <=> w \notin Producers /\ at[w] = "v"
    BY <1>2
  <2>3. QED
    BY <2>1, <2>2 DEF Fetched, One
<1>10. QED
  BY <1>4, <1>5, <1>6, <1>7, <1>8, <1>9

LEMMA CountsAreNat ==
    /\ Inside \in Nat /\ Busy \in Nat
    /\ Bringing \in Nat /\ Brought \in Nat /\ Fetching \in Nat /\ Fetched \in Nat
    /\ (\A w \in Workers : at[w] \notin {"pm", "in", "v"})
          => Inside = 0 /\ Busy = 0 /\ Bringing = 0 /\ Brought = 0 /\ Fetching = 0 /\ Fetched = 0
    /\ \A w \in Workers :
          /\ at[w] = "in" => Inside > 0
          /\ at[w] \in {"pm", "in", "v"} => Busy > 0
          /\ w \in Producers /\ at[w] \in {"pm", "in"} => Bringing > 0
          /\ w \in Producers /\ at[w] = "v" => Brought > 0
          /\ w \notin Producers /\ at[w] \in {"pm", "in"} => Fetching > 0
          /\ w \notin Producers /\ at[w] = "v" => Fetched > 0
<1>1. IsFiniteSet(Workers) /\ Producers \in SUBSET Workers /\ Consumers \in SUBSET Workers
  BY PcAssumption DEF Workers
<1>2. \A w \in Workers : w \notin Producers => w \in Consumers
  BY DEF Workers
<1>3. \A S \in SUBSET Workers : \A P :
         /\ Num(at, S, P) \in Nat
         /\ (\A x \in S : at[x] \notin P) => Num(at, S, P) = 0
         /\ (\E x \in S : at[x] \in P) => Num(at, S, P) > 0
  BY <1>1, NumIsNat
<1>4. Inside \in Nat /\ Busy \in Nat /\ Bringing \in Nat /\ Brought \in Nat
      /\ Fetching \in Nat /\ Fetched \in Nat
  BY <1>1, <1>3 DEF Inside, Busy, Bringing, Brought, Fetching, Fetched
<1>5. ASSUME \A w \in Workers : at[w] \notin {"pm", "in", "v"}
      PROVE  Inside = 0 /\ Busy = 0 /\ Bringing = 0 /\ Brought = 0 /\ Fetching = 0 /\ Fetched = 0
  BY <1>1, <1>3, <1>5 DEF Inside, Busy, Bringing, Brought, Fetching, Fetched
<1>6. ASSUME NEW w \in Workers
      PROVE  /\ at[w] = "in" => Inside > 0
             /\ at[w] \in {"pm", "in", "v"} => Busy > 0
             /\ w \in Producers /\ at[w] \in {"pm", "in"} => Bringing > 0
             /\ w \in Producers /\ at[w] = "v" => Brought > 0
             /\ w \notin Producers /\ at[w] \in {"pm", "in"} => Fetching > 0
             /\ w \notin Producers /\ at[w] = "v" => Fetched > 0
  BY <1>1, <1>2, <1>3 DEF Inside, Busy, Bringing, Brought, Fetching, Fetched
<1>7. QED
  BY <1>4, <1>5, <1>6

\* A semop, and an index that moves on.
LEMMA SemChanges ==
    ASSUME sem \in Nat \X Nat \X Nat, NEW k \in {mutex, empty, full}, NEW x \in Nat,
           sem' = [sem EXCEPT ![k] = x]
    PROVE  /\ sem' \in Nat \X Nat \X Nat /\ sem' # NoSems
           /\ sem'[k] = x
           /\ k # mutex => sem'[mutex] = sem[mutex]
           /\ k # empty => sem'[empty] = sem[empty]
           /\ k # full => sem'[full] = sem[full]
BY DEF mutex, empty, full, NoSems

LEMMA SemIs ==
    ASSUME Shape, sem # NoSems
    PROVE  /\ sem \in Nat \X Nat \X Nat
           /\ sem[mutex] \in Nat /\ sem[empty] \in Nat /\ sem[full] \in Nat
BY DEF Shape, mutex, empty, full

\* Places around the shelves.
LEMMA AroundShelves ==
    ASSUME NEW a \in 0 .. N - 1, NEW k \in 0 .. N
    PROVE  /\ (a + k) % N = IF a + k < N THEN a + k ELSE a + k - N
           /\ (a + k) % N \in 0 .. N - 1
<1> USE PcAssumption
<1>1. \A r \in 0 .. N - 1 : r % N = r /\ (r + N) % N = r
  OBVIOUS
<1>2. CASE a + k < N
  <2>1. a + k \in 0 .. N - 1
    BY <1>2
  <2>2. QED
    BY <1>1, <1>2, <2>1
<1>3. CASE ~(a + k < N)
  <2>1. a + k - N \in 0 .. N - 1 /\ (a + k - N) + N = a + k
    BY <1>3
  <2>2. ((a + k - N) + N) % N = a + k - N
    BY <1>1, <2>1
  <2>3. QED
    BY <1>3, <2>1, <2>2
<1>4. QED
  BY <1>2, <1>3

LEMMA NextShelves ==
    ASSUME NEW a \in 0 .. N - 1, NEW k \in 0 .. N - 1
    PROVE  /\ NextShelf((a + k) % N) = (a + (k + 1)) % N
           /\ NextShelf(a) \in 0 .. N - 1
           /\ (NextShelf(a) + k) % N = (a + (k + 1)) % N
           /\ \A l \in 0 .. N - 1 : l # k => (a + l) % N # (a + k) % N
<1> USE PcAssumption
<1>1. ASSUME NEW b \in 0 .. N - 1 PROVE NextShelf(b) = IF b + 1 < N THEN b + 1 ELSE 0
  <2>1. 1 \in 0 .. N
    OBVIOUS
  <2>2. (b + 1) % N = IF b + 1 < N THEN b + 1 ELSE b + 1 - N
    BY <2>1, AroundShelves
  <2>3. QED
    BY <2>2 DEF NextShelf
<1>2. \A l \in 0 .. N : /\ (a + l) % N = IF a + l < N THEN a + l ELSE a + l - N
                        /\ (a + l) % N \in 0 .. N - 1
  BY AroundShelves
<1>3. k \in 0 .. N /\ k + 1 \in 0 .. N
  OBVIOUS
<1>s. (a + (k + 1)) % N = IF a + (k + 1) < N THEN a + (k + 1) ELSE a + (k + 1) - N
  BY <1>2, <1>3
<1>4. NextShelf((a + k) % N) = (a + (k + 1)) % N
  <2> DEFINE b == (a + k) % N
  <2>1. b = (IF a + k < N THEN a + k ELSE a + k - N) /\ b \in 0 .. N - 1
    BY <1>2, <1>3
  <2> HIDE DEF b
  <2>2. NextShelf(b) = IF b + 1 < N THEN b + 1 ELSE 0
    BY <1>1, <2>1
  <2>3. QED
    BY <1>s, <2>1, <2>2 DEF b
<1>5. NextShelf(a) \in 0 .. N - 1
  BY <1>1
<1>6. (NextShelf(a) + k) % N = IF NextShelf(a) + k < N THEN NextShelf(a) + k
                                                       ELSE NextShelf(a) + k - N
  BY <1>3, <1>5, AroundShelves
<1>7. (NextShelf(a) + k) % N = (a + (k + 1)) % N
  <2>1. NextShelf(a) = IF a + 1 < N THEN a + 1 ELSE 0
    BY <1>1
  <2>2. QED
    BY <1>s, <1>6, <2>1
<1>8. ASSUME NEW l \in 0 .. N - 1, l # k PROVE (a + l) % N # (a + k) % N
  <2>1. l \in 0 .. N
    OBVIOUS
  <2>2. QED
    BY <1>2, <1>3, <1>8, <2>1
<1>9. QED
  BY <1>4, <1>5, <1>7, <1>8

LEMMA PcInitially == PcInit => PcInv
<1> SUFFICES ASSUME PcInit PROVE PcInv
  OBVIOUS
<1> USE PcAssumption DEF PcInit, NoShm, NoSems
<1>1. Shape
  BY DEF Shape, Pcs
<1>2. Created /\ SetFirst /\ Slots /\ Queue /\ AddUp
  BY DEF Created, SetFirst, Slots, Queue, AddUp
<1>3. QED
  BY <1>1, <1>2 DEF PcInv

\* The sums of Slots, with what they are made of.
LEMMA SlotsAre ==
    ASSUME PcInv, sem # NoSems
    PROVE  /\ sem[mutex] + Inside <= 1
           /\ sem[full] + Brought + Fetching <= Len(line)
           /\ sem[empty] + Bringing + Fetched + Len(line) <= N
           /\ sem[full] + Brought \in Nat
           /\ sem[empty] + Bringing \in Nat
           /\ sem[empty] + Bringing + Fetched \in Nat
           /\ sem[empty] + sem[full] \in Nat
           /\ Len(line) \in Nat /\ Len(line) <= N
           /\ Fetching > 0 => Len(line) > 0
           /\ Bringing > 0 => Len(line) < N
<1>1. sem[mutex] \in Nat /\ sem[empty] \in Nat /\ sem[full] \in Nat /\ Len(line) \in Nat
  BY SemIs DEF PcInv, Shape
<1>2. /\ Inside \in Nat /\ Bringing \in Nat /\ Brought \in Nat
      /\ Fetching \in Nat /\ Fetched \in Nat
  BY CountsAreNat
<1>3. /\ sem[mutex] + Inside <= 1
      /\ sem[full] + Brought + Fetching <= Len(line)
      /\ sem[empty] + Bringing + Fetched + Len(line) <= N
  BY DEF PcInv, Slots
<1>4. /\ sem[full] + Brought \in Nat /\ sem[empty] + Bringing \in Nat
      /\ sem[empty] + sem[full] \in Nat
  BY SMTT(30), <1>1, <1>2
<1>5. sem[empty] + Bringing + Fetched \in Nat
  BY <1>2, <1>4
<1>6. Fetching > 0 => Len(line) > 0
  BY <1>1, <1>2, <1>3, <1>4
<1>7. Bringing > 0 => sem[empty] + Bringing > 0
  BY <1>1, <1>2
<1>8. N \in Nat
  BY PcAssumption
<1>9. Len(line) <= N /\ (Bringing > 0 => Len(line) < N)
  BY SMTT(30), <1>1, <1>2, <1>3, <1>4, <1>5, <1>7, <1>8
<1>10. QED
  BY <1>1, <1>3, <1>4, <1>5, <1>6, <1>9

\* What the run checks follows from the invariant.
LEMMA PcKept == PcInv => ShelvesKept
<1> SUFFICES ASSUME PcInv PROVE ShelvesKept
  OBVIOUS
<1> USE PcAssumption
<1>0. Shape /\ SetFirst /\ Slots /\ Queue /\ AddUp /\ Created
  BY DEF PcInv
<1>1. PcTypeOK
  <2>1. sem \in {NoSems} \cup (0 .. 1) \X (0 .. N) \X (0 .. N)
    <3>1. CASE sem = NoSems
      BY <3>1
    <3>2. CASE sem # NoSems
      <4>1. /\ sem \in Nat \X Nat \X Nat
            /\ sem[mutex] \in Nat /\ sem[empty] \in Nat /\ sem[full] \in Nat
        BY <1>0, <3>2, SemIs
      <4>2. Len(line) \in Nat
        BY <1>0 DEF Shape
      <4>3. sem[mutex] <= 1 /\ sem[empty] <= N /\ sem[full] <= N
        <5>1. /\ Inside \in Nat
              /\ Bringing \in Nat /\ Brought \in Nat /\ Fetching \in Nat /\ Fetched \in Nat
          BY CountsAreNat
        <5>2. /\ sem[mutex] + Inside <= 1
              /\ sem[full] + Brought + Fetching <= Len(line)
              /\ sem[empty] + Bringing + Fetched + Len(line) <= N
          BY <1>0, <3>2 DEF Slots
        <5>3. sem[mutex] \in Nat /\ sem[empty] \in Nat /\ sem[full] \in Nat /\ N \in Nat
          BY <4>1
        <5>4. sem[mutex] <= 1
          BY SMTT(30), <5>1, <5>2, <5>3
        <5>5. sem[full] + Brought \in Nat /\ sem[full] <= sem[full] + Brought
          BY <5>1, <5>3
        <5>6. sem[full] <= Len(line)
          BY <4>2, <5>1, <5>2, <5>3, <5>5
        <5>7. sem[empty] + Bringing \in Nat /\ sem[empty] <= sem[empty] + Bringing
          BY <5>1, <5>3
        <5>8. sem[empty] + Len(line) <= N
          BY SMTT(30), <4>2, <5>1, <5>2, <5>3, <5>7
        <5>9. QED
          BY <4>2, <5>3, <5>4, <5>6, <5>8
      <4>4. sem = <<sem[1], sem[2], sem[3]>>
        BY <4>1
      <4>5. QED
        BY <4>1, <4>3, <4>4 DEF mutex, empty, full
    <3>3. QED
      BY <3>1, <3>2
  <2>2. Cardinality({w \in Workers : at[w] = "in"}) <= 1
    <3>1. {w \in Workers : at[w] = "in"} = {w \in Workers : at[w] \in {"in"}}
      OBVIOUS
    <3>2. Inside <= 1
      <4>1. CASE sem = NoSems
        <5>1. \A w \in Workers : at[w] \notin {"pm", "in", "v"}
          BY <1>0, <4>1 DEF Created
        <5>2. QED
          BY <5>1, CountsAreNat
      <4>2. CASE sem # NoSems
        <5>1. sem[mutex] + Inside <= 1
          BY <1>0, <4>2 DEF Slots
        <5>2. sem[mutex] \in Nat /\ Inside \in Nat
          BY <1>0, <4>2, SemIs, CountsAreNat
        <5>3. QED
          BY <5>1, <5>2
      <4>3. QED
        BY <4>1, <4>2
    <3>3. QED
      BY <3>1, <3>2 DEF Inside, Num
  <2>3. QED
    BY <1>0, <2>1, <2>2 DEF PcTypeOK, Shape, Pcs
<1>2. PcOldestFirst
  BY <1>0 DEF PcOldestFirst, Queue
<1>3. PcShelvesAreQueue
  <2> SUFFICES ASSUME ~late, NEW k \in 1 .. Len(line)
               PROVE  k <= N /\ shelf[(index[2] + k - 1) % N] = line[k]
    BY DEF PcShelvesAreQueue
  <2>1. Len(line) \in Nat /\ line # <<>>
    BY <1>0 DEF Shape
  <2>2. index # NoShm /\ sem # NoSems
    BY <1>0, <2>1 DEF Created
  <2>3. Len(line) <= N
    BY <2>2, SlotsAre
  <2>4. QED
    BY <1>0, <2>1, <2>2, <2>3 DEF Queue
<1>4. PcShelvesAddUp
  <2> SUFFICES ASSUME sem # NoSems, ~(\E w \in Workers : at[w] \in {"set0", "set1"})
               PROVE  LET sum == sem[empty] + sem[full] + Busy
                      IN sum = N \/ (dead > 0 /\ sum \in {0} \cup N - dead .. N)
    BY DEF PcShelvesAddUp, Busy, Num
  <2>1. sem[empty] \in Nat /\ sem[full] \in Nat /\ Busy \in Nat /\ dead \in Nat
    BY <1>0, SemIs, CountsAreNat DEF Shape
  <2>2. QED
    BY <1>0, <2>1 DEF AddUp, Setting
<1>5. QED
  BY <1>1, <1>2, <1>3, <1>4 DEF ShelvesKept

\* A process that moves on before the semaphores or after them holds none, and
\* the counts stay.
LEMMA CountsStay ==
    ASSUME Shape, NEW w \in Workers, NEW pc \in Pcs, at' = [at EXCEPT ![w] = pc],
           at[w] \notin {"pm", "in", "v"}, pc \notin {"pm", "in", "v"}
    PROVE  /\ Inside' = Inside /\ Busy' = Busy
           /\ Bringing' = Bringing /\ Brought' = Brought
           /\ Fetching' = Fetching /\ Fetched' = Fetched
<1>1. at \in [Workers -> Pcs]
  BY DEF Shape
<1>2. /\ Inside \in Nat /\ Busy \in Nat
      /\ Bringing \in Nat /\ Brought \in Nat /\ Fetching \in Nat /\ Fetched \in Nat
  BY CountsAreNat
<1>3. /\ Inside' = Inside + One(pc = "in") - One(at[w] = "in")
      /\ Busy' = Busy + One(pc \in {"pm", "in", "v"}) - One(at[w] \in {"pm", "in", "v"})
  BY <1>1, CountsMove
<1>4. Inside' = Inside /\ Busy' = Busy
  BY <1>2, <1>3 DEF One
<1>5. Bringing' = Bringing /\ Brought' = Brought
  <2>1. /\ Bringing' = Bringing + One(w \in Producers /\ pc \in {"pm", "in"})
                                - One(w \in Producers /\ at[w] \in {"pm", "in"})
        /\ Brought' = Brought + One(w \in Producers /\ pc = "v")
                              - One(w \in Producers /\ at[w] = "v")
    BY <1>1, CountsMove
  <2>2. QED
    BY <1>2, <2>1 DEF One
<1>6. Fetching' = Fetching /\ Fetched' = Fetched
  <2>1. /\ Fetching' = Fetching + One(w \notin Producers /\ pc \in {"pm", "in"})
                                - One(w \notin Producers /\ at[w] \in {"pm", "in"})
        /\ Fetched' = Fetched + One(w \notin Producers /\ pc = "v")
                              - One(w \notin Producers /\ at[w] = "v")
    BY <1>1, CountsMove
  <2>2. QED
    BY <1>2, <2>1 DEF One
<1>7. QED
  BY <1>4, <1>5, <1>6

\* Before the semaphores: each creates what is not there yet.
LEMMA BeforeSems ==
    ASSUME PcInv, NEW w \in Workers, GetIndex(w) \/ ZeroIndex(w) \/ GetSems(w)
    PROVE  PcInv'
<1> USE PcAssumption DEF Goes
<1>0. Shape /\ Created /\ SetFirst /\ Slots /\ Queue /\ AddUp
  BY DEF PcInv
<1>1. PICK pc \in Pcs : at' = [at EXCEPT ![w] = pc] /\ pc \in {"zero", "sems", "set0", "p"}
  BY DEF GetIndex, ZeroIndex, GetSems, Pcs
<1>2. at[w] \in {"shm", "zero", "sems"} /\ at \in [Workers -> Pcs]
  BY <1>0 DEF GetIndex, ZeroIndex, GetSems, Shape
<1>3. /\ Inside' = Inside /\ Busy' = Busy
      /\ Bringing' = Bringing /\ Brought' = Brought
      /\ Fetching' = Fetching /\ Fetched' = Fetched
  BY <1>0, <1>1, <1>2, CountsStay
<1>4. Shape'
  <2>1. /\ index' \in {NoShm} \cup (0 .. N - 1) \X (0 .. N - 1)
        /\ sem' \in {NoSems} \cup Nat \X Nat \X Nat
    BY <1>0 DEF GetIndex, ZeroIndex, GetSems, Shape
  <2>2. UNCHANGED <<shelf, line, dead>>
    BY DEF GetIndex, ZeroIndex, GetSems
  <2>3. QED
    BY <1>0, <1>1, <2>1, <2>2 DEF Shape
<1>5. Created'
  <2>1. /\ index # NoShm => index' # NoShm
        /\ sem # NoSems => sem' # NoSems
        /\ index' # NoShm
        /\ line' = line
        /\ at'[w] \in {"set0", "p"} => sem' # NoSems
    <3>1. <<0, 0>> # NoShm /\ <<0, 0, 0>> # NoSems
      BY DEF NoShm, NoSems
    <3>2. QED
      BY <1>0, <1>2, <3>1 DEF GetIndex, ZeroIndex, GetSems, Created
  <2>2. \A x \in Workers : at'[x] = IF x = w THEN pc ELSE at[x]
    BY <1>1, <1>2
  <2>3. sem' = NoSems => line' = <<>>
    BY <1>0, <2>1 DEF Created
  <2>4. \A x \in Workers : at'[x] \in {"set0", "set1", "p", "pm", "in", "v"} => sem' # NoSems
    BY <1>0, <1>1, <2>1, <2>2 DEF Created
  <2>5. QED
    BY <2>1, <2>3, <2>4 DEF Created
<1>6. SetFirst'
  BY SMTT(30), <1>0, <1>2 DEF GetIndex, ZeroIndex, GetSems, Shape, SetFirst, Created
<1>7. ASSUME sem' = sem PROVE Slots' /\ AddUp'
  <2>1. pc # "set0"
    <3>1. at'[w] # "set0"
      <4>1. <<0, 0, 0>> # NoSems
        BY DEF NoSems
      <4>2. QED
        BY <1>2, <1>7, <4>1 DEF GetIndex, ZeroIndex, GetSems
    <3>2. QED
      BY <1>1, <1>2, <3>1
  <2>2. Setting' <=> Setting
    BY <1>1, <1>2, <2>1 DEF Setting
  <2>3. line' = line /\ dead' = dead
    BY DEF GetIndex, ZeroIndex, GetSems
  <2>4. Slots' /\ AddUp'
    BY <1>0, <1>3, <1>7, <2>2, <2>3 DEF Slots, AddUp, mutex, empty, full
  <2>5. QED
    BY <2>4
<1>8. ASSUME sem' # sem PROVE Slots' /\ AddUp'
  <2>1. sem = NoSems /\ sem' = <<0, 0, 0>> /\ at'[w] = "set0" /\ line' = line
    BY <1>2, <1>8 DEF GetIndex, ZeroIndex, GetSems
  <2>2. line = <<>> /\ \A x \in Workers : at[x] \notin {"pm", "in", "v"}
    BY <1>0, <2>1 DEF Created
  <2>3. Inside = 0 /\ Bringing = 0 /\ Brought = 0 /\ Fetching = 0 /\ Fetched = 0
    BY <2>2, CountsAreNat
  <2>4. Slots'
    BY <1>3, <2>1, <2>2, <2>3 DEF Slots, mutex, empty, full
  <2>5. AddUp'
    BY <2>1 DEF AddUp, Setting
  <2>6. QED
    BY <2>4, <2>5
<1>9. Queue'
  <2>1. CASE index' = index /\ late' = late
    BY <1>0, <2>1 DEF GetIndex, ZeroIndex, GetSems, Queue
  <2>2. CASE index' = <<0, 0>> /\ (~late' => ~late /\ line = <<>>)
    <3>1. line' = line /\ unlike' = unlike
      BY DEF GetIndex, ZeroIndex, GetSems
    <3>2. (0 + 0) % N = 0
      OBVIOUS
    <3>3. QED
      BY <1>0, <2>2, <3>1, <3>2 DEF Queue
  <2>3. GetIndex(w) => (index' = index /\ late' = late)
                       \/ (index' = <<0, 0>> /\ (~late' => ~late /\ line = <<>>))
    BY <1>0 DEF GetIndex, Created
  <2>4. ZeroIndex(w) => index' = <<0, 0>> /\ (~late' => ~late /\ line = <<>>)
    BY DEF ZeroIndex
  <2>5. GetSems(w) => index' = index /\ late' = late
    BY DEF GetSems
  <2>6. QED
    BY <2>1, <2>2, <2>3, <2>4, <2>5
<1>10. QED
  BY <1>4, <1>5, <1>6, <1>7, <1>8, <1>9 DEF PcInv

\* The values of the semaphores: first the mutex, then the empty shelves.
LEMMA SettingSems ==
    ASSUME PcInv, NEW w \in Workers, SetSem(w)
    PROVE  PcInv'
<1> USE PcAssumption DEF Goes
<1>0. Shape /\ Created /\ SetFirst /\ Slots /\ Queue /\ AddUp
  BY DEF PcInv
<1>1. /\ UNCHANGED <<shelf, index, line, late, dead, unlike>>
      /\ at \in [Workers -> Pcs] /\ at[w] \in {"set0", "set1"}
  BY <1>0 DEF SetSem, Shape
<1>2. /\ sem = IF at[w] = "set0" THEN <<0, 0, 0>> ELSE <<1, 0, 0>>
      /\ line = <<>>
      /\ \A x \in Workers : x # w => at[x] \notin {"set0", "set1", "pm", "in", "v"}
  BY <1>0, <1>1 DEF SetFirst
<1>3. \/ at[w] = "set0" /\ at' = [at EXCEPT ![w] = "set1"] /\ sem' = <<1, 0, 0>>
      \/ at[w] = "set1" /\ at' = [at EXCEPT ![w] = "p"] /\ sem' = <<1, N, 0>>
  BY <1>1, <1>2 DEF SetSem, mutex, empty, Unlocked, Shelves
<1>4. \A x \in Workers : at'[x] \notin {"pm", "in", "v"}
  BY <1>1, <1>2, <1>3
<1>5. \A x \in Workers : at[x] \notin {"pm", "in", "v"}
  BY <1>1, <1>2
<1>6. PICK pc \in Pcs : at' = [at EXCEPT ![w] = pc] /\ pc \in {"set1", "p"}
  BY <1>3 DEF Pcs
<1>7. /\ Inside' = Inside /\ Busy' = Busy
      /\ Bringing' = Bringing /\ Brought' = Brought
      /\ Fetching' = Fetching /\ Fetched' = Fetched
  BY <1>0, <1>1, <1>6, CountsStay
<1>8. /\ Inside = 0 /\ Busy = 0 /\ Bringing = 0 /\ Brought = 0 /\ Fetching = 0 /\ Fetched = 0
  BY <1>5, CountsAreNat
<1>9. Shape'
  BY <1>0, <1>1, <1>3, <1>6 DEF Shape
<1>10. Created'
  <2>1. <<1, 0, 0>> # NoSems /\ <<1, N, 0>> # NoSems
    BY DEF NoSems
  <2>2. index # NoShm /\ sem' # NoSems
    BY <1>0, <1>1, <1>3, <2>1 DEF Created
  <2>3. QED
    BY <1>1, <2>2 DEF Created
<1>11. SetFirst'
  BY <1>1, <1>2, <1>3 DEF SetFirst
<1>12. Slots'
  BY <1>1, <1>2, <1>3, <1>7, <1>8 DEF Slots, mutex, empty, full
<1>13. Queue'
  BY <1>0, <1>1 DEF Queue
<1>14. AddUp'
  BY <1>1, <1>2, <1>3, <1>7, <1>8 DEF AddUp, Setting, empty, full
<1>15. QED
  BY <1>9, <1>10, <1>11, <1>12, <1>13, <1>14 DEF PcInv

\* Who is let past a semaphore, or was before, finds nobody setting them.
LEMMA NobodySets ==
    ASSUME PcInv, NEW w \in Workers,
           at[w] \in {"pm", "in", "v"} \/ (at[w] = "p" /\ sem[Awaits(w)] > 0)
    PROVE  /\ ~Setting
           /\ sem \in Nat \X Nat \X Nat /\ sem # NoSems
           /\ sem[mutex] \in Nat /\ sem[empty] \in Nat /\ sem[full] \in Nat
           /\ index \in (0 .. N - 1) \X (0 .. N - 1) /\ index # NoShm
           /\ index[1] \in 0 .. N - 1 /\ index[2] \in 0 .. N - 1
           /\ at \in [Workers -> Pcs] /\ line \in Seq(Goods)
           /\ Len(line) \in Nat /\ dead \in Nat
<1>0. Shape /\ Created /\ SetFirst
  BY DEF PcInv
<1>1. ASSUME NEW x \in Workers, at[x] \in {"set0", "set1"} PROVE FALSE
  <2>1. /\ sem = IF at[x] = "set0" THEN <<0, 0, 0>> ELSE <<1, 0, 0>>
        /\ \A y \in Workers : y # x => at[y] \notin {"set0", "set1", "pm", "in", "v"}
    BY <1>0, <1>1 DEF SetFirst
  <2>2. at[w] \notin {"pm", "in", "v"}
    BY <1>1, <2>1
  <2>3. sem[empty] = 0 /\ sem[full] = 0
    BY <2>1 DEF empty, full
  <2>4. QED
    BY <2>2, <2>3 DEF Awaits
<1>2. ~Setting
  BY <1>1 DEF Setting
<1>3. sem # NoSems /\ index # NoShm
  BY <1>0 DEF Created
<1>4. /\ sem \in Nat \X Nat \X Nat
      /\ sem[mutex] \in Nat /\ sem[empty] \in Nat /\ sem[full] \in Nat
  BY <1>0, <1>3, SemIs
<1>5. index \in (0 .. N - 1) \X (0 .. N - 1)
  BY <1>0, <1>3 DEF Shape
<1>6. QED
  BY <1>0, <1>2, <1>3, <1>4, <1>5 DEF Shape

\* Past the semaphores a process meets no setter, and becomes none.
LEMMA PastSems ==
    ASSUME at \in [Workers -> Pcs], Created, ~Setting,
           NEW w \in Workers, at[w] \in {"p", "pm", "in", "v"},
           NEW pc \in {"p", "pm", "in", "v"}, at' = [at EXCEPT ![w] = pc],
           index # NoShm, sem # NoSems, index' # NoShm, sem' # NoSems
    PROVE  Created' /\ SetFirst' /\ ~Setting'
<1>1. \A x \in Workers : at'[x] = IF x = w THEN pc ELSE at[x]
  OBVIOUS
<1>2. \A x \in Workers : at'[x] \notin {"set0", "set1"}
  BY <1>1 DEF Setting
<1>3. SetFirst' /\ ~Setting'
  BY <1>2 DEF SetFirst, Setting
<1>4. Created'
  BY DEF Created
<1>5. QED
  BY <1>3, <1>4

\* The semops: what a semaphore loses its taker holds, and the other way round.
LEMMA Semops ==
    ASSUME PcInv, NEW w \in Workers, PSlot(w) \/ PMutex(w) \/ VSlot(w)
    PROVE  PcInv'
<1> USE PcAssumption
<1>0. Shape /\ Created /\ SetFirst /\ Slots /\ Queue /\ AddUp
  BY DEF PcInv
<1>1. at[w] \in {"pm", "in", "v"} \/ (at[w] = "p" /\ sem[Awaits(w)] > 0)
  BY DEF PSlot, PMutex, VSlot
<1>2. /\ ~Setting
      /\ sem \in Nat \X Nat \X Nat /\ sem # NoSems
      /\ sem[mutex] \in Nat /\ sem[empty] \in Nat /\ sem[full] \in Nat
      /\ index # NoShm /\ at \in [Workers -> Pcs] /\ Len(line) \in Nat /\ dead \in Nat
  BY <1>1, NobodySets
<1>3. UNCHANGED <<shelf, index, line, late, dead, unlike>>
  BY DEF PSlot, PMutex, VSlot, Goes
<1>4. PICK pc \in {"p", "pm", "in", "v"} :
         /\ at' = [at EXCEPT ![w] = pc]
         /\ at[w] \in {"p", "pm", "v"} /\ w \in Workers
         /\ pc = IF at[w] = "p" THEN "pm" ELSE IF at[w] = "pm" THEN "in" ELSE "p"
  BY DEF PSlot, PMutex, VSlot, Goes
<1>5. pc \in Pcs
  BY DEF Pcs
<1>6. /\ Inside' = Inside + One(pc = "in") - One(at[w] = "in")
      /\ Busy' = Busy + One(pc \in {"pm", "in", "v"}) - One(at[w] \in {"pm", "in", "v"})
  BY ZenonT(60), <1>2, <1>4, <1>5, CountsMove
<1>7. /\ Bringing' = Bringing + One(w \in Producers /\ pc \in {"pm", "in"})
                              - One(w \in Producers /\ at[w] \in {"pm", "in"})
      /\ Brought'  = Brought + One(w \in Producers /\ pc = "v")
                             - One(w \in Producers /\ at[w] = "v")
  BY <1>2, <1>4, <1>5, CountsMove
<1>8. /\ Fetching' = Fetching + One(w \notin Producers /\ pc \in {"pm", "in"})
                              - One(w \notin Producers /\ at[w] \in {"pm", "in"})
      /\ Fetched'  = Fetched + One(w \notin Producers /\ pc = "v")
                             - One(w \notin Producers /\ at[w] = "v")
  BY ZenonT(60), <1>2, <1>4, <1>5, CountsMove
<1>9. /\ Inside \in Nat /\ Busy \in Nat
      /\ Bringing \in Nat /\ Brought \in Nat /\ Fetching \in Nat /\ Fetched \in Nat
  BY CountsAreNat
<1>10. /\ sem[mutex] + Inside <= 1
       /\ sem[full] + Brought + Fetching <= Len(line)
       /\ sem[empty] + Bringing + Fetched + Len(line) <= N
       /\ sem[full] + Brought \in Nat
       /\ sem[empty] + Bringing \in Nat
       /\ sem[empty] + sem[full] \in Nat
       /\ sem[empty] + Bringing + Fetched \in Nat
  BY <1>2, SlotsAre
<1>11. PICK k \in {mutex, empty, full}, x \in Nat :
          /\ sem' = [sem EXCEPT ![k] = x]
          /\ at[w] = "p" => k = Awaits(w) /\ sem[k] = x + 1
          /\ at[w] = "pm" => k = mutex /\ sem[k] = x + 1
          /\ at[w] = "v" => k = Gives(w) /\ x = sem[k] + 1
  <2>1. ASSUME PSlot(w) PROVE sem' = [sem EXCEPT ![Awaits(w)] = sem[Awaits(w)] - 1]
                              /\ at[w] = "p" /\ sem[Awaits(w)] > 0
    BY <2>1 DEF PSlot
  <2>2. ASSUME PMutex(w) PROVE sem' = [sem EXCEPT ![mutex] = sem[mutex] - 1]
                               /\ at[w] = "pm" /\ sem[mutex] > 0
    BY <2>2 DEF PMutex, MutexUp
  <2>3. ASSUME VSlot(w) PROVE sem' = [sem EXCEPT ![Gives(w)] = sem[Gives(w)] + 1] /\ at[w] = "v"
    BY <2>3 DEF VSlot
  <2>4. Awaits(w) \in {empty, full} /\ Gives(w) \in {empty, full}
    BY DEF Awaits, Gives
  <2>5. CASE PSlot(w)
    <3>1. sem[Awaits(w)] - 1 \in Nat /\ sem[Awaits(w)] = (sem[Awaits(w)] - 1) + 1
      BY SMTT(30), <1>2, <2>1, <2>4, <2>5
    <3>2. QED
      BY <2>1, <2>4, <2>5, <3>1
  <2>6. CASE PMutex(w)
    <3>1. sem[mutex] - 1 \in Nat /\ sem[mutex] = (sem[mutex] - 1) + 1
      BY SMTT(30), <1>2, <2>2, <2>6
    <3>2. QED
      BY <2>2, <2>6, <3>1
  <2>7. CASE VSlot(w)
    <3>1. sem[Gives(w)] + 1 \in Nat
      BY <1>2, <2>4
    <3>2. QED
      BY <2>3, <2>4, <2>7, <3>1
  <2>8. QED
    BY <2>5, <2>6, <2>7
<1>12. /\ sem' \in Nat \X Nat \X Nat /\ sem' # NoSems /\ sem'[k] = x
       /\ k # mutex => sem'[mutex] = sem[mutex]
       /\ k # empty => sem'[empty] = sem[empty]
       /\ k # full => sem'[full] = sem[full]
  BY <1>2, <1>11, SemChanges
<1>13. Shape'
  BY <1>0, <1>3, <1>4, <1>5, <1>12 DEF Shape
<1>14. Created' /\ SetFirst' /\ ~Setting'
  BY <1>0, <1>2, <1>3, <1>4, <1>12, PastSems
<1>15. Queue'
  BY <1>0, <1>3 DEF Queue
<1>a. /\ at[w] = "p" => /\ w \in Producers => k = empty
                        /\ w \notin Producers => k = full
      /\ at[w] = "v" => /\ w \in Producers => k = full
                        /\ w \notin Producers => k = empty
  BY <1>11 DEF Awaits, Gives
<1>b. mutex # empty /\ mutex # full /\ empty # full
  BY DEF mutex, empty, full
<1>k. /\ at[w] = "p" => sem[k] = x + 1
      /\ at[w] = "pm" => k = mutex /\ sem[k] = x + 1
      /\ at[w] = "v" => x = sem[k] + 1
  BY <1>11
<1>l. /\ sem'[k] = x
      /\ k # mutex => sem'[mutex] = sem[mutex]
      /\ k # empty => sem'[empty] = sem[empty]
      /\ k # full => sem'[full] = sem[full]
  BY <1>12
<1>n. sem[mutex] \in Nat /\ sem[empty] \in Nat /\ sem[full] \in Nat
  BY <1>2
<1>c. sem'[mutex] + Inside' = sem[mutex] + Inside
  <2>1. CASE at[w] = "pm"
    <3>1. sem[mutex] \in Nat /\ sem'[mutex] = sem[mutex] - 1
      BY <1>k, <1>l, <1>n, <2>1
    <3>2. Inside' = Inside + 1
      BY <1>4, <1>6, <1>9, <2>1 DEF One
    <3>3. QED
      BY <1>9, <3>1, <3>2
  <2>2. CASE at[w] # "pm"
    <3>1. sem'[mutex] = sem[mutex] /\ Inside' = Inside
      BY <1>4, <1>6, <1>9, <1>l, <1>a, <1>b, <2>2 DEF One
    <3>2. QED
      BY <3>1
  <2>3. QED
    BY <2>1, <2>2
<1> DEFINE e == sem[empty]
           f == sem[full]
<1>o. e \in Nat /\ f \in Nat
  BY <1>n
<1>s. /\ at[w] = "pm" => e' = e /\ f' = f
      /\ at[w] = "p" /\ w \in Producers => e' = e - 1 /\ f' = f
      /\ at[w] = "p" /\ w \notin Producers => e' = e /\ f' = f - 1
      /\ at[w] = "v" /\ w \in Producers => e' = e /\ f' = f + 1
      /\ at[w] = "v" /\ w \notin Producers => e' = e + 1 /\ f' = f
  <2>1. CASE at[w] = "pm"
    BY <1>k, <1>l, <1>n, <1>b, <2>1
  <2>2. CASE at[w] = "p" /\ w \in Producers
    BY <1>k, <1>l, <1>n, <1>a, <1>b, <2>2
  <2>3. CASE at[w] = "p" /\ w \notin Producers
    BY <1>k, <1>l, <1>n, <1>a, <1>b, <2>3
  <2>4. CASE at[w] = "v" /\ w \in Producers
    BY <1>k, <1>l, <1>n, <1>a, <1>b, <2>4
  <2>5. CASE at[w] = "v" /\ w \notin Producers
    BY <1>k, <1>l, <1>n, <1>a, <1>b, <2>5
  <2>6. QED
    BY <1>4, <2>1, <2>2, <2>3, <2>4, <2>5
<1> HIDE DEF e, f
<1> DEFINE Fulls   == f + Brought + Fetching
           Empties == e + Bringing + Fetched
           All     == e + f + Busy
<1>d. Fulls' = Fulls /\ Empties' = Empties /\ All' = All
  <2>1. CASE at[w] = "p" /\ w \in Producers
    <3>1. Bringing' = Bringing + 1 /\ Brought' = Brought
      BY <1>4, <1>7, <1>9, <2>1 DEF One
    <3>2. Fetching' = Fetching /\ Fetched' = Fetched
      BY <1>4, <1>8, <1>9, <2>1 DEF One
    <3>3. Busy' = Busy + 1
      BY <1>4, <1>6, <1>9, <2>1 DEF One
    <3>4. QED
      BY <1>9, <1>o, <1>s, <2>1, <3>1, <3>2, <3>3
  <2>2. CASE at[w] = "p" /\ w \notin Producers
    <3>1. Bringing' = Bringing /\ Brought' = Brought
      BY <1>4, <1>7, <1>9, <2>2 DEF One
    <3>2. Fetching' = Fetching + 1 /\ Fetched' = Fetched
      BY <1>4, <1>8, <1>9, <2>2 DEF One
    <3>3. Busy' = Busy + 1
      BY <1>4, <1>6, <1>9, <2>2 DEF One
    <3>4. QED
      BY <1>9, <1>o, <1>s, <2>2, <3>1, <3>2, <3>3
  <2>3. CASE at[w] = "pm" /\ w \in Producers
    <3>1. Bringing' = Bringing /\ Brought' = Brought
      BY <1>4, <1>7, <1>9, <2>3 DEF One
    <3>2. Fetching' = Fetching /\ Fetched' = Fetched
      BY <1>4, <1>8, <1>9, <2>3 DEF One
    <3>3. Busy' = Busy
      BY <1>4, <1>6, <1>9, <2>3 DEF One
    <3>4. QED
      BY <1>9, <1>o, <1>s, <2>3, <3>1, <3>2, <3>3
  <2>4. CASE at[w] = "pm" /\ w \notin Producers
    <3>1. Bringing' = Bringing /\ Brought' = Brought
      BY <1>4, <1>7, <1>9, <2>4 DEF One
    <3>2. Fetching' = Fetching /\ Fetched' = Fetched
      BY <1>4, <1>8, <1>9, <2>4 DEF One
    <3>3. Busy' = Busy
      BY <1>4, <1>6, <1>9, <2>4 DEF One
    <3>4. QED
      BY <1>9, <1>o, <1>s, <2>4, <3>1, <3>2, <3>3
  <2>5. CASE at[w] = "v" /\ w \in Producers
    <3>1. Bringing' = Bringing /\ Brought' = Brought - 1
      BY <1>4, <1>7, <1>9, <2>5 DEF One
    <3>2. Fetching' = Fetching /\ Fetched' = Fetched
      BY <1>4, <1>8, <1>9, <2>5 DEF One
    <3>3. Busy' = Busy - 1
      BY <1>4, <1>6, <1>9, <2>5 DEF One
    <3>4. QED
      BY <1>9, <1>o, <1>s, <2>5, <3>1, <3>2, <3>3
  <2>6. CASE at[w] = "v" /\ w \notin Producers
    <3>1. Bringing' = Bringing /\ Brought' = Brought
      BY <1>4, <1>7, <1>9, <2>6 DEF One
    <3>2. Fetching' = Fetching /\ Fetched' = Fetched - 1
      BY <1>4, <1>8, <1>9, <2>6 DEF One
    <3>3. Busy' = Busy - 1
      BY <1>4, <1>6, <1>9, <2>6 DEF One
    <3>4. QED
      BY <1>9, <1>o, <1>s, <2>6, <3>1, <3>2, <3>3
  <2>7. QED
    BY <1>4, <2>1, <2>2, <2>3, <2>4, <2>5, <2>6
<1>e. Slots'
  BY <1>3, <1>10, <1>c, <1>d DEF Slots, e, f
<1>f. AddUp'
  BY <1>0, <1>2, <1>3, <1>14, <1>d DEF AddUp, e, f
<1>22. QED
  BY <1>13, <1>14, <1>15, <1>e, <1>f DEF PcInv

\* What Produce and Consume have in common: w was in, is at v, and has given
\* the mutex back.
LEMMA OutOfMutex ==
    ASSUME PcInv, NEW w \in Workers, at[w] = "in", at' = [at EXCEPT ![w] = "v"],
           sem' = [sem EXCEPT ![mutex] = sem[mutex] + 1], dead' = dead,
           index' \in (0 .. N - 1) \X (0 .. N - 1), index' # NoShm
    PROVE  /\ sem' \in Nat \X Nat \X Nat /\ sem' # NoSems /\ at' \in [Workers -> Pcs]
           /\ Created' /\ SetFirst' /\ AddUp'
           /\ sem'[mutex] + Inside' = sem[mutex] + Inside
           /\ sem'[empty] = sem[empty] /\ sem'[full] = sem[full]
           /\ w \in Producers => /\ Bringing' = Bringing - 1 /\ Brought' = Brought + 1
                                 /\ Fetching' = Fetching /\ Fetched' = Fetched
           /\ w \notin Producers => /\ Bringing' = Bringing /\ Brought' = Brought
                                    /\ Fetching' = Fetching - 1 /\ Fetched' = Fetched + 1
<1>0. Created /\ AddUp
  BY DEF PcInv
<1>1. /\ ~Setting
      /\ sem \in Nat \X Nat \X Nat /\ sem # NoSems
      /\ sem[mutex] \in Nat /\ sem[empty] \in Nat /\ sem[full] \in Nat
      /\ index # NoShm /\ at \in [Workers -> Pcs]
  BY NobodySets
<1>2. "v" \in Pcs /\ "v" \in {"p", "pm", "in", "v"}
  BY DEF Pcs
<1>3. /\ Inside \in Nat /\ Busy \in Nat
      /\ Bringing \in Nat /\ Brought \in Nat /\ Fetching \in Nat /\ Fetched \in Nat
  BY CountsAreNat
<1>4. /\ Inside' = Inside + One("v" = "in") - One(at[w] = "in")
      /\ Busy' = Busy + One("v" \in {"pm", "in", "v"}) - One(at[w] \in {"pm", "in", "v"})
  BY <1>1, <1>2, CountsMove
<1>5. /\ Bringing' = Bringing + One(w \in Producers /\ "v" \in {"pm", "in"})
                              - One(w \in Producers /\ at[w] \in {"pm", "in"})
      /\ Brought'  = Brought + One(w \in Producers /\ "v" = "v")
                             - One(w \in Producers /\ at[w] = "v")
  BY <1>1, <1>2, CountsMove
<1>6. /\ Fetching' = Fetching + One(w \notin Producers /\ "v" \in {"pm", "in"})
                              - One(w \notin Producers /\ at[w] \in {"pm", "in"})
      /\ Fetched'  = Fetched + One(w \notin Producers /\ "v" = "v")
                             - One(w \notin Producers /\ at[w] = "v")
  BY <1>1, <1>2, CountsMove
<1>7. Inside' = Inside - 1 /\ Busy' = Busy
  BY <1>3, <1>4 DEF One
<1>8. w \in Producers => Bringing' = Bringing - 1 /\ Brought' = Brought + 1
  BY <1>3, <1>5 DEF One
<1>9. w \notin Producers => Bringing' = Bringing /\ Brought' = Brought
  BY <1>3, <1>5 DEF One
<1>10. w \in Producers => Fetching' = Fetching /\ Fetched' = Fetched
  BY <1>3, <1>6 DEF One
<1>11. w \notin Producers => Fetching' = Fetching - 1 /\ Fetched' = Fetched + 1
  BY <1>3, <1>6 DEF One
<1>12. mutex # empty /\ mutex # full /\ sem[mutex] + 1 \in Nat /\ mutex \in {mutex, empty, full}
  BY <1>1 DEF mutex, empty, full
<1>13. /\ sem' \in Nat \X Nat \X Nat /\ sem' # NoSems /\ sem'[mutex] = sem[mutex] + 1
       /\ mutex # empty => sem'[empty] = sem[empty]
       /\ mutex # full => sem'[full] = sem[full]
  BY <1>1, <1>12, SemChanges
<1>14. sem'[mutex] + Inside' = sem[mutex] + Inside
  BY <1>1, <1>3, <1>7, <1>13
<1>15. Created' /\ SetFirst' /\ ~Setting'
  BY <1>0, <1>1, <1>2, <1>13, PastSems
<1>16. AddUp'
  BY <1>0, <1>1, <1>7, <1>12, <1>13 DEF AddUp
<1>17. at' \in [Workers -> Pcs]
  BY <1>1, <1>2
<1>18. QED
  BY <1>8, <1>9, <1>10, <1>11, <1>12, <1>13, <1>14, <1>15, <1>16, <1>17

\* A good goes to the shelf behind the last one.
LEMMA ProduceStep ==
    ASSUME PcInv, NEW w \in Workers, Produce(w)
    PROVE  PcInv'
<1> USE PcAssumption
<1>0. Shape /\ Slots /\ Queue
  BY DEF PcInv
<1>1. /\ w \in Producers /\ at[w] = "in" /\ at' = [at EXCEPT ![w] = "v"]
      /\ sem' = [sem EXCEPT ![mutex] = sem[mutex] + 1]
      /\ UNCHANGED <<late, dead, unlike>>
  BY DEF Produce, Goes
<1>2. PICK g \in Goods : shelf' = [shelf EXCEPT ![index[1]] = g] /\ line' = Append(line, g)
  BY DEF Produce
<1>3. /\ sem[mutex] \in Nat /\ sem[empty] \in Nat /\ sem[full] \in Nat
      /\ sem # NoSems
      /\ index \in (0 .. N - 1) \X (0 .. N - 1) /\ index # NoShm
      /\ index[1] \in 0 .. N - 1 /\ index[2] \in 0 .. N - 1
      /\ line \in Seq(Goods) /\ Len(line) \in Nat
  BY <1>1, NobodySets
<1>4. /\ Bringing \in Nat /\ Brought \in Nat /\ Fetching \in Nat /\ Fetched \in Nat
      /\ Bringing > 0
  BY <1>1, CountsAreNat
<1>5. /\ sem[mutex] + Inside <= 1
      /\ sem[full] + Brought + Fetching <= Len(line)
      /\ sem[empty] + Bringing + Fetched + Len(line) <= N
      /\ sem[full] + Brought \in Nat /\ sem[empty] + Bringing \in Nat
      /\ sem[empty] + Bringing + Fetched \in Nat
      /\ Len(line) < N
  BY <1>3, <1>4, SlotsAre
<1>6. index' = [index EXCEPT ![1] = NextShelf(index[1])] /\ NextShelf(index[1]) \in 0 .. N - 1
  <2>1. 0 \in 0 .. N - 1
    OBVIOUS
  <2>2. NextShelf(index[1]) \in 0 .. N - 1
    BY <1>3, <2>1, NextShelves
  <2>3. QED
    BY <2>2 DEF Produce
<1>7. /\ index' \in (0 .. N - 1) \X (0 .. N - 1) /\ index' # NoShm
      /\ index'[1] = NextShelf(index[1]) /\ index'[2] = index[2]
  BY <1>3, <1>6 DEF NoShm
<1>8. line' \in Seq(Goods) /\ Len(line') = Len(line) + 1
      /\ line'[Len(line) + 1] = g /\ \A k \in 1 .. Len(line) : line'[k] = line[k]
  BY <1>2, <1>3
<1>9. /\ sem' \in Nat \X Nat \X Nat /\ sem' # NoSems /\ at' \in [Workers -> Pcs]
      /\ Created' /\ SetFirst' /\ AddUp'
      /\ sem'[mutex] + Inside' = sem[mutex] + Inside
      /\ sem'[empty] = sem[empty] /\ sem'[full] = sem[full]
      /\ w \in Producers => /\ Bringing' = Bringing - 1 /\ Brought' = Brought + 1
                            /\ Fetching' = Fetching /\ Fetched' = Fetched
  BY <1>1, <1>7, OutOfMutex
<1>10. Shape'
  BY <1>0, <1>1, <1>2, <1>3, <1>7, <1>8, <1>9 DEF Shape
<1>11. Slots'
  <2>0. sem'[full] = sem[full] /\ Brought' = Brought + 1 /\ Fetching' = Fetching
    BY <1>1, <1>9
  <2>1. sem'[full] + Brought' = (sem[full] + Brought) + 1
    <3>1. sem[full] \in Nat /\ Brought \in Nat
      BY <1>3, <1>4
    <3>2. QED
      BY <2>0, <3>1
  <2>2. sem'[full] + Brought' + Fetching' <= Len(line')
    <3>1. /\ sem[full] + Brought \in Nat /\ Fetching \in Nat /\ Len(line) \in Nat
          /\ sem[full] + Brought + Fetching <= Len(line) /\ Len(line') = Len(line) + 1
      BY <1>3, <1>4, <1>5, <1>8
    <3>2. QED
      BY <2>0, <2>1, <3>1
  <2>3. sem'[empty] + Bringing' = (sem[empty] + Bringing) - 1
    <3>1. sem[empty] \in Nat /\ Bringing \in Nat
      BY <1>3, <1>4
    <3>2. sem'[empty] = sem[empty] /\ Bringing' = Bringing - 1
      BY <1>1, <1>9
    <3>3. QED
      BY <3>1, <3>2
  <2>4. sem'[empty] + Bringing' + Fetched' = (sem[empty] + Bringing + Fetched) - 1
    <3>1. sem[empty] + Bringing \in Nat /\ Fetched \in Nat /\ Fetched' = Fetched
      BY <1>1, <1>4, <1>5, <1>9
    <3>2. QED
      BY <2>3, <3>1
  <2>5. sem'[empty] + Bringing' + Fetched' + Len(line') <= N
    BY SMTT(30), <1>3, <1>5, <1>8, <2>4
  <2>6. QED
    BY <1>5, <1>9, <2>2, <2>5 DEF Slots
<1>12. Queue'
  <2> SUFFICES ASSUME ~late PROVE ~unlike' /\ index'[1] = (index'[2] + Len(line')) % N
                                  /\ \A k \in 1 .. Len(line') :
                                        shelf'[(index'[2] + k - 1) % N] = line'[k]
    BY <1>1 DEF Queue
  <2> DEFINE a == index[2]
             n == Len(line)
  <2>1. /\ ~unlike /\ index[1] = (a + n) % N
        /\ \A k \in 1 .. n : shelf[(a + k - 1) % N] = line[k]
    BY <1>0, <1>3 DEF Queue
  <2>2. a \in 0 .. N - 1 /\ n \in 0 .. N - 1
    BY <1>3, <1>5
  <2> HIDE DEF a, n
  <2>3. /\ NextShelf((a + n) % N) = (a + (n + 1)) % N
        /\ \A l \in 0 .. N - 1 : l # n => (a + l) % N # (a + n) % N
    BY <2>2, NextShelves
  <2>4. index'[1] = (index'[2] + Len(line')) % N
    BY <1>7, <1>8, <2>1, <2>3 DEF a, n
  <2>5. shelf'[(a + n) % N] = g
    BY <1>0, <1>2, <1>3, <2>1 DEF Shape
  <2>6. ASSUME NEW k \in 1 .. n PROVE shelf'[(a + k - 1) % N] = line'[k]
    <3>1. k - 1 \in 0 .. N - 1 /\ k - 1 # n /\ a + k - 1 = a + (k - 1) /\ k - 1 \in 0 .. N
      BY <2>2
    <3>2. (a + k - 1) % N # index[1]
      BY <2>1, <2>3, <3>1
    <3>3. (a + (k - 1)) % N \in 0 .. N - 1
      BY <2>2, <3>1, AroundShelves
    <3>4. shelf'[(a + k - 1) % N] = shelf[(a + k - 1) % N]
      BY <1>0, <1>2, <3>1, <3>2, <3>3 DEF Shape
    <3>5. QED
      BY <1>8, <2>1, <3>4 DEF n
  <2>7. ASSUME NEW k \in 1 .. n + 1 PROVE shelf'[(a + k - 1) % N] = line'[k]
    <3>1. CASE k \in 1 .. n
      BY <2>6, <3>1
    <3>2. CASE k = n + 1
      <4>1. a + k - 1 = a + n
        BY <2>2, <3>2
      <4>2. QED
        BY <1>8, <2>5, <3>2, <4>1 DEF n
    <3>3. QED
      BY <2>2, <3>1, <3>2
  <2>8. QED
    BY <1>1, <1>7, <1>8, <2>1, <2>4, <2>7 DEF a, n
<1>13. QED
  BY <1>9, <1>10, <1>11, <1>12 DEF PcInv

\* The oldest good is the one on the shelf of the consumers' index.
LEMMA ConsumeStep ==
    ASSUME PcInv, NEW w \in Workers, Consume(w)
    PROVE  PcInv'
<1> USE PcAssumption
<1>0. Shape /\ Slots /\ Queue
  BY DEF PcInv
<1>1. /\ w \notin Producers /\ at[w] = "in" /\ at' = [at EXCEPT ![w] = "v"]
      /\ sem' = [sem EXCEPT ![mutex] = sem[mutex] + 1]
      /\ UNCHANGED <<late, dead, shelf>>
  BY DEF Consume
<1>3. /\ sem[mutex] \in Nat /\ sem[empty] \in Nat /\ sem[full] \in Nat
      /\ sem # NoSems
      /\ index \in (0 .. N - 1) \X (0 .. N - 1) /\ index # NoShm
      /\ index[1] \in 0 .. N - 1 /\ index[2] \in 0 .. N - 1
      /\ line \in Seq(Goods) /\ Len(line) \in Nat
  BY <1>1, NobodySets
<1>4. /\ Bringing \in Nat /\ Brought \in Nat /\ Fetching \in Nat /\ Fetched \in Nat
      /\ Fetching > 0
  BY <1>1, CountsAreNat
<1>5. /\ sem[mutex] + Inside <= 1
      /\ sem[full] + Brought + Fetching <= Len(line)
      /\ sem[empty] + Bringing + Fetched + Len(line) <= N
      /\ sem[full] + Brought \in Nat /\ sem[empty] + Bringing \in Nat
      /\ sem[empty] + Bringing + Fetched \in Nat
      /\ Len(line) > 0 /\ Len(line) <= N
  BY <1>3, <1>4, SlotsAre
<1>6. index' = [index EXCEPT ![2] = NextShelf(index[2])] /\ NextShelf(index[2]) \in 0 .. N - 1
  <2>1. 0 \in 0 .. N - 1
    OBVIOUS
  <2>2. NextShelf(index[2]) \in 0 .. N - 1
    BY <1>3, <2>1, NextShelves
  <2>3. QED
    BY <2>2 DEF Consume
<1>7. /\ index' \in (0 .. N - 1) \X (0 .. N - 1) /\ index' # NoShm
      /\ index'[2] = NextShelf(index[2]) /\ index'[1] = index[1]
  BY <1>3, <1>6 DEF NoShm
<1>8. line' \in Seq(Goods) /\ Len(line') = Len(line) - 1 /\ line # <<>>
      /\ Head(line) = line[1] /\ \A k \in 1 .. Len(line) - 1 : line'[k] = line[k + 1]
  BY <1>3, <1>5 DEF Consume
<1>9. /\ sem' \in Nat \X Nat \X Nat /\ sem' # NoSems /\ at' \in [Workers -> Pcs]
      /\ Created' /\ SetFirst' /\ AddUp'
      /\ sem'[mutex] + Inside' = sem[mutex] + Inside
      /\ sem'[empty] = sem[empty] /\ sem'[full] = sem[full]
      /\ w \notin Producers => /\ Bringing' = Bringing /\ Brought' = Brought
                               /\ Fetching' = Fetching - 1 /\ Fetched' = Fetched + 1
  BY <1>1, <1>7, OutOfMutex
<1>10. Shape'
  BY <1>0, <1>1, <1>7, <1>8, <1>9 DEF Shape
<1>11. Slots'
  <2>0. /\ sem'[full] = sem[full] /\ Brought' = Brought /\ Fetching' = Fetching - 1
        /\ sem'[empty] = sem[empty] /\ Bringing' = Bringing /\ Fetched' = Fetched + 1
    BY <1>1, <1>9
  <2>1. sem'[full] + Brought' + Fetching' <= Len(line')
    <3>1. /\ sem[full] + Brought \in Nat /\ Fetching \in Nat /\ Len(line) \in Nat
          /\ sem[full] + Brought + Fetching <= Len(line) /\ Len(line') = Len(line) - 1
      BY <1>3, <1>4, <1>5, <1>8
    <3>2. sem'[full] + Brought' = sem[full] + Brought
      BY <2>0
    <3>3. QED
      BY <2>0, <3>1, <3>2
  <2>2. sem'[empty] + Bringing' + Fetched' = (sem[empty] + Bringing + Fetched) + 1
    <3>1. sem[empty] + Bringing \in Nat /\ Fetched \in Nat
      BY <1>4, <1>5
    <3>2. sem'[empty] + Bringing' = sem[empty] + Bringing
      BY <2>0
    <3>3. QED
      BY <2>0, <3>1, <3>2
  <2>3. sem'[empty] + Bringing' + Fetched' + Len(line') <= N
    BY <1>3, <1>5, <1>8, <2>2
  <2>4. QED
    BY <1>5, <1>9, <2>1, <2>3 DEF Slots
<1>12. Queue'
  <2> SUFFICES ASSUME ~late PROVE ~unlike' /\ index'[1] = (index'[2] + Len(line')) % N
                                  /\ \A k \in 1 .. Len(line') :
                                        shelf'[(index'[2] + k - 1) % N] = line'[k]
    BY <1>1 DEF Queue
  <2> DEFINE a == index[2]
             n == Len(line)
  <2>1. /\ ~unlike /\ index[1] = (a + n) % N
        /\ \A k \in 1 .. n : shelf[(a + k - 1) % N] = line[k]
    BY <1>0, <1>3 DEF Queue
  <2>2. a \in 0 .. N - 1 /\ n \in 1 .. N /\ n - 1 \in 0 .. N - 1
    BY <1>3, <1>5
  <2> HIDE DEF a, n
  <2>3. \A l \in 0 .. N - 1 : (NextShelf(a) + l) % N = (a + (l + 1)) % N
    BY <2>2, NextShelves
  <2>4. NextShelf(a) \in 0 .. N - 1
    BY <2>2, NextShelves
  <2>5. shelf[a] = line[1]
    <3>1. (a + 0) % N = a /\ a + 1 - 1 = a + 0
      BY <2>2
    <3>2. 1 \in 1 .. n
      BY <2>2
    <3>3. QED
      BY <2>1, <3>1, <3>2
  <2>6. ~unlike'
    BY <1>8, <2>1, <2>5 DEF Consume, a
  <2>7. index'[1] = (index'[2] + Len(line')) % N
    <3>1. (n - 1) + 1 = n
      BY <2>2
    <3>2. (NextShelf(a) + (n - 1)) % N = (a + n) % N
      BY <2>2, <2>3, <3>1
    <3>3. QED
      BY <1>7, <1>8, <2>1, <3>2 DEF a, n
  <2>8. ASSUME NEW k \in 1 .. n - 1 PROVE shelf[(NextShelf(a) + k - 1) % N] = line'[k]
    <3>1. /\ k - 1 \in 0 .. N - 1 /\ (k - 1) + 1 = k /\ k + 1 \in 1 .. n
          /\ a + (k + 1) - 1 = a + k /\ NextShelf(a) + k - 1 = NextShelf(a) + (k - 1)
      BY <2>2, <2>4
    <3>2. (NextShelf(a) + (k - 1)) % N = (a + k) % N
      BY <2>3, <3>1
    <3>3. shelf[(a + (k + 1) - 1) % N] = line[k + 1]
      BY <2>1, <3>1
    <3>4. line'[k] = line[k + 1]
      BY <1>8 DEF n
    <3>5. QED
      BY <3>1, <3>2, <3>3, <3>4
  <2>9. \A k \in 1 .. n - 1 : shelf'[(NextShelf(a) + k - 1) % N] = line'[k]
    BY <1>1, <2>8
  <2>10. QED
    BY <1>7, <1>8, <2>6, <2>7, <2>9 DEF a, n
<1>13. QED
  BY <1>9, <1>10, <1>11, <1>12 DEF PcInv

\* A killed process leaves the semaphores as they are, and takes with him what
\* he holds of them.
LEMMA KillStep ==
    ASSUME PcInv, NEW w \in Workers, PcKill(w)
    PROVE  PcInv'
<1> USE PcAssumption DEF Goes
<1>0. Shape /\ Created /\ SetFirst /\ Slots /\ Queue /\ AddUp
  BY DEF PcInv
<1>1. /\ UNCHANGED <<shelf, index, sem, line, late, unlike>>
      /\ at' = [at EXCEPT ![w] = "dead"] /\ dead' = dead + 1
      /\ at \in [Workers -> Pcs] /\ dead \in Nat /\ Len(line) \in Nat
  BY <1>0 DEF PcKill, Shape
<1>2. "dead" \in Pcs
  BY DEF Pcs
<1>3. \A x \in Workers : at'[x] = IF x = w THEN "dead" ELSE at[x]
  BY <1>1
<1>4. Shape'
  BY <1>0, <1>1, <1>2 DEF Shape
<1>5. Created'
  BY <1>0, <1>1, <1>3 DEF Created
<1>6. SetFirst'
  BY <1>0, <1>1, <1>3 DEF SetFirst
<1>7. Queue'
  BY <1>0, <1>1 DEF Queue
<1>8. /\ Inside \in Nat /\ Busy \in Nat
      /\ Bringing \in Nat /\ Brought \in Nat /\ Fetching \in Nat /\ Fetched \in Nat
      /\ at[w] \in {"pm", "in", "v"} => Busy > 0
  BY CountsAreNat
<1>9. Inside' \in {Inside, Inside - 1} /\ Busy' \in {Busy, Busy - 1}
      /\ (at[w] \notin {"pm", "in", "v"} => Busy' = Busy)
  <2>1. /\ Inside' = Inside + One("dead" = "in") - One(at[w] = "in")
        /\ Busy' = Busy + One("dead" \in {"pm", "in", "v"}) - One(at[w] \in {"pm", "in", "v"})
    BY <1>1, <1>2, CountsMove
  <2>2. QED
    BY <1>8, <2>1 DEF One
<1>10. Bringing' \in {Bringing, Bringing - 1} /\ Brought' \in {Brought, Brought - 1}
  <2>1. /\ Bringing' = Bringing + One(w \in Producers /\ "dead" \in {"pm", "in"})
                                - One(w \in Producers /\ at[w] \in {"pm", "in"})
        /\ Brought'  = Brought + One(w \in Producers /\ "dead" = "v")
                               - One(w \in Producers /\ at[w] = "v")
    BY <1>1, <1>2, CountsMove
  <2>2. QED
    BY <1>8, <2>1 DEF One
<1>11. Fetching' \in {Fetching, Fetching - 1} /\ Fetched' \in {Fetched, Fetched - 1}
  <2>1. /\ Fetching' = Fetching + One(w \notin Producers /\ "dead" \in {"pm", "in"})
                                - One(w \notin Producers /\ at[w] \in {"pm", "in"})
        /\ Fetched'  = Fetched + One(w \notin Producers /\ "dead" = "v")
                               - One(w \notin Producers /\ at[w] = "v")
    BY <1>1, <1>2, CountsMove
  <2>2. QED
    BY <1>8, <2>1 DEF One
<1>12. Slots'
  <2> SUFFICES ASSUME sem # NoSems
               PROVE  /\ sem[mutex] + Inside' <= 1
                      /\ sem[full] + Brought' + Fetching' <= Len(line)
                      /\ sem[empty] + Bringing' + Fetched' + Len(line) <= N
    BY <1>1 DEF Slots
  <2>1. /\ sem[mutex] \in Nat /\ sem[empty] \in Nat /\ sem[full] \in Nat
    BY <1>0, SemIs
  <2>2. /\ sem[mutex] + Inside <= 1
        /\ sem[full] + Brought + Fetching <= Len(line)
        /\ sem[empty] + Bringing + Fetched + Len(line) <= N
        /\ sem[full] + Brought \in Nat /\ sem[empty] + Bringing \in Nat
        /\ sem[empty] + Bringing + Fetched \in Nat
    BY SlotsAre
  <2>3. sem[mutex] + Inside' <= 1
    <3>1. sem[mutex] \in Nat /\ Inside \in Nat /\ Inside' \in {Inside, Inside - 1}
      BY <1>8, <1>9, <2>1
    <3>2. QED
      BY <2>2, <3>1
  <2>4. sem[full] + Brought' \in {sem[full] + Brought, (sem[full] + Brought) - 1}
    BY <1>8, <1>10, <2>1
  <2> DEFINE a  == sem[full] + Brought
             b  == sem[empty] + Bringing
             a1 == sem[full] + Brought'
             b1 == sem[empty] + Bringing'
             l  == Len(line)
  <2>5. a \in Nat /\ b \in Nat /\ l \in Nat
        /\ a + Fetching <= l /\ b + Fetched + l <= N
    BY <1>1, <2>2
  <2>6. (a1 = a \/ a1 = a - 1) /\ (b1 = b \/ b1 = b - 1)
    <3>1. b1 \in {b, b - 1}
      BY <1>8, <1>10, <2>1
    <3>2. QED
      BY <2>4, <3>1
  <2>e. Fetching \in Nat /\ Fetched \in Nat /\ N \in Nat
    BY <1>8
  <2>f. /\ Fetching' = Fetching \/ Fetching' = Fetching - 1
        /\ Fetched' = Fetched \/ Fetched' = Fetched - 1
    BY <1>11
  <2> HIDE DEF a, b, a1, b1, l
  <2>7. a1 + Fetching' <= l
    <3>1. CASE Fetching' = Fetching
      BY <2>5, <2>6, <2>e, <3>1
    <3>2. CASE Fetching' = Fetching - 1
      BY <2>5, <2>6, <2>e, <3>2
    <3>3. QED
      BY <2>f, <3>1, <3>2
  <2>8. b1 + Fetched' + l <= N
    <3>1. CASE Fetched' = Fetched
      BY <2>5, <2>6, <2>e, <3>1
    <3>2. CASE Fetched' = Fetched - 1
      BY <2>5, <2>6, <2>e, <3>2
    <3>3. QED
      BY <2>f, <3>1, <3>2
  <2>9. QED
    BY <2>3, <2>7, <2>8 DEF a1, b1, l
<1>13. AddUp'
  <2> SUFFICES ASSUME sem # NoSems, ~Setting'
               PROVE  LET sum == sem[empty] + sem[full] + Busy'
                      IN sum = N \/ (dead + 1 > 0 /\ (sum = 0 \/ (N - (dead + 1) <= sum /\ sum <= N)))
    BY <1>1 DEF AddUp
  <2>1. sem[empty] \in Nat /\ sem[full] \in Nat /\ sem[empty] + sem[full] \in Nat
    BY <1>0, SemIs, SlotsAre
  <2>2. CASE Setting
    <3>1. at[w] \in {"set0", "set1"}
      BY <1>3, <2>2 DEF Setting
    <3>2. /\ sem = IF at[w] = "set0" THEN <<0, 0, 0>> ELSE <<1, 0, 0>>
          /\ \A x \in Workers : x # w => at[x] \notin {"set0", "set1", "pm", "in", "v"}
      BY <1>0, <3>1 DEF SetFirst
    <3>3. \A x \in Workers : at[x] \notin {"pm", "in", "v"}
      BY <3>1, <3>2
    <3>4. Busy = 0 /\ Busy' = Busy
      BY <1>9, <3>1, <3>3, CountsAreNat
    <3>5. sem[empty] = 0 /\ sem[full] = 0
      BY <3>2 DEF empty, full
    <3>6. QED
      BY <1>1, <3>4, <3>5
  <2>3. CASE ~Setting
    <3> DEFINE sum == sem[empty] + sem[full] + Busy
               next == sem[empty] + sem[full] + Busy'
    <3>1. sum = N \/ (dead > 0 /\ (sum = 0 \/ (N - dead <= sum /\ sum <= N)))
      BY <1>0, <2>3 DEF AddUp
    <3>2. sum \in Nat /\ next \in {sum, sum - 1} /\ (sum = 0 => next = 0)
      <4>1. Busy' = Busy \/ (Busy' = Busy - 1 /\ Busy > 0)
        BY <1>8, <1>9
      <4>2. QED
        BY <1>8, <2>1, <4>1
    <3> HIDE DEF sum, next
    <3>3. next = N \/ (dead + 1 > 0 /\ (next = 0 \/ (N - (dead + 1) <= next /\ next <= N)))
      BY <1>1, <3>1, <3>2
    <3>4. QED
      BY <3>3 DEF next
  <2>4. QED
    BY <2>2, <2>3
<1>14. QED
  BY <1>4, <1>5, <1>6, <1>7, <1>12, <1>13 DEF PcInv

LEMMA PcStep == PcInv /\ [PcNext]_pcVars => PcInv'
<1> SUFFICES ASSUME PcInv, [PcNext]_pcVars PROVE PcInv'
  OBVIOUS
<1>1. ASSUME NEW w \in Workers, GetIndex(w) \/ ZeroIndex(w) \/ GetSems(w) PROVE PcInv'
  BY <1>1, BeforeSems
<1>2. ASSUME NEW w \in Workers, SetSem(w) PROVE PcInv'
  BY <1>2, SettingSems
<1>3. ASSUME NEW w \in Workers, PSlot(w) \/ PMutex(w) \/ VSlot(w) PROVE PcInv'
  BY <1>3, Semops
<1>4. ASSUME NEW w \in Workers, Produce(w) PROVE PcInv'
  BY <1>4, ProduceStep
<1>5. ASSUME NEW w \in Workers, Consume(w) PROVE PcInv'
  BY <1>5, ConsumeStep
<1>6. ASSUME NEW w \in Workers, PcKill(w) PROVE PcInv'
  BY <1>6, KillStep
<1>7. CASE UNCHANGED pcVars
  <2>1. /\ Inside' = Inside /\ Busy' = Busy
        /\ Bringing' = Bringing /\ Brought' = Brought
        /\ Fetching' = Fetching /\ Fetched' = Fetched
        /\ Setting' = Setting
    BY <1>7 DEF pcVars, Inside, Busy, Bringing, Brought, Fetching, Fetched, Setting, Num
  <2>2. Shape' /\ Created' /\ SetFirst'
    BY <1>7 DEF pcVars, PcInv, Shape, Created, SetFirst
  <2>3. Slots' /\ Queue' /\ AddUp'
    BY <1>7, <2>1 DEF pcVars, PcInv, Slots, Queue, AddUp
  <2>4. QED
    BY <2>2, <2>3 DEF PcInv
<1>8. QED
  BY <1>1, <1>2, <1>3, <1>4, <1>5, <1>6, <1>7 DEF PcNext, Worker

-----------------------------------------------------------------------------
\* Whichever program runs, a step is a step of it or leaves its variables alone.
LEMMA OneProgramSteps ==
    [ProcessesNext]_processesVars => [PcNext]_pcVars /\ [DpNext]_dpVars
BY DEF ProcessesNext, InMarket, AtTable, processesVars, pcVars, dpVars

\* For every number of producers, consumers and shelves, and whoever is killed
\* when: the shelves are a queue, every consumer gets the oldest good, and the
\* semaphores with what the processes hold of them add up to the shelves.
THEOREM ShelvesKeptHolds == ProcessesSpec => []ShelvesKept
<1>1. ProcessesInit => PcInv
  BY PcInitially DEF ProcessesInit
<1>2. PcInv /\ [ProcessesNext]_processesVars => PcInv'
  BY PcStep, OneProgramSteps
<1>3. PcInv => ShelvesKept
  BY PcKept
<1>4. QED
  BY <1>1, <1>2, <1>3, PTL DEF ProcessesSpec

\* Whoever is killed when: neighbours do not eat at a time, and of those who
\* wait for forks that were granted only the ones from whom the death of a
\* neighbour took the grant back do not find their semaphore up, ever.
THEOREM ForksKeptHolds == ProcessesSpec => []ForksKept
<1>1. ProcessesInit => DpInv
  BY DpInitially DEF ProcessesInit
<1>2. DpInv /\ [ProcessesNext]_processesVars => DpInv'
  BY DpStep, OneProgramSteps
<1>3. DpInv => ForksKept
  BY DpKept
<1>4. QED
  BY <1>1, <1>2, <1>3, PTL DEF ProcessesSpec
=============================================================================
