---------------------------- MODULE DriverProofs ----------------------------
(***************************************************************************)
(* What the run of MCDrivers checks of the drivers' timers, of sbull's     *)
(* medium, of snull's buffers, of the order of lines and bytes and of      *)
(* those who wait, for any number of processes and packets and any sizes.  *)
(* Each driver has an invariant of its own, which only its own steps       *)
(* change; a part of its own puts the four together.  The last part is     *)
(* about scullsingle and about sculluid and scullwuid, for any finite      *)
(* number of processes and any users.                                      *)
(***************************************************************************)
EXTENDS MCDrivers, ScullAccess, FiniteSetTheorems, TLAPS

-----------------------------------------------------------------------------
(* sbull.                                                                  *)

SbIn == {u \in SbUsers : by[u] = "in"}

\* The timer is pending, or its function waits, under a user only after a
\* release has started it late.
SbTimerStopped == users > 0 /\ (sbTimer \/ expired) => sbLate

SbShape ==
    /\ IsFiniteSet(SbIn) /\ users = Cardinality(SbIn)
    /\ by \in [SbUsers -> {"out", "opening", "in"}]
    /\ DOMAIN disk = Sectors

SbInv == SbShape /\ SbMediumKept /\ SbTimerSane /\ SbTimerStopped

LEMMA SbInitially == SbInit => SbInv
<1> SUFFICES ASSUME SbInit PROVE SbInv
  OBVIOUS
<1>1. SbIn = {}
  BY DEF SbIn, SbInit
<1>2. IsFiniteSet(SbIn) /\ Cardinality(SbIn) = 0
  BY <1>1, FS_EmptySet
<1>3. QED
  BY <1>2 DEF SbInit, SbInv, SbShape, SbMediumKept, SbTimerSane, SbTimerStopped

\* One process more or less inside.
LEMMA SbComesAndGoes ==
    ASSUME SbShape, NEW u \in SbUsers
    PROVE  /\ users \in Nat /\ (by[u] = "in" => users > 0)
           /\ by[u] # "in" /\ by' = [by EXCEPT ![u] = "in"] /\ users' = users + 1
                 => IsFiniteSet(SbIn') /\ users' = Cardinality(SbIn')
           /\ by[u] = "in" /\ by' = [by EXCEPT ![u] = "out"] /\ users' = users - 1
                 => IsFiniteSet(SbIn') /\ users' = Cardinality(SbIn')
<1>1. IsFiniteSet(SbIn) /\ users = Cardinality(SbIn) /\ by \in [SbUsers -> {"out", "opening", "in"}]
  BY DEF SbShape
<1>2. users \in Nat /\ (users = 0 <=> SbIn = {})
  BY <1>1, FS_CardinalityType, FS_EmptySet
<1>3. by[u] = "in" => users > 0
  BY <1>2 DEF SbIn
<1>4. ASSUME by[u] # "in", by' = [by EXCEPT ![u] = "in"], users' = users + 1
      PROVE  IsFiniteSet(SbIn') /\ users' = Cardinality(SbIn')
  <2>1. SbIn' = SbIn \cup {u} /\ u \notin SbIn
    BY <1>1, <1>4 DEF SbIn
  <2>2. QED
    BY <1>1, <1>4, <2>1, FS_AddElement
<1>5. ASSUME by[u] = "in", by' = [by EXCEPT ![u] = "out"], users' = users - 1
      PROVE  IsFiniteSet(SbIn') /\ users' = Cardinality(SbIn')
  <2>1. SbIn' = SbIn \ {u} /\ u \in SbIn
    BY <1>1, <1>5 DEF SbIn
  <2>2. QED
    BY <1>1, <1>5, <2>1, FS_RemoveElement
<1>6. QED
  BY <1>2, <1>3, <1>4, <1>5

LEMMA SbStep == SbInv /\ [SbNext]_sbVars => SbInv'
<1> SUFFICES ASSUME SbInv, [SbNext]_sbVars PROVE SbInv'
  OBVIOUS
<1> USE DEF SbMediumKept, SbTimerSane, SbTimerStopped
<1>0. SbShape /\ SbMediumKept /\ SbTimerSane /\ SbTimerStopped /\ users \in Nat
  BY FS_CardinalityType DEF SbInv, SbShape
<1>1. ASSUME NEW u \in SbUsers, SbStop(u), UNCHANGED <<bios, expired, insane>> PROVE SbInv'
  <2>1. SbIn' = SbIn
    BY <1>0, <1>1 DEF SbStop, SbIn, SbShape
  <2>2. SbShape'
    BY <1>0, <1>1, <2>1 DEF SbStop, SbShape
  <2>3. QED
    BY <1>0, <1>1, <2>2 DEF SbStop, SbInv
<1>2. ASSUME NEW u \in SbUsers, SbOpen(u), UNCHANGED <<bios, expired, insane>> PROVE SbInv'
  <2>1. by[u] # "in" /\ by' = [by EXCEPT ![u] = "in"] /\ users' = users + 1
    BY <1>2 DEF SbOpen
  <2>2. IsFiniteSet(SbIn') /\ users' = Cardinality(SbIn')
    BY <1>0, <2>1, SbComesAndGoes
  <2>3. SbShape'
    BY <1>0, <1>2, <2>1, <2>2 DEF SbOpen, SbShape
  <2>4. SbMediumKept'
    BY <1>0, <1>2 DEF SbOpen, FirstUser
  <2>5. SbTimerSane' /\ SbTimerStopped'
    BY <1>0, <1>2 DEF SbOpen
  <2>6. QED
    BY <2>3, <2>4, <2>5 DEF SbInv
<1>3. ASSUME NEW u \in SbUsers, SbRelease(u), UNCHANGED <<bios, expired, insane>> PROVE SbInv'
  <2>1. by[u] = "in" /\ by' = [by EXCEPT ![u] = "out"] /\ users' = users - 1
    BY <1>3 DEF SbRelease
  <2>2. IsFiniteSet(SbIn') /\ users' = Cardinality(SbIn') /\ users > 0
    BY <1>0, <2>1, SbComesAndGoes
  <2>3. SbShape'
    BY <1>0, <1>3, <2>1, <2>2 DEF SbRelease, SbShape
  <2>4. users' > 0 => users > 0 /\ ~LastUser
    BY <1>0, <2>1 DEF LastUser
  <2>5. SbMediumKept'
    BY <1>0, <1>3, <2>1, <2>2 DEF SbRelease
  <2>6. SbTimerSane'
    BY <1>0, <1>3, <2>2 DEF SbRelease
  <2>7. SbTimerStopped'
    BY <1>0, <1>3, <2>2, <2>4 DEF SbRelease
  <2>8. QED
    BY <2>3, <2>5, <2>6, <2>7 DEF SbInv
<1>4. ASSUME NEW u \in SbUsers, SbWrite(u), UNCHANGED <<bios, expired, insane>> PROVE SbInv'
  <2>1. SbIn' = SbIn /\ by' = by /\ UNCHANGED <<users, mediaChange, sbTimer, sbLate, sbDouble>>
    BY <1>4 DEF SbWrite, SbIn
  <2>2. PICK s \in Sectors, n \in 1 .. 2, m \in 0 .. 2, b \in SbData, c \in SbData, x \in SbData :
           LET first  == s .. s + n - 1
               second == s + n .. s + n + m - 1
               moved  == Moved(s + n, LengthTaken(n, m))
               right  == first \cup (second \cap moved)
           IN /\ s + n + m <= SbSectors
              /\ wrote' = [i \in Sectors |-> IF i \in first THEN b ELSE IF i \in second THEN c ELSE wrote[i]]
              /\ disk' = [i \in Sectors |-> IF i \in right THEN wrote'[i] ELSE IF i \in moved THEN x ELSE disk[i]]
              /\ uneven' = (uneven \ right) \cup (second \ moved) \cup (moved \ second)
    BY <1>4 DEF SbWrite
  <2> DEFINE first  == s .. s + n - 1
             second == s + n .. s + n + m - 1
             moved  == Moved(s + n, LengthTaken(n, m))
             right  == first \cup (second \cap moved)
  <2>3. /\ s + n + m <= SbSectors
        /\ wrote' = [i \in Sectors |-> IF i \in first THEN b ELSE IF i \in second THEN c ELSE wrote[i]]
        /\ disk' = [i \in Sectors |-> IF i \in right THEN wrote'[i] ELSE IF i \in moved THEN x ELSE disk[i]]
        /\ uneven' = (uneven \ right) \cup (second \ moved) \cup (moved \ second)
    BY <2>2
  \* With segments of the right length nothing is left out.
  <2>4. ~bios => moved = second
    BY <2>3, SbullAssumption DEF Moved, LengthTaken, Sectors
  <2> HIDE DEF first, second, moved
  <2>5. ~bios => uneven' = {}
    BY <1>0, <2>3, <2>4
  <2>6. ASSUME NEW i \in Sectors, i \notin uneven' PROVE disk'[i] = wrote'[i]
    <3>1. CASE i \in right
      BY <2>3, <3>1
    <3>2. CASE i \notin right
      <4>1. i \notin moved /\ i \notin second /\ i \notin first /\ i \notin uneven
        BY <2>3, <2>6, <3>2
      <4>2. QED
        BY <1>0, <2>3, <4>1
    <3>3. QED
      BY <3>1, <3>2
  <2>7. DOMAIN disk' = Sectors
    BY <2>3
  <2>8. QED
    BY <1>0, <1>4, <2>1, <2>5, <2>6, <2>7 DEF SbInv, SbShape, Sectors
<1>5. ASSUME SbTimer, UNCHANGED <<disk, users, by, wrote, uneven, sbLate, sbDouble, bios>> PROVE SbInv'
  <2>1. SbShape'
    BY <1>0, <1>5 DEF SbShape, SbIn
  <2>2. QED
    BY <1>0, <1>5, <2>1 DEF SbTimer, NotInUse, SbInv
<1>6. CASE UNCHANGED sbVars
  BY <1>0, <1>6 DEF sbVars, SbInv, SbShape, SbIn
<1>7. QED
  BY <1>1, <1>2, <1>3, <1>4, <1>5, <1>6 DEF SbNext

-----------------------------------------------------------------------------
(* shortprint.                                                             *)

SpPlaces == 0 .. SpPage - 1

SpShape ==
    /\ spHead \in SpPlaces /\ spTail \in SpPlaces /\ put \in Nat
    /\ DOMAIN w = SpWriters
    /\ \A t \in SpWriters : w[t] = [pc |-> w[t].pc, left |-> w[t].left] /\ w[t].left \in Nat
    /\ \A s, t \in SpWriters : s # t => w[s].pc = "out" \/ w[t].pc = "out"

\* The timer is pending while output is not active only after a late start.
SpTimerNeeded == spTimer => active \/ spLate

\* Whoever sleeps was told that at most half of the ring is free.
SpHalfFull == (\E t \in SpWriters : w[t].pc = "asleep") => ~HalfFree(spTail)

SpInv ==
    /\ SpShape /\ SpTimerNeeded /\ SpHalfFull /\ SpTimerAddedOnce
    /\ SpOutputStarted /\ SpSomethingComing /\ SpSleepersNotForgotten

\* The bytes in the ring, in their order, follow those that are out.
Around(from, to, size) == IF from <= to THEN to - from ELSE to + size - from

SpRank(c) == Around(spTail, c, SpPage)
SpRing ==
    /\ DOMAIN cells = SpPlaces /\ out \in Seq(Nat)
    /\ put = Len(out) + SpRank(spHead)
    /\ \A c \in SpPlaces : SpRank(c) < SpRank(spHead) => cells[c] = Len(out) + 1 + SpRank(c)
    /\ SpPrintsInOrder

LEMMA SpPageSize == SpPage \in Nat /\ SpPage > 2
  BY ShortPrintAssumption

LEMMA SpAround == \A i \in SpPlaces : i % SpPage = i /\ (i + SpPage) % SpPage = i
  BY SpPageSize, SMT DEF SpPlaces

\* The room behind the head of the ring, counted as the wake-up counts it.
LEMMA SpRoom ==
    ASSUME spHead \in SpPlaces, NEW i \in SpPlaces
    PROVE  (SpPage + i - spHead) % SpPage = IF i >= spHead THEN i - spHead ELSE SpPage + i - spHead
<1>0. SpPage \in Nat /\ spHead \in 0 .. SpPage - 1 /\ i \in 0 .. SpPage - 1
  BY SpPageSize DEF SpPlaces
<1>1. CASE i >= spHead
  <2>1. i - spHead \in SpPlaces /\ SpPage + i - spHead = (i - spHead) + SpPage
    BY <1>0, <1>1 DEF SpPlaces
  <2>2. ((i - spHead) + SpPage) % SpPage = i - spHead
    BY <2>1, SpAround
  <2>3. QED
    BY <1>1, <2>1, <2>2
<1>2. CASE i < spHead
  <2>1. SpPage + i - spHead \in SpPlaces
    BY <1>0, <1>2 DEF SpPlaces
  <2>2. (SpPage + i - spHead) % SpPage = SpPage + i - spHead
    BY <2>1, SpAround
  <2>3. QED
    BY <1>0, <1>2, <2>2
<1>3. QED
  BY <1>0, <1>1, <1>2

\* A ring with no room is not half free, nor is one that is taken for full
\* because its head meets its tail.
LEMMA SpFullRing ==
    ASSUME spHead \in SpPlaces, spTail \in SpPlaces
    PROVE  /\ OutSpace <= 0 => spHead # spTail /\ ~HalfFree(spTail)
           /\ NextTail \in SpPlaces
           /\ NextTail = spHead /\ spHead # spTail => HalfFree(spTail)
<1>0. /\ SpPage \in Nat /\ SpPage > 2
      /\ spHead \in 0 .. SpPage - 1 /\ spTail \in 0 .. SpPage - 1
  BY SpPageSize DEF SpPlaces
<1>1. 1 <= SpPage \div 2 /\ SpPage \div 2 < SpPage - 1
  BY <1>0, SMT
<1>2. (SpPage + spTail - spHead) % SpPage
         = IF spTail >= spHead THEN spTail - spHead ELSE SpPage + spTail - spHead
  BY SpRoom
<1>3. NextTail = IF spTail + 1 = SpPage THEN 0 ELSE spTail + 1
  <2>1. CASE spTail + 1 = SpPage
    <3>1. 0 \in SpPlaces /\ spTail + 1 = 0 + SpPage
      BY <1>0, <2>1 DEF SpPlaces
    <3>2. (0 + SpPage) % SpPage = 0
      BY <3>1, SpAround
    <3>3. QED
      BY <2>1, <3>1, <3>2 DEF NextTail
  <2>2. CASE spTail + 1 # SpPage
    <3>1. spTail + 1 \in SpPlaces
      BY <1>0, <2>2 DEF SpPlaces
    <3>2. QED
      BY <2>2, <3>1, SpAround DEF NextTail
  <2>3. QED
    BY <2>1, <2>2
<1>4. NextTail \in SpPlaces
  BY <1>0, <1>3 DEF SpPlaces
<1>5. ASSUME OutSpace <= 0 PROVE spHead # spTail /\ ~HalfFree(spTail)
  <2>1. (spHead = SpPage - 1 /\ spTail = 0) \/ spHead + 1 = spTail
    BY <1>0, <1>5 DEF OutSpace
  <2>2. (SpPage + spTail - spHead) % SpPage = 1 \/ spTail = spHead + 1
    BY <1>0, <1>2, <2>1
  <2>3. (SpPage + spTail - spHead) % SpPage = 1
    BY <1>0, <1>2, <2>1
  <2>4. QED
    BY <1>0, <1>1, <2>1, <2>3 DEF HalfFree
<1>6. ASSUME NextTail = spHead, spHead # spTail PROVE HalfFree(spTail)
  <2>1. (SpPage + spTail - spHead) % SpPage = SpPage - 1
    BY <1>0, <1>2, <1>3, <1>6
  <2>2. QED
    BY <1>0, <1>1, <2>1 DEF HalfFree
<1>7. QED
  BY <1>4, <1>5, <1>6

LEMMA SpInitially == SpInit => SpInv
  BY SpPageSize
     DEF SpInit, SpInv, SpShape, SpPlaces, SpTimerNeeded, SpHalfFull, SpTimerAddedOnce,
         SpOutputStarted, SpSomethingComing, SpSleepersNotForgotten

\* Only one writer at a time has anything to do.
LEMMA SpWriterSteps ==
    ASSUME SpShape, NEW t \in SpWriters, NEW pcTo, NEW left \in Nat, W(t, pcTo, left),
           w[t].pc # "out" \/ OutSem
    PROVE  /\ DOMAIN w' = SpWriters
           /\ \A s \in SpWriters : w'[s] = [pc |-> w'[s].pc, left |-> w'[s].left] /\ w'[s].left \in Nat
           /\ w'[t].pc = pcTo /\ w'[t].left = left
           /\ \A s \in SpWriters : s # t => w'[s].pc = "out" /\ w[s].pc = "out"
<1>1. \A s \in SpWriters : s # t => w[s].pc = "out"
  BY DEF SpShape, OutSem
<1>2. /\ DOMAIN w' = SpWriters
      /\ \A s \in SpWriters : w'[s] = IF s = t THEN [pc |-> pcTo, left |-> left] ELSE w[s]
  BY DEF W, SpShape
<1>3. QED
  BY <1>1, <1>2 DEF SpShape

LEMMA SpProcessStep == SpInv /\ Process => SpInv'
<1> SUFFICES ASSUME SpInv, Process PROVE SpInv'
  OBVIOUS
<1>0. /\ SpShape /\ SpTimerNeeded /\ SpHalfFull /\ SpTimerAddedOnce
      /\ SpOutputStarted /\ SpSomethingComing /\ SpSleepersNotForgotten
      /\ SpPage \in Nat /\ SpPage > 2
  BY SpPageSize DEF SpInv
<1>a. UNCHANGED <<spTail, worker, tm, owed, out, spLate>>
  BY DEF Process
<1>1. ASSUME NEW t \in SpWriters, Begin(t) PROVE SpInv'
  <2>1. PICK n \in 1 .. MaxBytes - put : W(t, "space", n)
    BY <1>1 DEF Begin
  <2>2. n \in Nat /\ w[t].pc = "out" /\ OutSem
    BY <1>1, <1>0, ShortPrintAssumption DEF Begin, SpShape
  <2>3. /\ DOMAIN w' = SpWriters
        /\ \A s \in SpWriters : w'[s] = [pc |-> w'[s].pc, left |-> w'[s].left] /\ w'[s].left \in Nat
        /\ w'[t].pc = "space"
        /\ \A s \in SpWriters : s # t => w'[s].pc = "out" /\ w[s].pc = "out"
    BY <1>0, <2>1, <2>2, SpWriterSteps
  <2>4. UNCHANGED <<spHead, spTail, active, spTimer, spQueued, worker, tm, closer, put, spDouble, spLate>>
    BY <1>1, <1>a DEF Begin
  <2>5. SpShape'
    BY <1>0, <2>3, <2>4 DEF SpShape, SpPlaces
  <2>6. \A s \in SpWriters : w'[s].pc # "asleep" /\ w[s].pc # "start"
    BY <2>2, <2>3
  <2>7. SpHalfFull' /\ SpSleepersNotForgotten' /\ SpOutputStarted'
    BY <1>0, <2>4, <2>6 DEF SpHalfFull, SpSleepersNotForgotten, SpOutputStarted
  <2>8. QED
    BY <1>0, <2>4, <2>5, <2>7 DEF SpInv, SpTimerNeeded, SpTimerAddedOnce, SpSomethingComing
<1>2. ASSUME NEW t \in SpWriters, Move(t) PROVE SpInv'
  <2> DEFINE n == IF OutSpace > w[t].left THEN w[t].left ELSE OutSpace
  <2>1. UNCHANGED <<spTail, active, spTimer, spQueued, worker, tm, closer, spDouble, spLate>>
    BY <1>2, <1>a DEF Move
  <2>2. w[t].pc = "space" /\ w[t].left \in Nat
    BY <1>2, <1>0 DEF Move, SpShape
  <2>3. \A s \in SpWriters : w[s].pc # "asleep" /\ w[s].pc # "start"
    BY <1>0, <2>2 DEF SpShape
  <2>4. spHead # spTail => active
    BY <1>0, <2>3 DEF SpOutputStarted
  <2>5. CASE OutSpace <= 0 /\ W(t, "asleep", w[t].left) /\ UNCHANGED <<spHead, put>>
    <3>1. /\ DOMAIN w' = SpWriters
          /\ \A s \in SpWriters : w'[s] = [pc |-> w'[s].pc, left |-> w'[s].left] /\ w'[s].left \in Nat
          /\ \A s \in SpWriters : s # t => w'[s].pc = "out"
      BY <1>0, <2>2, <2>5, SpWriterSteps
    <3>2. spHead # spTail /\ ~HalfFree(spTail)
      BY <1>0, <2>5, SpFullRing DEF SpShape
    <3>3. ~HalfFree(spTail)'
      BY <2>1, <2>5, <3>2 DEF HalfFree
    <3>4. SpShape'
      BY <1>0, <2>1, <2>5, <3>1 DEF SpShape, SpPlaces
    <3>5. SpHalfFull' /\ SpSleepersNotForgotten' /\ SpOutputStarted'
      BY <1>0, <2>1, <2>4, <2>5, <3>2, <3>3 DEF SpHalfFull, SpSleepersNotForgotten, SpOutputStarted
    <3>6. QED
      BY <1>0, <2>1, <3>4, <3>5 DEF SpInv, SpTimerNeeded, SpTimerAddedOnce, SpSomethingComing
  <2>6. CASE OutSpace > 0 /\ spHead' = (spHead + n) % SpPage /\ put' = put + n
             /\ W(t, "start", w[t].left - n)
    <3>1. OutSpace \in Nat /\ n \in Nat /\ w[t].left - n \in Nat
      BY <1>0, <2>2, <2>6 DEF SpShape, SpPlaces, OutSpace
    <3> HIDE DEF n
    <3>2. spHead' \in SpPlaces /\ put' \in Nat
      BY <1>0, <2>6, <3>1 DEF SpShape, SpPlaces
    <3>3. /\ DOMAIN w' = SpWriters
          /\ \A s \in SpWriters : w'[s] = [pc |-> w'[s].pc, left |-> w'[s].left] /\ w'[s].left \in Nat
          /\ w'[t].pc = "start"
          /\ \A s \in SpWriters : s # t => w'[s].pc = "out"
      BY <1>0, <2>2, <2>6, <3>1, SpWriterSteps
    <3>4. SpShape'
      BY <1>0, <2>1, <3>2, <3>3 DEF SpShape, SpPlaces
    <3>5. SpHalfFull' /\ SpSleepersNotForgotten' /\ SpOutputStarted'
      BY <1>0, <2>1, <3>3 DEF SpHalfFull, SpSleepersNotForgotten, SpOutputStarted
    <3>6. QED
      BY <1>0, <2>1, <3>4, <3>5 DEF SpInv, SpTimerNeeded, SpTimerAddedOnce, SpSomethingComing
  <2>7. CASE W(t, "out", 0) /\ UNCHANGED <<spHead, put>>
    <3>1. /\ DOMAIN w' = SpWriters
          /\ \A s \in SpWriters : w'[s] = [pc |-> w'[s].pc, left |-> w'[s].left] /\ w'[s].left \in Nat
          /\ w'[t].pc = "out"
          /\ \A s \in SpWriters : s # t => w'[s].pc = "out"
      BY <1>0, <2>2, <2>7, SpWriterSteps
    <3>2. SpShape'
      BY <1>0, <2>1, <2>7, <3>1 DEF SpShape, SpPlaces
    <3>3. SpHalfFull' /\ SpSleepersNotForgotten' /\ SpOutputStarted'
      BY <1>0, <2>1, <2>4, <2>7, <3>1 DEF SpHalfFull, SpSleepersNotForgotten, SpOutputStarted
    <3>4. QED
      BY <1>0, <2>1, <3>2, <3>3 DEF SpInv, SpTimerNeeded, SpTimerAddedOnce, SpSomethingComing
  <2>8. QED
    BY <1>2, <2>5, <2>6, <2>7 DEF Move
<1>3. ASSUME NEW t \in SpWriters, Start(t) PROVE SpInv'
  <2>1. w[t].pc = "start" /\ w[t].left \in Nat /\ UNCHANGED <<spHead, spTail, worker, tm, closer, put, spLate>>
    BY <1>3, <1>0, <1>a DEF Start, SpShape
  <2> DEFINE pcTo == IF w[t].left > 0 THEN "space" ELSE "out"
  <2>2. W(t, pcTo, w[t].left)
    BY <1>3 DEF Start
  <2>3. /\ DOMAIN w' = SpWriters
        /\ \A s \in SpWriters : w'[s] = [pc |-> w'[s].pc, left |-> w'[s].left] /\ w'[s].left \in Nat
        /\ w'[t].pc = pcTo
        /\ \A s \in SpWriters : s # t => w'[s].pc = "out"
    BY <1>0, <2>1, <2>2, SpWriterSteps
  <2>4. SpShape'
    BY <1>0, <2>1, <2>3 DEF SpShape, SpPlaces
  <2>5. active'
    BY <1>3 DEF Start, IfActive
  <2>6. SpHalfFull' /\ SpSleepersNotForgotten' /\ SpOutputStarted'
    BY <2>3, <2>5 DEF SpHalfFull, SpSleepersNotForgotten, SpOutputStarted
  <2>7. SpTimerNeeded' /\ SpSomethingComing'
    BY <1>0, <1>3, <2>1, <2>5 DEF Start, IfActive, SpTimerNeeded, SpSomethingComing
  <2>8. SpTimerAddedOnce'
    BY <1>0, <1>3, <2>1 DEF Start, IfActive, SpTimerNeeded, SpTimerAddedOnce
  <2>9. QED
    BY <2>4, <2>6, <2>7, <2>8 DEF SpInv
<1>4. ASSUME NEW t \in SpWriters, Interrupted(t) PROVE SpInv'
  <2>1. /\ w[t].pc = "asleep" /\ W(t, "out", 0)
        /\ UNCHANGED <<spHead, spTail, active, spTimer, spQueued, worker, tm, closer, put, spDouble, spLate>>
    BY <1>4, <1>a DEF Interrupted
  <2>2. /\ DOMAIN w' = SpWriters
        /\ \A s \in SpWriters : w'[s] = [pc |-> w'[s].pc, left |-> w'[s].left] /\ w'[s].left \in Nat
        /\ w'[t].pc = "out"
        /\ \A s \in SpWriters : s # t => w'[s].pc = "out" /\ w[s].pc = "out"
    BY <1>0, <2>1, SpWriterSteps
  <2>3. SpShape'
    BY <1>0, <2>1, <2>2 DEF SpShape, SpPlaces
  <2>4. SpHalfFull' /\ SpSleepersNotForgotten' /\ SpOutputStarted'
    BY <1>0, <2>1, <2>2 DEF SpHalfFull, SpSleepersNotForgotten, SpOutputStarted
  <2>5. QED
    BY <1>0, <2>1, <2>3, <2>4 DEF SpInv, SpTimerNeeded, SpTimerAddedOnce, SpSomethingComing
<1>5. ASSUME SpRelease PROVE SpInv'
  <2>1. UNCHANGED <<spHead, spTail, active, spTimer, spQueued, worker, tm, w, put, spDouble, spLate>>
    BY <1>5, <1>a DEF SpRelease
  <2>2. closer' = "asleep" => active
    BY <1>5 DEF SpRelease
  <2>3. SpHalfFull'
    BY <1>0, <2>1 DEF SpHalfFull, HalfFree
  <2>4. QED
    BY <1>0, <2>1, <2>2, <2>3
       DEF SpInv, SpShape, SpPlaces, SpTimerNeeded, SpTimerAddedOnce, SpSomethingComing,
           SpOutputStarted, SpSleepersNotForgotten
<1>6. QED
  BY <1>1, <1>2, <1>3, <1>4, <1>5 DEF Process

LEMMA SpWorkStep == SpInv /\ Work /\ UNCHANGED <<cells, spHead, tm, put, spDouble>> => SpInv'
<1> SUFFICES ASSUME SpInv, Work, UNCHANGED <<cells, spHead, tm, put, spDouble>> PROVE SpInv'
  OBVIOUS
<1>0. /\ SpShape /\ SpTimerNeeded /\ SpHalfFull /\ SpTimerAddedOnce
      /\ SpOutputStarted /\ SpSomethingComing /\ SpSleepersNotForgotten
  BY DEF SpInv
<1>1. CASE worker = "off" /\ spQueued /\ spQueued' = FALSE /\ worker' = "wait"
           /\ UNCHANGED <<spTail, active, spTimer, owed, w, closer, out, spLate>>
  <2>1. SpShape' /\ SpHalfFull'
    BY <1>0, <1>1 DEF SpShape, SpPlaces, SpHalfFull, HalfFree
  <2>2. QED
    BY <1>0, <1>1, <2>1
       DEF SpInv, SpTimerNeeded, SpTimerAddedOnce, SpSomethingComing, SpOutputStarted, SpSleepersNotForgotten
<1>2. ASSUME worker = "wait", worker' = "off", UNCHANGED spQueued,
             w' = [t \in SpWriters |-> IF w[t].pc = "asleep" /\ HalfFree(spTail')
                                         THEN [w[t] EXCEPT !.pc = "space"] ELSE w[t]],
             IF spHead = spTail
               THEN /\ active' = FALSE /\ spTimer' = NoTimer /\ closer' = Awake
                    /\ UNCHANGED <<spTail, owed, out, spLate>>
               ELSE /\ spTimer' = TRUE /\ out' = Append(out, cells[spTail]) /\ spTail' = NextTail
                    /\ owed' = owed + 1 /\ spLate' = (spLate \/ ~active)
                    /\ UNCHANGED <<active, closer>>
      PROVE  SpInv'
  <2> DEFINE woken == HalfFree(spTail')
  <2>1. \A t \in SpWriters : w'[t] = IF w[t].pc = "asleep" /\ woken THEN [w[t] EXCEPT !.pc = "space"] ELSE w[t]
    BY <1>2
  <2>2. woken <=> HalfFree(spTail)'
    BY DEF HalfFree
  <2> HIDE DEF woken
  <2>3. \A t \in SpWriters :
           /\ w'[t] = [pc |-> w'[t].pc, left |-> w'[t].left] /\ w'[t].left = w[t].left
           /\ w'[t].pc = IF w[t].pc = "asleep" /\ woken THEN "space" ELSE w[t].pc
    BY ZenonT(60), <1>0, <2>1 DEF SpShape
  <2>4. DOMAIN w' = SpWriters
    BY <1>2
  <2>5. /\ \A t \in SpWriters : w'[t].pc = "asleep" => w[t].pc = "asleep" /\ ~HalfFree(spTail)'
        /\ \A t \in SpWriters : (w'[t].pc = "out" <=> w[t].pc = "out") /\ (w'[t].pc = "start" <=> w[t].pc = "start")
    BY <2>2, <2>3
  <2>6. SpHalfFull'
    BY <2>5 DEF SpHalfFull
  <2>7. spTail' \in SpPlaces
    BY <1>0, <1>2, SpFullRing DEF SpShape
  <2>8. SpShape'
    BY <1>0, <2>3, <2>4, <2>5, <2>7 DEF SpShape, SpPlaces
  <2>9. CASE spHead = spTail
    <3>1. active' = FALSE /\ spTimer' = FALSE /\ closer' # "asleep" /\ spTail' = spTail /\ spLate' = spLate
      BY <1>2, <2>9 DEF NoTimer, Awake
    <3>2. \A t \in SpWriters : w'[t].pc # "asleep"
      BY <1>0, <2>5, <2>9 DEF SpSleepersNotForgotten
    <3>3. QED
      BY <1>0, <2>6, <2>8, <2>9, <3>1, <3>2
         DEF SpInv, SpTimerNeeded, SpTimerAddedOnce, SpSomethingComing, SpOutputStarted, SpSleepersNotForgotten
  <2>10. CASE spHead # spTail
    <3>1. spTimer' = TRUE /\ spTail' = NextTail /\ spLate' = (spLate \/ ~active) /\ UNCHANGED <<active, closer>>
      BY <1>2, <2>10
    <3>2. ASSUME NEW t \in SpWriters, w'[t].pc = "asleep" PROVE spHead # spTail' /\ active
      <4>1. ~HalfFree(spTail) /\ active
        BY <1>0, <2>5, <3>2 DEF SpHalfFull, SpSleepersNotForgotten
      <4>2. QED
        BY <1>0, <2>10, <3>1, <4>1, SpFullRing DEF SpShape
    <3>3. SpOutputStarted'
      BY <1>0, <2>5, <2>10, <3>1 DEF SpOutputStarted
    <3>4. SpSleepersNotForgotten'
      BY <1>0, <3>1, <3>2 DEF SpSleepersNotForgotten
    <3>5. QED
      BY <1>0, <2>6, <2>8, <3>1, <3>3, <3>4
         DEF SpInv, SpTimerNeeded, SpTimerAddedOnce, SpSomethingComing
  <2>11. QED
    BY <2>9, <2>10
<1>3. QED
  BY <1>1, <1>2 DEF Work

LEMMA SpStep == SpInv /\ [SpNext]_spVars => SpInv'
<1> SUFFICES ASSUME SpInv, [SpNext]_spVars PROVE SpInv'
  OBVIOUS
<1>0. /\ SpShape /\ SpTimerNeeded /\ SpHalfFull /\ SpTimerAddedOnce
      /\ SpOutputStarted /\ SpSomethingComing /\ SpSleepersNotForgotten
  BY DEF SpInv
<1>1. ASSUME UNCHANGED <<spHead, spTail, active, w, closer, put>>,
             SpTimerNeeded', SpTimerAddedOnce', SpSomethingComing'
      PROVE  SpInv'
  <2>1. SpShape' /\ SpHalfFull'
    BY <1>0, <1>1 DEF SpShape, SpPlaces, SpHalfFull, HalfFree
  <2>2. QED
    BY <1>0, <1>1, <2>1 DEF SpInv, SpOutputStarted, SpSleepersNotForgotten
<1>2. CASE Irq /\ UNCHANGED <<cells, spHead, spTail, active, worker, w, closer, put, out>>
  <2>0. UNCHANGED <<spTimer, tm, spDouble, spLate, active, worker>>
    BY <1>2 DEF Irq
  <2>1. spQueued => spQueued'
    BY <1>2, Zenon DEF Irq
  <2>2. SpTimerNeeded' /\ SpTimerAddedOnce' /\ SpSomethingComing'
    BY <1>0, <2>0, <2>1 DEF SpTimerNeeded, SpTimerAddedOnce, SpSomethingComing
  <2>3. QED
    BY <1>1, <1>2, <2>2
<1>3. CASE SpTimeout /\ UNCHANGED <<cells, spHead, spTail, active, worker, w, closer, put, out>>
  <2> SUFFICES SpTimerNeeded' /\ SpTimerAddedOnce' /\ SpSomethingComing'
    BY <1>1, <1>3
  <2>1. ASSUME spTimer' = FALSE, UNCHANGED <<spDouble, spLate>>
        PROVE  SpTimerNeeded' /\ SpTimerAddedOnce'
    BY <1>0, <1>3, <2>1 DEF SpTimerNeeded, SpTimerAddedOnce
  <2>2. ASSUME spTimer' = TRUE, spDouble' = (spDouble \/ spTimer),
               spLate' = (spLate \/ spTimer \/ ~active)
        PROVE  SpTimerNeeded' /\ SpTimerAddedOnce'
    BY <1>0, <1>3, <2>2 DEF SpTimerNeeded, SpTimerAddedOnce
  <2>3. ASSUME UNCHANGED <<spTimer, spDouble, spLate>>
        PROVE  SpTimerNeeded' /\ SpTimerAddedOnce'
    BY <1>0, <1>3, <2>3 DEF SpTimerNeeded, SpTimerAddedOnce
  <2>4. SpTimerNeeded' /\ SpTimerAddedOnce'
    BY <1>3, <2>1, <2>2, <2>3 DEF SpTimeout, MoreTime
  <2>5. SpSomethingComing'
    BY <1>0, <1>3 DEF SpTimeout, MoreTime, SpSomethingComing
  <2>6. QED
    BY <2>4, <2>5
<1>4. CASE UNCHANGED spVars
  <2>1. SpTimerNeeded' /\ SpTimerAddedOnce' /\ SpSomethingComing'
    BY <1>0, <1>4 DEF spVars, SpTimerNeeded, SpTimerAddedOnce, SpSomethingComing
  <2>2. QED
    BY <1>1, <1>4, <2>1 DEF spVars
<1>5. QED
  BY <1>2, <1>3, <1>4, SpProcessStep, SpWorkStep DEF SpNext

\* The ranks after the head has gone on, and after the tail has.
LEMMA SpHeadGoes ==
    ASSUME spHead \in SpPlaces, spTail \in SpPlaces, NEW n \in Nat, n <= OutSpace
    PROVE  /\ (spHead + n) % SpPage \in SpPlaces
           /\ SpRank((spHead + n) % SpPage) = SpRank(spHead) + n
           /\ \A c \in SpPlaces : \/ c \in spHead .. spHead + n - 1 /\ SpRank(c) = SpRank(spHead) + c - spHead
                                  \/ c \notin spHead .. spHead + n - 1
                                     /\ (SpRank(c) < SpRank(spHead) + n => SpRank(c) < SpRank(spHead))
<1>0. SpPage \in Nat /\ SpPage > 2 /\ spHead \in 0 .. SpPage - 1 /\ spTail \in 0 .. SpPage - 1
  BY SpPageSize DEF SpPlaces
<1>1. spHead + n <= SpPage /\ (spHead + n = SpPage => spTail # 0) /\ (spHead < spTail => spHead + n < spTail)
  BY <1>0 DEF OutSpace
<1>2. (spHead + n) % SpPage = IF spHead + n = SpPage THEN 0 ELSE spHead + n
  <2>1. CASE spHead + n = SpPage
    <3>1. 0 \in SpPlaces /\ spHead + n = 0 + SpPage
      BY <1>0, <2>1 DEF SpPlaces
    <3>2. (0 + SpPage) % SpPage = 0
      BY <3>1, SpAround
    <3>3. QED
      BY <2>1, <3>1, <3>2
  <2>2. CASE spHead + n # SpPage
    <3>1. spHead + n \in SpPlaces
      BY <1>0, <1>1, <2>2 DEF SpPlaces
    <3>2. QED
      BY <2>2, <3>1, SpAround
  <2>3. QED
    BY <2>1, <2>2
<1>3. PICK h : h = (spHead + n) % SpPage
  OBVIOUS
<1>4. h = IF spHead + n = SpPage THEN 0 ELSE spHead + n
  BY <1>2, <1>3
<1>5. h \in SpPlaces /\ SpRank(h) = SpRank(spHead) + n
  BY <1>0, <1>1, <1>4 DEF SpPlaces, SpRank, Around
<1>6. \A c \in SpPlaces : \/ c \in spHead .. spHead + n - 1 /\ SpRank(c) = SpRank(spHead) + c - spHead
                          \/ c \notin spHead .. spHead + n - 1
                             /\ (SpRank(c) < SpRank(spHead) + n => SpRank(c) < SpRank(spHead))
  BY <1>0, <1>1 DEF SpPlaces, SpRank, Around
<1>7. QED
  BY <1>3, <1>5, <1>6

LEMMA SpTailGoes ==
    ASSUME spHead \in SpPlaces, spTail \in SpPlaces, spHead # spTail
    PROVE  /\ SpRank(spTail) = 0 /\ SpRank(spHead) > 0
           /\ \A c \in SpPlaces : Around(NextTail, c, SpPage) = IF c = spTail THEN SpPage - 1 ELSE SpRank(c) - 1
           /\ \A c \in SpPlaces : SpRank(c) \in 0 .. SpPage - 1 /\ (c # spTail => SpRank(c) > 0)
<1>0. SpPage \in Nat /\ SpPage > 2 /\ spHead \in 0 .. SpPage - 1 /\ spTail \in 0 .. SpPage - 1
  BY SpPageSize DEF SpPlaces
<1>1. NextTail = IF spTail + 1 = SpPage THEN 0 ELSE spTail + 1
  <2>1. CASE spTail + 1 = SpPage
    <3>1. 0 \in SpPlaces /\ spTail + 1 = 0 + SpPage
      BY <1>0, <2>1 DEF SpPlaces
    <3>2. (0 + SpPage) % SpPage = 0
      BY <3>1, SpAround
    <3>3. QED
      BY <2>1, <3>1, <3>2 DEF NextTail
  <2>2. CASE spTail + 1 # SpPage
    <3>1. spTail + 1 \in SpPlaces
      BY <1>0, <2>2 DEF SpPlaces
    <3>2. QED
      BY <2>2, <3>1, SpAround DEF NextTail
  <2>3. QED
    BY <2>1, <2>2
<1>2. QED
  BY <1>0, <1>1 DEF SpPlaces, SpRank, Around

LEMMA SpRingInitially == SpInit => SpRing
<1> SUFFICES ASSUME SpInit PROVE SpRing
  OBVIOUS
<1>1. /\ cells = [i \in SpPlaces |-> 0] /\ spHead = 0 /\ spTail = 0 /\ put = 0 /\ out = <<>>
  BY DEF SpInit, SpPlaces
<1>2. SpRank(spHead) = 0 /\ \A c \in SpPlaces : SpRank(c) >= 0
  BY <1>1, SpPageSize DEF SpRank, Around, SpPlaces
<1>3. DOMAIN cells = SpPlaces /\ out \in Seq(Nat) /\ Len(out) = 0 /\ \A c \in SpPlaces : SpRank(c) \in Int
  BY <1>1, SpPageSize DEF SpRank, Around, SpPlaces
<1>4. SpPrintsInOrder
  BY <1>1, <1>3 DEF SpPrintsInOrder
<1>5. QED
  BY <1>1, <1>2, <1>3, <1>4 DEF SpRing

\* The bytes of a writer come behind those that are there.
LEMMA SpRingGrows ==
    ASSUME SpShape, SpRing, NEW n \in Nat, n <= OutSpace,
           cells' = [i \in DOMAIN cells |->
                        IF i \in spHead .. spHead + n - 1 THEN put + 1 + i - spHead ELSE cells[i]],
           spHead' = (spHead + n) % SpPage, put' = put + n, UNCHANGED <<spTail, out>>
    PROVE  SpRing'
<1>0. /\ spHead \in SpPlaces /\ spTail \in SpPlaces /\ put \in Nat
      /\ DOMAIN cells = SpPlaces /\ out \in Seq(Nat) /\ Len(out) \in Nat
      /\ put = Len(out) + SpRank(spHead) /\ SpPrintsInOrder
      /\ \A c \in SpPlaces : SpRank(c) < SpRank(spHead) => cells[c] = Len(out) + 1 + SpRank(c)
  BY DEF SpShape, SpRing
<1>1. /\ SpRank(spHead') = SpRank(spHead) + n
      /\ \A c \in SpPlaces : \/ c \in spHead .. spHead + n - 1 /\ SpRank(c) = SpRank(spHead) + c - spHead
                             \/ c \notin spHead .. spHead + n - 1
                                /\ (SpRank(c) < SpRank(spHead) + n => SpRank(c) < SpRank(spHead))
  BY <1>0, SpHeadGoes
<1>2. \A c : SpRank(c)' = SpRank(c)
  BY DEF SpRank
<1>3. DOMAIN cells' = SpPlaces
      /\ \A c \in SpPlaces : cells'[c] = IF c \in spHead .. spHead + n - 1 THEN put + 1 + c - spHead ELSE cells[c]
  BY <1>0
<1>4. SpRank(spHead) \in Int /\ spHead \in Int /\ \A c \in SpPlaces : SpRank(c) \in Int /\ c \in Int
  BY <1>0, SpPageSize DEF SpRank, Around, SpPlaces
<1>5. put' = Len(out) + SpRank(spHead)'
  BY <1>0, <1>1, <1>2, <1>4
<1>6. ASSUME NEW c \in SpPlaces, SpRank(c) < SpRank(spHead) + n PROVE cells'[c] = Len(out) + 1 + SpRank(c)
  <2>1. CASE c \in spHead .. spHead + n - 1
    <3>1. cells'[c] = put + 1 + c - spHead /\ SpRank(c) = SpRank(spHead) + c - spHead
      BY <1>1, <1>3, <1>4, <2>1
    <3>2. PICK i, j, l, m, p : /\ i = c /\ j = spHead /\ l = Len(out) /\ m = SpRank(spHead) /\ p = SpRank(c)
      OBVIOUS
    <3>3. i \in Int /\ j \in Int /\ l \in Int /\ m \in Int /\ put = l + m /\ p = m + i - j
      BY <1>0, <1>4, <3>1, <3>2
    <3>4. PICK v : v = cells'[c]
      OBVIOUS
    <3>5. v = put + 1 + i - j
      BY <3>1, <3>2, <3>4
    <3>6. v = l + 1 + p
      BY <3>3, <3>5
    <3>7. QED
      BY <3>2, <3>4, <3>6
  <2>2. CASE c \notin spHead .. spHead + n - 1
    BY <1>0, <1>1, <1>3, <1>6, <2>2
  <2>3. QED
    BY <2>1, <2>2
<1>7. SpPrintsInOrder'
  BY <1>0 DEF SpPrintsInOrder
<1>8. QED
  BY <1>0, <1>1, <1>2, <1>3, <1>5, <1>6, <1>7 DEF SpRing, SpPlaces

\* The one that goes to the printer is the next.
LEMMA SpRingShrinks ==
    ASSUME SpShape, SpRing, spHead # spTail,
           out' = Append(out, cells[spTail]), spTail' = NextTail, UNCHANGED <<cells, spHead, put>>
    PROVE  SpRing'
<1>0. /\ spHead \in SpPlaces /\ spTail \in SpPlaces /\ put \in Nat
      /\ DOMAIN cells = SpPlaces /\ out \in Seq(Nat) /\ Len(out) \in Nat
      /\ put = Len(out) + SpRank(spHead) /\ SpPrintsInOrder
      /\ \A c \in SpPlaces : SpRank(c) < SpRank(spHead) => cells[c] = Len(out) + 1 + SpRank(c)
  BY DEF SpShape, SpRing
<1>1. /\ SpRank(spTail) = 0 /\ SpRank(spHead) > 0
      /\ \A c \in SpPlaces : Around(spTail', c, SpPage) = IF c = spTail THEN SpPage - 1 ELSE SpRank(c) - 1
      /\ \A c \in SpPlaces : SpRank(c) \in 0 .. SpPage - 1 /\ (c # spTail => SpRank(c) > 0)
  BY <1>0, SpTailGoes
<1>2. \A c \in SpPlaces : SpRank(c)' = IF c = spTail THEN SpPage - 1 ELSE SpRank(c) - 1
  BY <1>1 DEF SpRank
<1>3. SpRank(spHead)' = SpRank(spHead) - 1
  BY <1>0, <1>2
<1>4. cells[spTail] = Len(out) + 1
  BY <1>0, <1>1
<1>5. out' = Append(out, Len(out) + 1) /\ out' \in Seq(Nat) /\ Len(out') = Len(out) + 1
  BY <1>0, <1>4
<1>6. SpPrintsInOrder'
  BY <1>0, <1>5 DEF SpPrintsInOrder
<1>7. put' = Len(out') + SpRank(spHead)'
  BY <1>0, <1>1, <1>3, <1>5
<1>8. ASSUME NEW c \in SpPlaces, SpRank(c)' < SpRank(spHead)' PROVE cells[c] = Len(out') + 1 + SpRank(c)'
  <2>1. c # spTail
    BY <1>0, <1>1, <1>2, <1>3, <1>8, SpPageSize
  <2>2. SpRank(c)' = SpRank(c) - 1 /\ SpRank(c) \in Nat /\ SpRank(spHead) \in Nat
    BY <1>0, <1>1, <1>2, <2>1, SpPageSize
  <2>3. SpRank(c) < SpRank(spHead)
    BY <1>3, <1>8, <2>2
  <2>4. QED
    BY <1>0, <1>5, <2>2, <2>3
<1>9. QED
  BY <1>0, <1>5, <1>6, <1>7, <1>8 DEF SpRing, SpPlaces

LEMMA SpRingStep == SpInv /\ SpRing /\ [SpNext]_spVars => SpRing'
<1> SUFFICES ASSUME SpInv, SpRing, [SpNext]_spVars PROVE SpRing'
  OBVIOUS
<1>0. SpShape
  BY DEF SpInv
<1>1. ASSUME UNCHANGED <<cells, spHead, spTail, put, out>> PROVE SpRing'
  BY <1>1 DEF SpRing, SpRank, SpPrintsInOrder, SpPlaces
<1>2. ASSUME NEW t \in SpWriters, Move(t), UNCHANGED <<spTail, out>> PROVE SpRing'
  <2> DEFINE n == IF OutSpace > w[t].left THEN w[t].left ELSE OutSpace
  <2>1. CASE UNCHANGED <<cells, spHead, put>>
    BY <1>1, <1>2, <2>1
  <2>2. CASE /\ OutSpace > 0 /\ spHead' = (spHead + n) % SpPage /\ put' = put + n
             /\ cells' = [i \in DOMAIN cells |->
                             IF i \in spHead .. spHead + n - 1 THEN put + 1 + i - spHead ELSE cells[i]]
    <3>1. n \in Nat /\ n <= OutSpace
      BY <1>0, <2>2, SpPageSize DEF OutSpace, SpShape, SpPlaces
    <3> HIDE DEF n
    <3>2. QED
      BY <1>0, <1>2, <2>2, <3>1, SpRingGrows
  <2>3. QED
    BY <1>2, <2>1, <2>2 DEF Move
<1>3. CASE Process
  <2>1. UNCHANGED <<spTail, out>>
    BY <1>3 DEF Process
  <2>2. ASSUME NEW t \in SpWriters, Begin(t) \/ Start(t) \/ Interrupted(t) PROVE SpRing'
    <3>1. UNCHANGED <<cells, spHead, put>>
      BY <2>2 DEF Begin, Start, Interrupted
    <3>2. QED
      BY <1>1, <2>1, <3>1
  <2>3. CASE SpRelease
    BY <1>1, <2>1, <2>3 DEF SpRelease
  <2>4. QED
    BY <1>2, <1>3, <2>1, <2>2, <2>3 DEF Process
<1>4. CASE Work /\ UNCHANGED <<cells, spHead, tm, put, spDouble>>
  <2>1. CASE UNCHANGED <<spTail, out>>
    BY <1>1, <1>4, <2>1
  <2>2. CASE spHead # spTail /\ out' = Append(out, cells[spTail]) /\ spTail' = NextTail
    BY <1>0, <1>4, <2>2, SpRingShrinks
  <2>3. QED
    BY <1>4, <2>1, <2>2 DEF Work
<1>5. CASE UNCHANGED <<cells, spHead, spTail, active, worker, w, closer, put, out>>
  BY <1>1, <1>5
<1>6. CASE UNCHANGED spVars
  BY <1>1, <1>6 DEF spVars
<1>7. QED
  BY <1>3, <1>4, <1>5, <1>6 DEF SpNext

LEMMA SpProperties == SpInv /\ SpRing => SpTypeOK /\ SpPrintsInOrder
  BY DEF SpInv, SpShape, SpPlaces, SpTypeOK, SpRing

-----------------------------------------------------------------------------
(* short.  What holds until the ring is overrun or readers race.           *)

ShPlaces == 0 .. ShPage - 1
Reading(r) == rd[r].pc \in {"copy", "advance"}

\* The lines from one place of the ring to another.
Gap(from, to) == IF from <= to THEN to - from ELSE to + ShPage - from

ShShape ==
    /\ shHead \in ShPlaces /\ shTail \in ShPlaces
    /\ bh = [pc |-> bh.pc, saved |-> bh.saved]
    /\ DOMAIN rd = ShReaders
    /\ \A r \in ShReaders : rd[r] = [pc |-> rd[r].pc, n |-> rd[r].n] /\ rd[r].n \in Nat

ShUnread == unread = Gap(shTail, shHead)

\* One reader at a time copies, no more than there is, and not past the end
\* of the page.
ShOneReads ==
    /\ \A r, s \in ShReaders : r # s => ~Reading(r) \/ ~Reading(s)
    /\ \A r \in ShReaders : Reading(r) => rd[r].n <= unread /\ shTail + rd[r].n <= ShPage

ShInv == ShRunning => ShShape /\ ShUnread /\ ShOneReads /\ ShReadersNotForgotten

LEMMA ShPageSize == ShPage \in Nat /\ ShPage > 1
  BY ShortAssumption

LEMMA ShInitially == ShInit => ShInv
  BY ShPageSize
     DEF ShInit, ShInv, ShShape, ShPlaces, ShUnread, Gap, ShOneReads, Reading, ShReadersNotForgotten

\* A line more, unless it overruns the ring.
LEMMA ShGrows ==
    ASSUME shHead \in ShPlaces, shTail \in ShPlaces, ShUnread, unread + 1 # ShPage
    PROVE  /\ Incr(shHead, 1) \in ShPlaces
           /\ unread + 1 = Gap(shTail, Incr(shHead, 1)) /\ unread \in Nat
  BY ShPageSize DEF ShPlaces, ShUnread, Gap, Incr

\* Some lines less.
LEMMA ShShrinks ==
    ASSUME shHead \in ShPlaces, shTail \in ShPlaces, ShUnread,
           NEW n \in Nat, n <= unread, shTail + n <= ShPage
    PROVE  /\ Incr(shTail, n) \in ShPlaces
           /\ unread - n = Gap(Incr(shTail, n), shHead)
           /\ shHead = shTail => Incr(shTail, n) = shTail
<1> USE ShPageSize DEF ShPlaces, ShUnread, Gap
<1>1. CASE shTail + n >= ShPage
  BY <1>1 DEF Incr
<1>2. CASE shTail + n < ShPage
  BY <1>2 DEF Incr
<1>3. QED
  BY <1>1, <1>2

\* What a step of the writing side leaves true of the readers.
LEMMA ShWrites ==
    ASSUME ShShape, ShUnread, ShOneReads, shTail' = shTail,
           rd' = rd \/ Wake,
           UNCHANGED <<shHead, unread>> \/ (unread + 1 # ShPage /\ \E t : Write(t))
    PROVE  /\ shHead' \in ShPlaces /\ DOMAIN rd' = ShReaders
           /\ \A r \in ShReaders : rd'[r] = [pc |-> rd'[r].pc, n |-> rd'[r].n] /\ rd'[r].n \in Nat
           /\ ShUnread' /\ ShOneReads'
           /\ \A r \in ShReaders : rd'[r].pc = "asleep" => rd[r].pc = "asleep" /\ rd' = rd
<1>1. shHead' \in ShPlaces /\ ShUnread' /\ unread' \in Nat /\ unread' >= unread
  <2>1. CASE UNCHANGED <<shHead, unread>>
    BY <2>1, ShPageSize DEF ShShape, ShUnread, Gap, ShPlaces
  <2>2. CASE unread + 1 # ShPage /\ \E t : Write(t)
    <3>1. shHead' = Incr(shHead, 1) /\ unread' = unread + 1
      BY <2>2 DEF Write
    <3>2. QED
      BY <2>2, <3>1, ShGrows DEF ShShape, ShUnread
  <2>3. QED
    BY <2>1, <2>2
<1>2. /\ DOMAIN rd' = ShReaders
      /\ \A r \in ShReaders : /\ rd'[r] = [pc |-> rd'[r].pc, n |-> rd[r].n]
                              /\ rd'[r].pc = rd[r].pc \/ (rd[r].pc = "asleep" /\ rd'[r].pc = "look")
  <2>1. CASE rd' = rd
    BY <2>1 DEF ShShape
  <2>2. CASE Wake
    BY <2>2 DEF Wake, ShShape
  <2>3. QED
    BY <2>1, <2>2
<1>3. \A r \in ShReaders : rd'[r].n = rd[r].n /\ (Reading(r)' <=> Reading(r))
  BY <1>2 DEF Reading
<1>4. ShOneReads'
  <2>1. unread \in Nat /\ shTail \in Nat
    BY ShPageSize DEF ShShape, ShUnread, Gap, ShPlaces
  <2>2. QED
    BY <1>1, <1>3, <2>1 DEF ShOneReads, ShShape
<1>5. \A r \in ShReaders : rd'[r].pc = "asleep" => rd[r].pc = "asleep" /\ rd' = rd
  <2>1. CASE rd' = rd
    BY <2>1
  <2>2. CASE Wake
    BY <2>2 DEF Wake, ShShape
  <2>3. QED
    BY <2>1, <2>2
<1>6. QED
  BY <1>1, <1>2, <1>3, <1>4, <1>5 DEF ShShape

LEMMA ShBottomHalfStep == ShInv /\ ShRunning /\ BottomHalf => ShInv'
<1> SUFFICES ASSUME ShInv, ShRunning, BottomHalf, ShRunning' PROVE ShInv'
  BY DEF ShInv
<1>0. ShShape /\ ShUnread /\ ShOneReads /\ ShReadersNotForgotten
  BY DEF ShInv
<1>1. shTail' = shTail
  BY DEF BottomHalf
<1>2. SUFFICES ASSUME UNCHANGED <<shHead, unread>> \/ (unread + 1 # ShPage /\ \E t : Write(t)),
                      rd' = rd \/ Wake, bh' = [pc |-> bh'.pc, saved |-> bh'.saved],
                      (\E r \in ShReaders : rd'[r].pc = "asleep") => bh'.pc # "off"
               PROVE  ShInv'
  <2>0. ~lost'
    BY DEF ShRunning
  <2>1. CASE BhStart
    <3>1. UNCHANGED <<shHead, unread>> /\ rd' = rd /\ bh' = [pc |-> "reset", saved |-> wqCount]
      BY <2>1 DEF BhStart, shRings
    <3>2. QED
      BY <1>2, <3>1
  <2>2. CASE BhReset
    <3>1. Write(0) /\ unread + 1 # ShPage /\ rd' = rd /\ bh' = [bh EXCEPT !.pc = "loop"]
      BY <2>0, <2>2 DEF BhReset
    <3>2. bh' = [pc |-> "loop", saved |-> bh.saved]
      BY <1>0, <3>1 DEF ShShape
    <3>3. QED
      BY <1>2, <3>1, <3>2
  <2>3. CASE BhLine
    <3>1. Write(tv[tvTail]) /\ unread + 1 # ShPage /\ rd' = rd
      BY <2>0, <2>3 DEF BhLine
    <3>2. bh' = [pc |-> IF More THEN "loop" ELSE "wake", saved |-> bh.saved]
      BY <1>0, <2>3 DEF BhLine, ShShape
    <3>3. bh'.pc # "off" /\ bh' = [pc |-> bh'.pc, saved |-> bh'.saved]
      BY <3>2
    <3>4. QED
      BY <1>2, <3>1, <3>3
  <2>4. CASE BhWake
    <3>1. UNCHANGED <<shHead, unread>> /\ Wake /\ bh' = [pc |-> "off", saved |-> 0]
      BY <2>4 DEF BhWake, shRings
    <3>2. \A r \in ShReaders : rd'[r].pc # "asleep"
      BY <1>0, <3>1 DEF Wake, ShShape
    <3>3. QED
      BY <1>2, <3>1, <3>2
  <2>5. QED
    BY <2>1, <2>2, <2>3, <2>4 DEF BottomHalf
<1>3. /\ shHead' \in ShPlaces /\ DOMAIN rd' = ShReaders
      /\ \A r \in ShReaders : rd'[r] = [pc |-> rd'[r].pc, n |-> rd'[r].n] /\ rd'[r].n \in Nat
      /\ ShUnread' /\ ShOneReads'
  BY <1>0, <1>1, <1>2, ShWrites
<1>4. ShShape'
  BY <1>0, <1>1, <1>2, <1>3 DEF ShShape, ShPlaces
<1>5. ShReadersNotForgotten'
  BY <1>2 DEF ShReadersNotForgotten
<1>6. QED
  BY <1>3, <1>4, <1>5 DEF ShInv

LEMMA ShInterruptStep ==
    ASSUME ShInv, ShRunning, NEW t, Handler(t) \/ TopHalf(t)
    PROVE  ShInv'
<1> SUFFICES ASSUME ShRunning' PROVE ShInv'
  BY DEF ShInv
<1>0. ShShape /\ ShUnread /\ ShOneReads /\ ShReadersNotForgotten /\ ~lost'
  BY DEF ShInv, ShRunning
<1>1. CASE Handler(t)
  <2>1. Write(t) /\ Wake /\ unread + 1 # ShPage /\ UNCHANGED <<shTail, bh>>
    BY <1>0, <1>1 DEF Handler
  <2>2. /\ shHead' \in ShPlaces /\ DOMAIN rd' = ShReaders
        /\ \A r \in ShReaders : rd'[r] = [pc |-> rd'[r].pc, n |-> rd'[r].n] /\ rd'[r].n \in Nat
        /\ ShUnread' /\ ShOneReads'
    BY <1>0, <2>1, ShWrites
  <2>3. \A r \in ShReaders : rd'[r].pc # "asleep"
    BY <1>0, <2>1 DEF Wake, ShShape
  <2>4. ShShape' /\ ShReadersNotForgotten'
    BY <1>0, <2>1, <2>2, <2>3 DEF ShShape, ShPlaces, ShReadersNotForgotten
  <2>5. QED
    BY <2>2, <2>4 DEF ShInv
<1>2. CASE TopHalf(t)
  <2>1. UNCHANGED <<shHead, shTail, bh, rd, unread>>
    BY <1>2 DEF TopHalf
  <2>2. QED
    BY <1>0, <2>1
       DEF ShInv, ShShape, ShPlaces, ShUnread, Gap, ShOneReads, Reading, ShReadersNotForgotten, ShRunning
<1>3. QED
  BY <1>1, <1>2

\* A reader that goes on: what is left to show of it.
LEMMA ShReaderGoesOn ==
    ASSUME ShShape, NEW r \in ShReaders, NEW pcTo, NEW n \in Nat, Go(r, pcTo, n)
    PROVE  /\ DOMAIN rd' = ShReaders
           /\ \A s \in ShReaders : rd'[s] = [pc |-> rd'[s].pc, n |-> rd'[s].n] /\ rd'[s].n \in Nat
           /\ rd'[r].pc = pcTo /\ rd'[r].n = n
           /\ \A s \in ShReaders : s # r => rd'[s] = rd[s]
  BY DEF Go, ShShape

LEMMA ShReadStep ==
    ASSUME ShInv, ShRunning, NEW r \in ShReaders, Read(r),
           UNCHANGED <<shHead, bh, lost>>
    PROVE  ShInv'
<1> SUFFICES ASSUME ShRunning' PROVE ShInv'
  BY DEF ShInv
<1>0. ShShape /\ ShUnread /\ ShOneReads /\ ShReadersNotForgotten
  BY DEF ShInv
<1>s. ~shared'
  BY DEF ShRunning
<1>p. rd[r].n \in Nat /\ shHead \in ShPlaces /\ shTail \in ShPlaces /\ ShPage \in Nat /\ ShPage > 1
  BY <1>0, ShPageSize DEF ShShape
\* The steps that leave the tail alone and the reader outside the copy.
<1>1. ASSUME NEW pcTo, NEW n \in Nat, Go(r, pcTo, n), pcTo \notin {"copy", "advance"},
             UNCHANGED <<shTail, unread>>, pcTo = "asleep" => shHead = shTail
      PROVE  ShInv'
  <2>1. /\ DOMAIN rd' = ShReaders
        /\ \A s \in ShReaders : rd'[s] = [pc |-> rd'[s].pc, n |-> rd'[s].n] /\ rd'[s].n \in Nat
        /\ rd'[r].pc = pcTo
        /\ \A s \in ShReaders : s # r => rd'[s] = rd[s]
    BY <1>0, <1>1, ShReaderGoesOn
  <2>2. ShShape' /\ ShUnread'
    BY <1>0, <1>1, <2>1 DEF ShShape, ShPlaces, ShUnread, Gap
  <2>3. ShOneReads'
    BY <1>0, <1>1, <2>1 DEF ShOneReads, Reading
  <2>4. ShReadersNotForgotten'
    BY <1>0, <1>1, <2>1 DEF ShReadersNotForgotten
  <2>5. QED
    BY <2>2, <2>3, <2>4 DEF ShInv
<1>2. CASE rd[r].pc = "out" /\ (\E n \in 1 .. ShPage : Go(r, "look", n)) /\ UNCHANGED <<shTail, unread>>
  BY <1>1, <1>2, <1>p
<1>3. CASE /\ rd[r].pc = "look" /\ Go(r, IF shHead = shTail THEN "asleep" ELSE "count", rd[r].n)
           /\ UNCHANGED <<shTail, unread>>
  BY <1>1, <1>3, <1>p
<1>4. CASE rd[r].pc \in {"asleep", "copy"} /\ Go(r, "out", 0) /\ UNCHANGED <<shTail, unread>>
  BY <1>1, <1>4
<1>5. ASSUME NEW n \in Nat, NEW pcTo \in {"copy", "advance"}, Go(r, pcTo, n), UNCHANGED <<shTail, unread>>,
             n <= unread, shTail + n <= ShPage, \A s \in ShReaders : s # r => ~Reading(s)
      PROVE  ShInv'
  <2>1. /\ DOMAIN rd' = ShReaders
        /\ \A s \in ShReaders : rd'[s] = [pc |-> rd'[s].pc, n |-> rd'[s].n] /\ rd'[s].n \in Nat
        /\ rd'[r].pc = pcTo /\ rd'[r].n = n
        /\ \A s \in ShReaders : s # r => rd'[s] = rd[s]
    BY <1>0, <1>5, ShReaderGoesOn
  <2>2. ShShape' /\ ShUnread'
    BY <1>0, <1>5, <2>1 DEF ShShape, ShPlaces, ShUnread, Gap
  <2>3. \A s \in ShReaders : s # r => ~Reading(s)'
    BY <1>5, <2>1 DEF Reading
  <2>4. ShOneReads'
    BY <1>5, <2>1, <2>3 DEF ShOneReads
  <2>5. ShReadersNotForgotten'
    BY <1>0, <1>5, <2>1 DEF ShReadersNotForgotten, ShRunning
  <2>6. QED
    BY <2>2, <2>4, <2>5 DEF ShInv
<1>6. ASSUME rd[r].pc = "count", Go(r, "copy", IF Readable < rd[r].n THEN Readable ELSE rd[r].n),
             shared' = (shared \/ \E o \in ShReaders \ {r} : rd[o].pc \in {"count", "copy", "advance"}),
             UNCHANGED <<shTail, unread>>
      PROVE  ShInv'
  <2> DEFINE n == IF Readable < rd[r].n THEN Readable ELSE rd[r].n
  <2>1. Readable \in Nat /\ Readable <= unread /\ shTail + Readable <= ShPage
    BY <1>0, <1>p DEF Readable, ShUnread, Gap, ShPlaces
  <2>2. n \in Nat /\ n <= unread /\ shTail + n <= ShPage
    BY <1>0, <1>p, <2>1 DEF ShPlaces, ShUnread, Gap
  <2>3. \A s \in ShReaders : s # r => ~Reading(s)
    BY <1>s, <1>6 DEF Reading
  <2>4. Go(r, "copy", n)
    BY <1>6
  <2> HIDE DEF n
  <2>5. QED
    BY <1>5, <1>6, <2>2, <2>3, <2>4
<1>7. CASE rd[r].pc = "copy" /\ Go(r, "advance", rd[r].n) /\ UNCHANGED <<shTail, unread>>
  <2>1. Reading(r)
    BY <1>7 DEF Reading
  <2>2. rd[r].n <= unread /\ shTail + rd[r].n <= ShPage /\ \A s \in ShReaders : s # r => ~Reading(s)
    BY <1>0, <2>1 DEF ShOneReads
  <2>3. QED
    BY <1>5, <1>7, <1>p, <2>2
<1>8. ASSUME rd[r].pc = "advance", shTail' = Incr(shTail, rd[r].n), unread' = unread - rd[r].n, Go(r, "out", 0)
      PROVE  ShInv'
  <2>1. Reading(r)
    BY <1>8 DEF Reading
  <2>2. rd[r].n <= unread /\ shTail + rd[r].n <= ShPage /\ \A s \in ShReaders : s # r => ~Reading(s)
    BY <1>0, <2>1 DEF ShOneReads
  <2>3. /\ Incr(shTail, rd[r].n) \in ShPlaces
        /\ unread - rd[r].n = Gap(Incr(shTail, rd[r].n), shHead)
        /\ shHead = shTail => Incr(shTail, rd[r].n) = shTail
    BY <1>0, <1>p, <2>2, ShShrinks
  <2>4. /\ DOMAIN rd' = ShReaders
        /\ \A s \in ShReaders : rd'[s] = [pc |-> rd'[s].pc, n |-> rd'[s].n] /\ rd'[s].n \in Nat
        /\ rd'[r].pc = "out"
        /\ \A s \in ShReaders : s # r => rd'[s] = rd[s]
    BY <1>0, <1>8, ShReaderGoesOn
  <2>5. \A s \in ShReaders : ~Reading(s)'
    BY <2>2, <2>4 DEF Reading
  <2>6. ShOneReads'
    BY <2>5 DEF ShOneReads
  <2>7. ShShape' /\ ShUnread'
    <3>1. shTail' \in ShPlaces /\ unread' = Gap(shTail', shHead)
      BY <1>8, <2>3
    <3>2. QED
      BY <1>0, <2>4, <3>1 DEF ShShape, ShPlaces, ShUnread, Gap
  <2>8. ShReadersNotForgotten'
    BY <1>0, <1>8, <2>3, <2>4 DEF ShReadersNotForgotten, ShRunning
  <2>9. QED
    BY <2>6, <2>7, <2>8 DEF ShInv
<1>9. QED
  BY <1>2, <1>3, <1>4, <1>6, <1>7, <1>8 DEF Read

LEMMA ShStep == ShInv /\ [ShNext]_shVars => ShInv'
<1> SUFFICES ASSUME ShInv, [ShNext]_shVars PROVE ShInv'
  OBVIOUS
<1>1. CASE UNCHANGED shVars
  BY <1>1
     DEF shVars, ShInv, ShRunning, ShShape, ShPlaces, ShUnread, Gap, ShOneReads, Reading, ShReadersNotForgotten
<1>2. CASE TopCount
  <2>1. UNCHANGED <<shHead, shTail, bh, rd, unread, lost, shared>>
    BY <1>2 DEF TopCount
  <2>2. QED
    BY <2>1
       DEF ShInv, ShRunning, ShShape, ShPlaces, ShUnread, Gap, ShOneReads, Reading, ShReadersNotForgotten
<1>3. CASE ShNext
  BY <1>2, <1>3, ShInterruptStep, ShBottomHalfStep, ShReadStep DEF ShNext
<1>4. QED
  BY <1>1, <1>3

\* The way of the times of the interrupts: from the ring of times to the ring
\* of lines, and from there to the readers; who is about to move the tail has
\* his lines already.
ShRank(c) == Gap(shTail, c)
ShWaiting(c) ==
    /\ c \in ShPlaces /\ ShRank(c) < unread
    /\ \A r \in ShReaders : rd[r].pc = "advance" => rd[r].n <= ShRank(c)

TvPlaces == 0 .. ShRing - 1
TvRank(c) == Around(tvTail, c, ShRing)
TvWaiting(c) == c \in TvPlaces /\ TvRank(c) < TvRank(tvHead)

ShTyped ==
    /\ time \in Nat /\ told \in Seq(Nat) /\ line \in [ShPlaces -> Nat] /\ tv \in [TvPlaces -> Nat]
    /\ tvHead \in TvPlaces /\ tvTail \in TvPlaces

\* Nothing comes from the ring of times but through the bottom half, which
\* finds something there.
ShHalves ==
    /\ ~halves => tvTail = tvHead /\ bh.pc = "off" /\ ~shQueued
    /\ bh.pc \in {"reset", "loop"} => tvTail # tvHead

\* Along the way the times go up ...
ShToldUp  == \A i, j \in Times : i < j => told[i] < told[j]
ShLinesUp ==
    \A c : ShWaiting(c) /\ line[c] # 0 =>
        /\ \A i \in Times : told[i] < line[c]
        /\ \A e : ShWaiting(e) /\ line[e] # 0 /\ ShRank(c) < ShRank(e) => line[c] < line[e]
TvUp ==
    \A c : TvWaiting(c) =>
        /\ tv[c] # 0
        /\ \A i \in Times : told[i] < tv[c]
        /\ \A e : ShWaiting(e) => line[e] < tv[c]
        /\ \A e : TvWaiting(e) /\ TvRank(c) < TvRank(e) => tv[c] < tv[e]
\* ... to the last one, and none is left out.
ShSoFar ==
    /\ \A i \in Times : told[i] <= time
    /\ \A c : ShWaiting(c) => line[c] <= time
    /\ \A c : TvWaiting(c) => tv[c] <= time
ShAll ==
    \A t \in 1 .. time :
        \/ \E i \in Times : told[i] = t
        \/ \E c : ShWaiting(c) /\ line[c] = t
        \/ \E c : TvWaiting(c) /\ tv[c] = t

ShFlow == ShTyped /\ ShHalves /\ ShToldUp /\ ShLinesUp /\ TvUp /\ ShSoFar /\ ShAll
ShOrdered == ShRunning /\ ~again => ShFlow

\* What was printed and what is counted, with what the bottom half is about
\* to print and what the top half is about to add.
ShCounted ==
    /\ {time, printed, recounted, wqCount, bh.saved, th.n} \subseteq Nat
    /\ th = [pc |-> th.pc, n |-> th.n, stale |-> th.stale] /\ th.pc \in {"off", "read", "store"}
    /\ printed + wqCount + (IF th.pc = "off" THEN 0 ELSE 1) <= time + recounted
    /\ th.pc = "store" => IF th.stale THEN wqCount = 0 ELSE th.n = wqCount
    /\ bh.pc = "reset" => bh.saved <= wqCount

ShKept == ShTypeOK /\ ShOrdered /\ ShCounted

LEMMA ShRingSize == ShRing \in Nat /\ ShRing > 1
  BY ShortAssumption

LEMMA ShAround ==
    /\ \A i \in ShPlaces : i % ShPage = i
    /\ \A i \in TvPlaces : NextTv(i) = IF i + 1 = ShRing THEN 0 ELSE i + 1
<1>1. \A i \in ShPlaces : i % ShPage = i
  BY ShPageSize, SMT DEF ShPlaces
<1>2. \A i \in TvPlaces : i % ShRing = i
  BY ShRingSize, SMT DEF TvPlaces
<1>3. ShRing % ShRing = 0
  BY ShRingSize, SMT
<1>4. ASSUME NEW i \in TvPlaces PROVE NextTv(i) = IF i + 1 = ShRing THEN 0 ELSE i + 1
  <2>1. CASE i + 1 = ShRing
    BY <1>3, <2>1 DEF NextTv
  <2>2. CASE i + 1 # ShRing
    <3>1. i + 1 \in TvPlaces
      BY <2>2, ShRingSize DEF TvPlaces
    <3>2. QED
      BY <1>2, <2>2, <3>1 DEF NextTv
  <2>3. QED
    BY <2>1, <2>2
<1>5. QED
  BY <1>1, <1>4

\* Places stay places.
LEMMA ShTypeOKStep == ShInv /\ ShTypeOK /\ [ShNext]_shVars => ShTypeOK'
<1> SUFFICES ASSUME ShInv, ShTypeOK, [ShNext]_shVars PROVE ShTypeOK'
  OBVIOUS
<1>0. shHead \in ShPlaces /\ shTail \in ShPlaces /\ tvHead \in TvPlaces /\ tvTail \in TvPlaces
  BY DEF ShTypeOK, ShPlaces, TvPlaces
<1>1. /\ \A n \in Nat : Incr(shTail, n) \in ShPlaces
      /\ Incr(shHead, 1) \in ShPlaces
  BY <1>0, ShPageSize DEF Incr, ShPlaces
<1>2. NextTv(tvHead) \in TvPlaces /\ NextTv(tvTail) \in TvPlaces
  BY <1>0, ShAround, ShRingSize DEF TvPlaces
<1>3. SUFFICES ASSUME ShNext PROVE shHead' \in ShPlaces /\ shTail' \in ShPlaces /\ tvHead' \in TvPlaces /\ tvTail' \in TvPlaces
  BY DEF shVars, ShTypeOK, ShPlaces, TvPlaces
<1>4. ShShape
  BY <1>3 DEF ShNext, ShInv
<1>5. ASSUME NEW t, Handler(t) \/ TopHalf(t) PROVE shHead' \in ShPlaces /\ shTail' \in ShPlaces /\ tvHead' \in TvPlaces /\ tvTail' \in TvPlaces
  BY <1>0, <1>1, <1>2, <1>5 DEF Handler, TopHalf, Write
<1>6. ASSUME BottomHalf PROVE shHead' \in ShPlaces /\ shTail' \in ShPlaces /\ tvHead' \in TvPlaces /\ tvTail' \in TvPlaces
  BY <1>0, <1>1, <1>2, <1>6 DEF BottomHalf, BhStart, BhReset, BhLine, BhWake, Write, shRings
<1>7. ASSUME NEW r \in ShReaders, Read(r) PROVE shTail' \in ShPlaces
  <2>1. rd[r].n \in Nat
    BY <1>4 DEF ShShape
  <2>2. shTail' = shTail \/ shTail' = Incr(shTail, rd[r].n)
    BY <1>7 DEF Read
  <2>3. QED
    BY <1>0, <1>1, <2>1, <2>2
<1>8. QED
  BY <1>0, <1>3, <1>5, <1>6, <1>7 DEF ShNext, TopCount

\* Nothing is counted that did not come, but what is stored again.
LEMMA ShCountedStep == ShInv /\ ShCounted /\ [ShNext]_shVars => ShCounted'
<1> SUFFICES ASSUME ShInv, ShCounted, [ShNext]_shVars PROVE ShCounted'
  OBVIOUS
<1> DEFINE Adding == IF th.pc = "off" THEN 0 ELSE 1
<1>0. /\ time \in Nat /\ printed \in Nat /\ recounted \in Nat /\ wqCount \in Nat /\ bh.saved \in Nat /\ th.n \in Nat
      /\ th = [pc |-> th.pc, n |-> th.n, stale |-> th.stale] /\ th.pc \in {"off", "read", "store"}
      /\ printed + wqCount + Adding <= time + recounted
      /\ th.pc = "store" => IF th.stale THEN wqCount = 0 ELSE th.n = wqCount
      /\ bh.pc = "reset" => bh.saved <= wqCount
  BY DEF ShCounted
<1>1. ASSUME UNCHANGED <<time, printed, recounted, wqCount, th>>, bh'.saved \in Nat, bh'.pc = "reset" => bh'.saved <= wqCount
      PROVE  ShCounted'
  BY <1>0, <1>1 DEF ShCounted
<1>2. CASE UNCHANGED <<time, printed, recounted, wqCount, th, bh>>
  BY <1>0, <1>1, <1>2
<1>3. ASSUME Handler(time + 1) PROVE ShCounted'
  <2>1. time' = time + 1 /\ UNCHANGED <<printed, recounted, wqCount, th, bh>>
    BY <1>3 DEF Handler
  <2>2. QED
    BY <1>0, <2>1 DEF ShCounted
<1>4. ASSUME TopHalf(time + 1) PROVE ShCounted'
  <2>1. time' = time + 1 /\ th.pc = "off" /\ th' = [th EXCEPT !.pc = "read"]
        /\ UNCHANGED <<printed, recounted, wqCount, bh>>
    BY <1>4 DEF TopHalf
  <2>2. th' = [pc |-> "read", n |-> th.n, stale |-> th.stale]
    BY <1>0, <2>1
  <2>3. QED
    BY <1>0, <2>1, <2>2 DEF ShCounted
<1>5. ASSUME ShRunning, TopCount PROVE ShCounted'
  <2>0. UNCHANGED <<time, printed, bh>>
    BY <1>5 DEF TopCount
  <2>1. CASE th.pc = "read" /\ th' = [pc |-> "store", n |-> wqCount, stale |-> FALSE] /\ UNCHANGED <<wqCount, recounted>>
    BY <1>0, <2>0, <2>1 DEF ShCounted
  <2>2. ASSUME th.pc = "store", th' = ThOff, wqCount' = th.n + 1,
               recounted' = recounted + IF th.stale THEN th.n ELSE 0
        PROVE  ShCounted'
    <3>1. th' = [pc |-> "off", n |-> 0, stale |-> FALSE] /\ wqCount' \in Nat
      BY <1>0, <2>2 DEF ThOff
    <3>2. recounted' \in Nat /\ printed + wqCount' <= time + recounted' /\ wqCount <= wqCount'
      <4>1. CASE th.stale
        BY <1>0, <2>2, <4>1
      <4>2. CASE ~th.stale
        BY <1>0, <2>2, <4>2
      <4>3. QED
        BY <4>1, <4>2
    <3>3. bh'.pc = "reset" => bh'.saved <= wqCount'
      BY <1>0, <2>0, <3>1, <3>2
    <3>4. QED
      BY <1>0, <2>0, <3>1, <3>2, <3>3 DEF ShCounted
  <2>3. QED
    BY <1>5, <2>1, <2>2 DEF TopCount
<1>6. ASSUME ShRunning, BottomHalf PROVE ShCounted'
  <2>0. bh = [pc |-> bh.pc, saved |-> bh.saved] /\ UNCHANGED <<time, recounted>>
    BY <1>6 DEF ShInv, ShShape, BottomHalf
  <2>1. CASE BhStart
    <3>1. bh' = [pc |-> "reset", saved |-> wqCount] /\ UNCHANGED <<wqCount, printed, th>>
      BY <2>1 DEF BhStart
    <3>2. QED
      BY <1>0, <1>1, <2>0, <3>1
  <2>2. CASE BhReset
    <3>1. /\ bh.pc = "reset" /\ wqCount' = 0 /\ printed' = printed + bh.saved /\ bh' = [bh EXCEPT !.pc = "loop"]
          /\ th' = [th EXCEPT !.stale = (th.pc = "store")]
      BY <2>2 DEF BhReset, NoCount
    <3>2. bh' = [pc |-> "loop", saved |-> bh.saved] /\ th' = [pc |-> th.pc, n |-> th.n, stale |-> (th.pc = "store")]
      BY <1>0, <2>0, <3>1
    <3>3. CASE th.pc = "store"
      <4>1. th' = [pc |-> "store", n |-> th.n, stale |-> TRUE]
        BY <3>2, <3>3
      <4>2. QED
        BY <1>0, <2>0, <3>1, <3>2, <3>3, <4>1 DEF ShCounted
    <3>4. CASE th.pc # "store"
      <4>1. th' = [pc |-> th.pc, n |-> th.n, stale |-> FALSE]
        BY <3>2, <3>4
      <4>2. QED
        BY <1>0, <2>0, <3>1, <3>2, <3>4, <4>1 DEF ShCounted
    <3>5. QED
      BY <3>3, <3>4
  <2>3. CASE BhLine
    <3>1. bh' = [bh EXCEPT !.pc = IF More THEN "loop" ELSE "wake"] /\ UNCHANGED <<wqCount, printed, th>>
      BY <2>3 DEF BhLine
    <3>2. bh' = [pc |-> IF More THEN "loop" ELSE "wake", saved |-> bh.saved]
      BY <2>0, <3>1
    <3>3. QED
      BY <1>0, <1>1, <2>0, <3>1, <3>2
  <2>4. CASE BhWake
    <3>1. bh' = [pc |-> "off", saved |-> 0] /\ UNCHANGED <<wqCount, printed, th>>
      BY <2>4 DEF BhWake
    <3>2. QED
      BY <1>0, <1>1, <2>0, <3>1
  <2>5. QED
    BY <1>6, <2>1, <2>2, <2>3, <2>4 DEF BottomHalf
<1>7. CASE UNCHANGED shVars
  BY <1>2, <1>7 DEF shVars
<1>8. QED
  BY <1>2, <1>3, <1>4, <1>5, <1>6, <1>7 DEF ShNext

LEMMA ShFlowInitially == ShInit => ShKept
<1> SUFFICES ASSUME ShInit PROVE ShKept
  OBVIOUS
<1> USE ShPageSize, ShRingSize
<1>1. /\ time = 0 /\ told = <<>> /\ shHead = 0 /\ shTail = 0 /\ tvHead = 0 /\ tvTail = 0 /\ unread = 0
      /\ line = [i \in ShPlaces |-> 0] /\ tv = [i \in TvPlaces |-> 0]
      /\ wqCount = 0 /\ printed = 0 /\ ~shQueued /\ bh = [pc |-> "off", saved |-> 0]
      /\ recounted = 0 /\ th = [pc |-> "off", n |-> 0, stale |-> FALSE]
  BY DEF ShInit, ThOff, ShPlaces, TvPlaces
<1>2. Times = {} /\ (\A c : ~ShWaiting(c)) /\ (\A c : ~TvWaiting(c))
  <2>1. Times = {}
    BY <1>1 DEF Times
  <2>2. \A c \in ShPlaces : ~(ShRank(c) < unread)
    BY <1>1 DEF ShRank, Gap, ShPlaces
  <2>3. \A c \in TvPlaces : ~(TvRank(c) < TvRank(tvHead))
    BY <1>1 DEF TvRank, Around, TvPlaces
  <2>4. QED
    BY <2>1, <2>2, <2>3 DEF ShWaiting, TvWaiting
<1>3. ShTyped /\ ShHalves
  BY <1>1 DEF ShTyped, ShHalves, ShPlaces, TvPlaces
<1>4. ShToldUp /\ ShLinesUp /\ TvUp /\ ShSoFar
  BY <1>2 DEF ShToldUp, ShLinesUp, TvUp, ShSoFar
<1>5. ShAll
  BY <1>1 DEF ShAll
<1>6. ShTypeOK /\ ShCounted
  BY <1>1 DEF ShTypeOK, ShCounted
<1>7. QED
  BY <1>3, <1>4, <1>5, <1>6 DEF ShKept, ShOrdered, ShFlow

\* A step that leaves the lines that wait, and their order, as they are.
LEMMA ShFlowQuiet ==
    ASSUME ShFlow, ShHalves', UNCHANGED <<time, line, told, tv, tvHead, tvTail>>,
           \A c : ShWaiting(c)' <=> ShWaiting(c),
           \A c, e : ShWaiting(c) /\ ShWaiting(e) /\ ShRank(c)' < ShRank(e)' => ShRank(c) < ShRank(e)
    PROVE  ShFlow'
<1>0. ShTyped /\ ShToldUp /\ ShLinesUp /\ TvUp /\ ShSoFar /\ ShAll
  BY DEF ShFlow
<1>1. Times' = Times /\ \A c : (TvWaiting(c)' <=> TvWaiting(c)) /\ TvRank(c)' = TvRank(c)
  BY DEF Times, TvWaiting, TvRank, TvPlaces
<1>2. ShTyped' /\ ShToldUp'
  BY <1>0, <1>1 DEF ShTyped, ShToldUp, ShPlaces, TvPlaces
<1>3. ShLinesUp'
  BY <1>0, <1>1 DEF ShLinesUp
<1>4. TvUp' /\ ShSoFar'
  BY <1>0, <1>1 DEF TvUp, ShSoFar
<1>5. ShAll'
  BY <1>0, <1>1 DEF ShAll
<1>6. QED
  BY <1>2, <1>3, <1>4, <1>5 DEF ShFlow

\* A line that is written waits behind the others.
LEMMA ShLineWaits ==
    ASSUME ShShape, ShUnread, ShOneReads, NEW t \in Nat, line \in [ShPlaces -> Nat], Write(t), shTail' = shTail,
           \A r \in ShReaders : /\ rd'[r].pc = "advance" <=> rd[r].pc = "advance"
                                /\ rd'[r].n = rd[r].n
    PROVE  /\ line' \in [ShPlaces -> Nat] /\ line'[shHead] = t /\ ~ShWaiting(shHead)
           /\ \A c : ShWaiting(c) => line'[c] = line[c] /\ c # shHead /\ ShRank(c) < ShRank(shHead)
           /\ \A c : ShRank(c)' = ShRank(c)
           /\ \A c : ShWaiting(c)' <=> ShWaiting(c) \/ c = shHead
<1>0. shHead \in ShPlaces /\ shTail \in ShPlaces /\ unread = Gap(shTail, shHead)
  BY DEF ShShape, ShUnread
<1>1. \A c : ShRank(c)' = ShRank(c)
  BY DEF ShRank, Gap
<1>2. /\ unread = ShRank(shHead) /\ unread \in Nat /\ unread' = unread + 1
      /\ \A c \in ShPlaces : ShRank(c) \in Nat /\ (ShRank(c) = unread => c = shHead)
  BY SMTT(30), <1>0, ShPageSize DEF Write, ShRank, Gap, ShPlaces
<1>3. line' = [line EXCEPT ![shHead] = t]
  BY DEF Write
<1>4. \A r \in ShReaders : rd[r].pc = "advance" => rd[r].n <= unread
  BY DEF ShOneReads, Reading
<1>5. \A c \in ShPlaces : (ShRank(c) < unread + 1 <=> ShRank(c) < unread \/ c = shHead)
  <2>1. ASSUME NEW c \in ShPlaces PROVE ShRank(c) < unread + 1 <=> ShRank(c) < unread \/ c = shHead
    <3>1. PICK k \in Nat : k = ShRank(c)
      BY <1>2
    <3>2. k < unread + 1 <=> k < unread \/ k = unread
      BY <1>2
    <3>3. QED
      BY <1>2, <3>1, <3>2
  <2>2. QED
    BY <2>1
<1>6. ASSUME NEW c PROVE ShWaiting(c)' <=> ShWaiting(c) \/ c = shHead
  <2>1. ShWaiting(c)' <=> /\ c \in ShPlaces /\ ShRank(c) < unread + 1
                          /\ \A r \in ShReaders : rd[r].pc = "advance" => rd[r].n <= ShRank(c)
    BY <1>1, <1>2 DEF ShWaiting, ShPlaces
  <2>2. QED
    BY <1>0, <1>2, <1>4, <1>5, <2>1 DEF ShWaiting
<1>7. ~ShWaiting(shHead)
  BY <1>2 DEF ShWaiting
<1>8. QED
  BY <1>0, <1>1, <1>2, <1>3, <1>6, <1>7 DEF ShWaiting

\* It goes up if what is written is later than all before.
LEMMA ShLineUp ==
    ASSUME shTail \in ShPlaces, ShLinesUp, ShToldUp, UNCHANGED told, NEW t \in Nat, NEW h,
           line' \in [ShPlaces -> Nat], line'[h] = t, h \in ShPlaces,
           \A c : ShWaiting(c) => line'[c] = line[c] /\ c # h /\ ShRank(c) < ShRank(h),
           \A c : ShRank(c)' = ShRank(c),
           \A c : ShWaiting(c)' <=> ShWaiting(c) \/ c = h,
           t # 0 => /\ \A i \in Times : told[i] < t
                    /\ \A c : ShWaiting(c) => line[c] < t
    PROVE  ShLinesUp' /\ ShToldUp' /\ Times' = Times
<1>1. Times' = Times /\ ShToldUp'
  BY DEF Times, ShToldUp
<1>2. \A c : ShWaiting(c)' => ~(ShRank(h) < ShRank(c))
  <2>1. ASSUME NEW c, ShWaiting(c)', ShRank(h) < ShRank(c) PROVE FALSE
    <3>1. \A e \in ShPlaces : ShRank(e) \in Nat
      BY ShPageSize DEF ShRank, Gap, ShPlaces
    <3>2. c \in ShPlaces
      BY <2>1 DEF ShWaiting, ShPlaces
    <3>3. c = h \/ ShRank(c) < ShRank(h)
      BY <2>1
    <3>4. QED
      BY <2>1, <3>1, <3>2, <3>3
  <2>2. QED
    BY <2>1
<1>3. ASSUME NEW c, ShWaiting(c)', line'[c] # 0
      PROVE  /\ \A i \in Times' : told'[i] < line'[c]
             /\ \A e : ShWaiting(e)' /\ line'[e] # 0 /\ ShRank(c)' < ShRank(e)' => line'[c] < line'[e]
  <2>1. CASE c = h
    BY <1>1, <1>2, <1>3, <2>1
  <2>2. CASE ShWaiting(c) /\ c # h
    BY <1>1, <1>3, <2>2 DEF ShLinesUp
  <2>3. QED
    BY <1>3, <2>1, <2>2
<1>4. QED
  BY <1>1, <1>3 DEF ShLinesUp

LEMMA ShHandlerFlow ==
    ASSUME ShInv, ShRunning, ShFlow, Handler(time + 1)
    PROVE  ShFlow'
<1>0. /\ ShShape /\ ShUnread /\ ShOneReads /\ ShTyped /\ ShHalves /\ ShToldUp /\ ShLinesUp /\ TvUp
      /\ ShSoFar /\ ShAll
  BY DEF ShInv, ShFlow
<1>1. /\ ~halves /\ time' = time + 1 /\ Write(time + 1) /\ Wake
      /\ UNCHANGED <<halves, shTail, tv, tvHead, tvTail, bh, told, shQueued>>
  BY DEF Handler
<1>2. \A r \in ShReaders : (rd'[r].pc = "advance" <=> rd[r].pc = "advance") /\ rd'[r].n = rd[r].n
  BY <1>0, <1>1 DEF Wake, ShShape
<1>3. time \in Nat /\ line \in [ShPlaces -> Nat] /\ shHead \in ShPlaces /\ shTail \in ShPlaces
  BY <1>0 DEF ShTyped, ShShape
<1>4. /\ line' \in [ShPlaces -> Nat] /\ line'[shHead] = time + 1 /\ ~ShWaiting(shHead)
      /\ \A c : ShWaiting(c) => line'[c] = line[c] /\ c # shHead /\ ShRank(c) < ShRank(shHead)
      /\ \A c : ShRank(c)' = ShRank(c)
      /\ \A c : ShWaiting(c)' <=> ShWaiting(c) \/ c = shHead
  BY <1>0, <1>1, <1>2, <1>3, ShLineWaits
<1>5. \A i \in Times : told[i] \in Nat
  BY <1>0 DEF ShTyped, Times
<1>6. /\ \A i \in Times : told[i] < time + 1
      /\ \A c : ShWaiting(c) => line[c] < time + 1
  BY <1>0, <1>3, <1>5 DEF ShSoFar, ShWaiting
<1>7. ShLinesUp' /\ ShToldUp' /\ Times' = Times
  BY <1>0, <1>1, <1>3, <1>4, <1>6, ShLineUp
<1>8. \A c : ~TvWaiting(c) /\ ~TvWaiting(c)'
  <2>1. tvTail = tvHead /\ tvHead \in TvPlaces
    BY <1>0, <1>1 DEF ShHalves, ShTyped
  <2>2. \A c \in TvPlaces : ~(TvRank(c) < TvRank(tvHead))
    BY <2>1, ShRingSize DEF TvRank, Around, TvPlaces
  <2>3. QED
    BY <1>1, <2>2 DEF TvWaiting, TvRank, TvPlaces
<1>9. ShTyped' /\ ShHalves'
  BY <1>0, <1>1, <1>3, <1>4 DEF ShTyped, ShHalves, ShPlaces, TvPlaces
<1>10. TvUp'
  BY <1>8 DEF TvUp
<1>11. ShSoFar'
  BY <1>1, <1>3, <1>4, <1>5, <1>6, <1>7, <1>8, <1>0 DEF ShSoFar, ShWaiting
<1>12. ShAll'
  <2>1. ASSUME NEW t \in 1 .. time + 1
        PROVE  (\E i \in Times : told[i] = t) \/ (\E c : ShWaiting(c)' /\ line'[c] = t)
    <3>1. CASE t = time + 1
      BY <1>4, <3>1
    <3>2. CASE t \in 1 .. time
      BY <1>0, <1>4, <1>8, <3>2 DEF ShAll
    <3>3. QED
      BY <1>3, <3>1, <3>2
  <2>2. QED
    BY <1>1, <1>7, <2>1 DEF ShAll
<1>13. QED
  BY <1>7, <1>9, <1>10, <1>11, <1>12 DEF ShFlow

\* A time more in its ring.
LEMMA TvGrows ==
    ASSUME tvHead \in TvPlaces, tvTail \in TvPlaces, NextTv(tvHead) # tvTail
    PROVE  /\ NextTv(tvHead) \in TvPlaces /\ TvRank(NextTv(tvHead)) = TvRank(tvHead) + 1
           /\ \A c \in TvPlaces : TvRank(c) \in Nat /\ (TvRank(c) = TvRank(tvHead) => c = tvHead)
<1>1. NextTv(tvHead) = IF tvHead + 1 = ShRing THEN 0 ELSE tvHead + 1
  BY ShAround
<1>2. PICK h : h = NextTv(tvHead)
  OBVIOUS
<1>3. h \in TvPlaces /\ TvRank(h) = TvRank(tvHead) + 1
  BY <1>1, <1>2, ShRingSize DEF TvPlaces, TvRank, Around
<1>4. \A c \in TvPlaces : TvRank(c) \in Nat /\ (TvRank(c) = TvRank(tvHead) => c = tvHead)
  BY ShRingSize DEF TvPlaces, TvRank, Around
<1>5. QED
  BY <1>2, <1>3, <1>4

LEMMA TvShrinks ==
    ASSUME tvHead \in TvPlaces, tvTail \in TvPlaces, tvHead # tvTail
    PROVE  /\ NextTv(tvTail) \in TvPlaces /\ TvRank(tvTail) = 0 /\ TvRank(tvHead) \in Nat \ {0}
           /\ Around(NextTv(tvTail), tvHead, ShRing) = TvRank(tvHead) - 1
           /\ \A c \in TvPlaces : /\ TvRank(c) \in 0 .. ShRing - 1 /\ (c # tvTail => TvRank(c) > 0)
                                  /\ Around(NextTv(tvTail), c, ShRing)
                                        = IF c = tvTail THEN ShRing - 1 ELSE TvRank(c) - 1
<1>1. NextTv(tvTail) = IF tvTail + 1 = ShRing THEN 0 ELSE tvTail + 1
  BY ShAround
<1>2. QED
  BY <1>1, ShRingSize DEF TvPlaces, TvRank, Around

LEMMA ShTopHalfFlow ==
    ASSUME ShInv, ShRunning, ~lost', ShFlow, TopHalf(time + 1)
    PROVE  ShFlow'
<1>0. ShTyped /\ ShHalves /\ ShToldUp /\ ShLinesUp /\ TvUp /\ ShSoFar /\ ShAll
  BY DEF ShFlow
<1>1. /\ halves /\ time' = time + 1 /\ NextTv(tvHead) # tvTail
      /\ tv' = [tv EXCEPT ![tvHead] = time + 1] /\ tvHead' = NextTv(tvHead)
      /\ UNCHANGED <<halves, line, shHead, shTail, tvTail, bh, rd, told, unread>>
  BY DEF TopHalf
<1>2. /\ time \in Nat /\ tv \in [TvPlaces -> Nat] /\ line \in [ShPlaces -> Nat] /\ told \in Seq(Nat)
      /\ tvHead \in TvPlaces /\ tvTail \in TvPlaces
  BY <1>0 DEF ShTyped
<1>3. /\ tvHead' \in TvPlaces /\ TvRank(tvHead') = TvRank(tvHead) + 1
      /\ \A c \in TvPlaces : TvRank(c) \in Nat /\ (TvRank(c) = TvRank(tvHead) => c = tvHead)
  BY <1>1, <1>2, TvGrows
<1>4. \A c : TvRank(c)' = TvRank(c)
  BY <1>1 DEF TvRank
<1>5. ASSUME NEW c PROVE TvWaiting(c)' <=> TvWaiting(c) \/ c = tvHead
  <2>1. TvWaiting(c)' <=> c \in TvPlaces /\ TvRank(c) < TvRank(tvHead')
    BY <1>4 DEF TvWaiting, TvPlaces
  <2>2. ASSUME c \in TvPlaces PROVE TvRank(c) < TvRank(tvHead) + 1 <=> TvRank(c) < TvRank(tvHead) \/ c = tvHead
    <3>1. PICK j \in Nat, k \in Nat : j = TvRank(c) /\ k = TvRank(tvHead)
      BY <1>2, <1>3, <2>2
    <3>2. j < k + 1 <=> j < k \/ j = k
      OBVIOUS
    <3>3. QED
      BY <1>3, <2>2, <3>1, <3>2
  <2>3. QED
    BY <1>2, <1>3, <2>1, <2>2 DEF TvWaiting
<1>6. /\ tv' \in [TvPlaces -> Nat] /\ tv'[tvHead] = time + 1
      /\ \A c : TvWaiting(c) => tv'[c] = tv[c] /\ tv[c] \in Nat /\ c # tvHead /\ TvRank(c) < TvRank(tvHead)
  <2>1. ~(TvRank(tvHead) < TvRank(tvHead))
    BY <1>2, <1>3
  <2>2. \A c : TvWaiting(c) => c \in TvPlaces /\ TvRank(c) < TvRank(tvHead) /\ c # tvHead
    BY <2>1 DEF TvWaiting
  <2>3. QED
    BY <1>1, <1>2, <2>2
<1>7. /\ Times' = Times /\ \A i \in Times : told[i] \in Nat
      /\ \A c : ShWaiting(c)' <=> ShWaiting(c)
      /\ \A c : ShWaiting(c) => line[c] \in Nat
      /\ \A c : ShRank(c)' = ShRank(c)
  BY <1>1, <1>2 DEF Times, ShWaiting, ShRank, Gap, ShPlaces
<1>8. ShTyped' /\ ShHalves'
  BY <1>0, <1>1, <1>2, <1>3, <1>6 DEF ShTyped, ShHalves, ShPlaces, TvPlaces
<1>9. ShToldUp' /\ ShLinesUp'
  BY <1>0, <1>1, <1>7 DEF ShToldUp, ShLinesUp
<1>10. ASSUME NEW c, TvWaiting(c)'
       PROVE  /\ tv'[c] # 0
              /\ \A i \in Times : told[i] < tv'[c]
              /\ \A e : ShWaiting(e) => line[e] < tv'[c]
              /\ \A e : TvWaiting(e)' /\ TvRank(c) < TvRank(e) => tv'[c] < tv'[e]
              /\ tv'[c] <= time + 1
  <2>1. CASE c = tvHead
    <3>1. ASSUME NEW e, TvWaiting(e)', TvRank(c) < TvRank(e) PROVE FALSE
      <4>1. TvRank(e) = TvRank(tvHead) \/ TvRank(e) < TvRank(tvHead)
        BY <1>5, <1>6, <3>1
      <4>2. e \in TvPlaces
        BY <1>2, <1>5, <3>1 DEF TvWaiting
      <4>3. QED
        BY <1>2, <1>3, <2>1, <3>1, <4>1, <4>2
    <3>2. \A i \in Times : told[i] < time + 1
      BY <1>0, <1>2, <1>7 DEF ShSoFar
    <3>3. \A e : ShWaiting(e) => line[e] < time + 1
      BY <1>0, <1>2, <1>7 DEF ShSoFar
    <3>4. QED
      BY <1>2, <1>6, <2>1, <3>1, <3>2, <3>3
  <2>2. CASE TvWaiting(c)
    <3>1. tv'[c] = tv[c] /\ tv[c] \in Nat /\ tv[c] <= time
      BY <1>0, <1>6, <2>2 DEF ShSoFar
    <3>2. \A e : TvWaiting(e)' /\ TvRank(c) < TvRank(e) => tv[c] < tv'[e]
      BY SMTT(30), <1>0, <1>2, <1>5, <1>6, <2>2, <3>1 DEF TvUp
    <3>3. tv[c] # 0 /\ (\A i \in Times : told[i] < tv[c]) /\ \A e : ShWaiting(e) => line[e] < tv[c]
      BY <1>0, <2>2 DEF TvUp
    <3>4. tv[c] <= time + 1
      BY <1>2, <3>1
    <3>5. QED
      BY <3>1, <3>2, <3>3, <3>4
  <2>3. QED
    BY <1>5, <1>10, <2>1, <2>2
<1>11. TvUp'
  BY <1>1, <1>4, <1>7, <1>10 DEF TvUp
<1>12. ShSoFar'
  <2>1. \A i \in Times : told[i] <= time + 1
    BY <1>0, <1>2, <1>7 DEF ShSoFar
  <2>2. \A c : ShWaiting(c) => line[c] <= time + 1
    BY <1>0, <1>2, <1>7 DEF ShSoFar
  <2>3. QED
    BY <1>1, <1>7, <1>10, <2>1, <2>2 DEF ShSoFar
<1>13. ShAll'
  <2>1. ASSUME NEW t \in 1 .. time + 1
        PROVE  \/ \E i \in Times : told[i] = t
               \/ \E c : ShWaiting(c) /\ line[c] = t
               \/ \E c : TvWaiting(c)' /\ tv'[c] = t
    <3>1. CASE t = time + 1
      BY <1>5, <1>6, <3>1
    <3>2. CASE t \in 1 .. time
      BY <1>0, <1>5, <1>6, <3>2 DEF ShAll
    <3>3. QED
      BY <1>2, <3>1, <3>2
  <2>2. QED
    BY <1>1, <1>7, <2>1 DEF ShAll
<1>14. QED
  BY <1>8, <1>9, <1>11, <1>12, <1>13 DEF ShFlow

\* The bottom half's line with its own time.
LEMMA BhResetFlow ==
    ASSUME ShInv, ShRunning, ShFlow, BottomHalf, BhReset
    PROVE  ShFlow'
<1>0. /\ ShShape /\ ShUnread /\ ShOneReads /\ ShTyped /\ ShHalves /\ ShToldUp /\ ShLinesUp /\ TvUp
      /\ ShSoFar /\ ShAll
  BY DEF ShInv, ShFlow
<1>1. /\ bh.pc = "reset" /\ Write(0) /\ bh' = [bh EXCEPT !.pc = "loop"]
      /\ UNCHANGED <<halves, time, shTail, tv, tvHead, tvTail, rd, told, shQueued>>
  BY DEF BottomHalf, BhReset
<1>2. bh'.pc = "loop" /\ halves /\ tvTail # tvHead
  BY <1>0, <1>1 DEF ShShape, ShHalves
<1>3. line \in [ShPlaces -> Nat] /\ shHead \in ShPlaces /\ shTail \in ShPlaces /\ time \in Nat /\ tv \in [TvPlaces -> Nat]
  BY <1>0 DEF ShTyped, ShShape
<1>4. /\ line' \in [ShPlaces -> Nat] /\ line'[shHead] = 0 /\ ~ShWaiting(shHead)
      /\ \A c : ShWaiting(c) => line'[c] = line[c] /\ c # shHead /\ ShRank(c) < ShRank(shHead)
      /\ \A c : ShRank(c)' = ShRank(c)
      /\ \A c : ShWaiting(c)' <=> ShWaiting(c) \/ c = shHead
  BY <1>0, <1>1, <1>3, ShLineWaits
<1>5. ShLinesUp' /\ ShToldUp' /\ Times' = Times
  BY <1>0, <1>1, <1>3, <1>4, ShLineUp
<1>6. \A c : (TvWaiting(c)' <=> TvWaiting(c)) /\ TvRank(c)' = TvRank(c) /\ (TvWaiting(c) => tv[c] \in Nat)
  BY <1>1, <1>3 DEF TvWaiting, TvRank, TvPlaces
<1>7. ShTyped' /\ ShHalves'
  BY <1>0, <1>1, <1>2, <1>4 DEF ShTyped, ShHalves, ShPlaces, TvPlaces
<1>8. ASSUME NEW c, TvWaiting(c), NEW e, ShWaiting(e)' PROVE line'[e] < tv[c]
  <2>1. tv[c] # 0 /\ tv[c] \in Nat /\ (ShWaiting(e) => line[e] < tv[c])
    BY <1>0, <1>6, <1>8 DEF TvUp
  <2>2. QED
    BY <1>4, <1>8, <2>1
<1>9. TvUp'
  BY <1>0, <1>1, <1>5, <1>6, <1>8 DEF TvUp
<1>10. \A e : ShWaiting(e)' => line'[e] <= time
  BY <1>0, <1>3, <1>4 DEF ShSoFar
<1>11. ShSoFar'
  BY <1>0, <1>1, <1>5, <1>6, <1>10 DEF ShSoFar
<1>12. ShAll'
  BY <1>0, <1>1, <1>4, <1>5, <1>6 DEF ShAll
<1>13. QED
  BY <1>5, <1>7, <1>9, <1>11, <1>12 DEF ShFlow

\* ... and those that hand a time on.
LEMMA BhLineFlow ==
    ASSUME ShInv, ShRunning, ShFlow, BottomHalf, BhLine
    PROVE  ShFlow'
<1>0. /\ ShShape /\ ShUnread /\ ShOneReads /\ ShTyped /\ ShHalves /\ ShToldUp /\ ShLinesUp /\ TvUp
      /\ ShSoFar /\ ShAll
  BY DEF ShInv, ShFlow
<1>1. /\ bh.pc = "loop" /\ Write(tv[tvTail]) /\ tvTail' = NextTv(tvTail)
      /\ bh' = [bh EXCEPT !.pc = IF More THEN "loop" ELSE "wake"]
      /\ UNCHANGED <<halves, time, shTail, tv, tvHead, rd, told, shQueued>>
  BY DEF BottomHalf, BhLine
<1>2. bh' = [pc |-> IF More THEN "loop" ELSE "wake", saved |-> bh.saved] /\ halves /\ tvHead # tvTail
  BY <1>0, <1>1 DEF ShShape, ShHalves
<1>3. /\ line \in [ShPlaces -> Nat] /\ shHead \in ShPlaces /\ shTail \in ShPlaces /\ time \in Nat
      /\ tv \in [TvPlaces -> Nat] /\ tvHead \in TvPlaces /\ tvTail \in TvPlaces
      /\ \A i \in Times : told[i] \in Nat
  BY <1>0 DEF ShTyped, ShShape, Times
<1>4. /\ tvTail' \in TvPlaces /\ TvRank(tvTail) = 0 /\ TvRank(tvHead) \in Nat \ {0}
      /\ TvRank(tvHead)' = TvRank(tvHead) - 1
      /\ \A c \in TvPlaces : /\ TvRank(c) \in 0 .. ShRing - 1 /\ (c # tvTail => TvRank(c) > 0)
                             /\ TvRank(c)' = IF c = tvTail THEN ShRing - 1 ELSE TvRank(c) - 1
  BY <1>1, <1>2, <1>3, TvShrinks DEF TvRank
<1>5. TvWaiting(tvTail)
  BY <1>3, <1>4 DEF TvWaiting
<1>6. PICK t : t = tv[tvTail]
  OBVIOUS
<1>7. /\ t \in Nat /\ t # 0 /\ t <= time
      /\ \A i \in Times : told[i] < t
      /\ \A c : ShWaiting(c) => line[c] < t
      /\ \A c : TvWaiting(c) /\ TvRank(tvTail) < TvRank(c) => t < tv[c]
  BY <1>0, <1>3, <1>5, <1>6 DEF TvUp, ShSoFar
<1>8. /\ line' \in [ShPlaces -> Nat] /\ line'[shHead] = t /\ ~ShWaiting(shHead)
      /\ \A c : ShWaiting(c) => line'[c] = line[c] /\ c # shHead /\ ShRank(c) < ShRank(shHead)
      /\ \A c : ShRank(c)' = ShRank(c)
      /\ \A c : ShWaiting(c)' <=> ShWaiting(c) \/ c = shHead
  BY <1>0, <1>1, <1>3, <1>6, <1>7, ShLineWaits
<1>9. ShLinesUp' /\ ShToldUp' /\ Times' = Times
  BY <1>0, <1>1, <1>3, <1>7, <1>8, ShLineUp
<1>10. ASSUME NEW c \in TvPlaces PROVE TvWaiting(c)' <=> TvWaiting(c) /\ c # tvTail
  <2>1. TvWaiting(c)' <=> TvRank(c)' < TvRank(tvHead)'
    BY <1>1 DEF TvWaiting, TvPlaces
  <2>2. PICK j, k : j = TvRank(c) /\ k = TvRank(tvHead)
    OBVIOUS
  <2>3. j \in 0 .. ShRing - 1 /\ k \in 0 .. ShRing - 1
    BY <1>3, <1>4, <2>2
  <2>4. CASE c = tvTail
    BY <1>4, <2>1, <2>2, <2>3, <2>4, ShRingSize
  <2>5. CASE c # tvTail
    <3>1. TvWaiting(c)' <=> j - 1 < k - 1
      BY <1>4, <2>1, <2>2, <2>5
    <3>2. QED
      BY <2>2, <2>3, <2>5, <3>1 DEF TvWaiting
  <2>6. QED
    BY <2>4, <2>5
<1>11. \A c : TvWaiting(c)' => /\ TvWaiting(c) /\ c # tvTail /\ c \in TvPlaces /\ tv[c] \in Nat
                               /\ TvRank(tvTail) < TvRank(c)
  <2>1. \A c : TvWaiting(c)' => c \in TvPlaces
    BY DEF TvWaiting, TvPlaces
  <2>2. QED
    BY <1>3, <1>4, <1>10, <2>1
<1>12. \A c, e : TvWaiting(c)' /\ TvWaiting(e)' /\ TvRank(c)' < TvRank(e)' => TvRank(c) < TvRank(e)
  <2>1. ASSUME NEW c, NEW e, TvWaiting(c)', TvWaiting(e)', TvRank(c)' < TvRank(e)' PROVE TvRank(c) < TvRank(e)
    <3>1. PICK j, k : j = TvRank(c) /\ k = TvRank(e)
      OBVIOUS
    <3>2. j \in 0 .. ShRing - 1 /\ k \in 0 .. ShRing - 1 /\ j - 1 < k - 1
      BY <1>4, <1>11, <2>1, <3>1
    <3>3. QED
      BY <3>1, <3>2
  <2>2. QED
    BY <2>1
<1>13. ShHalves'
  <2>1. bh'.pc = "loop" => tvTail' # tvHead'
    BY <1>1, <1>2 DEF More
  <2>2. bh'.pc # "reset" /\ halves'
    BY <1>1, <1>2
  <2>3. QED
    BY <2>1, <2>2 DEF ShHalves
<1>14. ShTyped'
  BY <1>0, <1>1, <1>3, <1>4, <1>8 DEF ShTyped, ShPlaces, TvPlaces
<1>15. ASSUME NEW c, TvWaiting(c)'
       PROVE  /\ tv[c] # 0
              /\ \A i \in Times : told[i] < tv[c]
              /\ \A e : ShWaiting(e)' => line'[e] < tv[c]
              /\ \A e : TvWaiting(e)' /\ TvRank(c)' < TvRank(e)' => tv[c] < tv[e]
              /\ tv[c] <= time
  <2>1. /\ tv[c] # 0 /\ (\A i \in Times : told[i] < tv[c])
        /\ \A e : ShWaiting(e) => line[e] < tv[c]
        /\ \A e : TvWaiting(e) /\ TvRank(c) < TvRank(e) => tv[c] < tv[e]
        /\ tv[c] <= time /\ t < tv[c]
    BY <1>0, <1>7, <1>11, <1>15 DEF TvUp, ShSoFar
  <2>2. \A e : ShWaiting(e)' => line'[e] < tv[c]
    BY <1>8, <2>1
  <2>3. \A e : TvWaiting(e)' /\ TvRank(c)' < TvRank(e)' => tv[c] < tv[e]
    BY <1>11, <1>12, <1>15, <2>1
  <2>4. QED
    BY <2>1, <2>2, <2>3
<1>16. TvUp'
  BY <1>1, <1>9, <1>15 DEF TvUp
<1>17. \A e : ShWaiting(e)' => line'[e] <= time
  BY <1>0, <1>7, <1>8 DEF ShSoFar
<1>18. ShSoFar'
  BY <1>0, <1>1, <1>9, <1>15, <1>17 DEF ShSoFar
<1>19. ShAll'
  <2>1. ASSUME NEW u \in 1 .. time
        PROVE  \/ \E i \in Times : told[i] = u
               \/ \E c : ShWaiting(c)' /\ line'[c] = u
               \/ \E c : TvWaiting(c)' /\ tv[c] = u
    <3>1. CASE \E c : TvWaiting(c) /\ tv[c] = u
      <4>1. PICK c : TvWaiting(c) /\ tv[c] = u
        BY <3>1
      <4>2. CASE c = tvTail
        BY <1>6, <1>8, <4>1, <4>2
      <4>3. CASE c # tvTail
        BY <1>10, <4>1, <4>3 DEF TvWaiting
      <4>4. QED
        BY <4>2, <4>3
    <3>2. QED
      BY <1>0, <1>8, <3>1 DEF ShAll
  <2>2. QED
    BY <1>1, <1>9, <2>1 DEF ShAll
<1>20. QED
  BY <1>9, <1>13, <1>14, <1>16, <1>18, <1>19 DEF ShFlow

\* Neither its start nor its end touches a line.
LEMMA BhOtherFlow ==
    ASSUME ShInv, ShRunning, ~again', ShFlow, BottomHalf, BhStart \/ BhWake
    PROVE  ShFlow'
<1>0. ShShape /\ ShHalves
  BY DEF ShInv, ShFlow
<1>1. /\ UNCHANGED <<halves, time, line, shTail, unread, told, tv, tvHead, tvTail>>
      /\ \A r \in ShReaders : (rd'[r].pc = "advance" <=> rd[r].pc = "advance") /\ rd'[r].n = rd[r].n
  BY <1>0 DEF BottomHalf, BhStart, BhWake, shRings, Wake, ShShape
<1>2. ShHalves'
  <2>1. CASE BhStart
    <3>1. shQueued /\ bh' = [pc |-> "reset", saved |-> wqCount] /\ tvTail # tvHead
      BY <2>1 DEF BhStart
    <3>2. QED
      BY <1>0, <1>1, <3>1 DEF ShHalves
  <2>2. CASE BhWake
    <3>1. bh.pc = "wake" /\ bh' = [pc |-> "off", saved |-> 0] /\ shQueued' = shQueued
      BY <2>2 DEF BhWake
    <3>2. QED
      BY <1>0, <1>1, <3>1 DEF ShHalves
  <2>3. QED
    BY <2>1, <2>2
<1>3. \A c : ShRank(c)' = ShRank(c) /\ (ShWaiting(c)' <=> ShWaiting(c))
  BY <1>1 DEF ShRank, Gap, ShWaiting, ShPlaces
<1>4. QED
  BY <1>1, <1>2, <1>3, ShFlowQuiet

\* What a reader copies.
LEMMA ShCopies ==
    ASSUME shTail \in ShPlaces, line \in [ShPlaces -> Nat], told \in Seq(Nat),
           NEW n \in Nat, shTail + n <= ShPage,
           told' = told \o [i \in 1 .. n |-> line[(shTail + i - 1) % ShPage]]
    PROVE  /\ told' \in Seq(Nat) /\ DOMAIN told' = 1 .. Len(told) + n
           /\ \A i \in 1 .. Len(told) : told'[i] = told[i]
           /\ \A k \in 0 .. n - 1 : told'[Len(told) + 1 + k] = line[shTail + k]
<1> DEFINE piece == [i \in 1 .. n |-> line[(shTail + i - 1) % ShPage]]
<1>1. \A i \in 1 .. n : shTail + i - 1 \in ShPlaces /\ (shTail + i - 1) % ShPage = shTail + i - 1
  <2>1. \A i \in 1 .. n : shTail + i - 1 \in ShPlaces
    BY ShPageSize DEF ShPlaces
  <2>2. QED
    BY <2>1, ShAround
<1>2. piece \in Seq(Nat) /\ Len(piece) = n /\ \A i \in 1 .. n : piece[i] = line[shTail + i - 1]
  BY <1>1
<1>3. told' = told \o piece
  OBVIOUS
<1> HIDE DEF piece
<1>4. PICK q : q = told'
  OBVIOUS
<1>5. PICK l \in Nat : l = Len(told)
  OBVIOUS
<1>6. q = told \o piece
  BY <1>3, <1>4
<1>7. q \in Seq(Nat) /\ Len(q) = l + n
  <2>1. \A a, b \in Seq(Nat) : a \o b \in Seq(Nat) /\ Len(a \o b) = Len(a) + Len(b)
    OBVIOUS
  <2>2. QED
    BY <1>2, <1>5, <1>6, <2>1
<1>8. \A i \in 1 .. l : q[i] = told[i]
  BY <1>2, <1>5, <1>6
<1>9. \A i \in 1 .. n : q[l + i] = piece[i]
  BY <1>2, <1>5, <1>6
<1>10. ASSUME NEW k \in 0 .. n - 1 PROVE q[l + 1 + k] = line[shTail + k]
  <2>1. PICK i \in 1 .. n : i = k + 1
    OBVIOUS
  <2>2. l + i = l + 1 + k /\ shTail + i - 1 = shTail + k
    BY <2>1 DEF ShPlaces
  <2>3. QED
    BY ZenonT(60), <1>2, <1>9, <2>2
<1>11. DOMAIN q = 1 .. l + n
  BY <1>5, <1>7
<1>12. QED
  BY <1>4, <1>5, <1>7, <1>8, <1>10, <1>11

\* Up to the end of the page the rank of a cell is its distance from the tail.
LEMMA ShCells ==
    ASSUME shTail \in ShPlaces, NEW n \in Nat, shTail + n <= ShPage
    PROVE  /\ \A c \in ShPlaces : ShRank(c) \in Nat /\ (ShRank(c) < n => c = shTail + ShRank(c))
           /\ \A k \in 0 .. n - 1 : shTail + k \in ShPlaces /\ ShRank(shTail + k) = k
  BY ShPageSize DEF ShRank, Gap, ShPlaces

\* It follows what the readers have.
LEMMA ShCopyFlow ==
    ASSUME ShInv, ShRunning, ShFlow, NEW r \in ShReaders, NEW n \in Nat, NEW l \in Nat,
           rd[r].pc = "copy", rd[r].n = n, Go(r, "advance", n), DOMAIN told = 1 .. l,
           told' \in Seq(Nat), DOMAIN told' = 1 .. l + n,
           \A i \in 1 .. l : told'[i] = told[i],
           \A k \in 0 .. n - 1 : told'[l + 1 + k] = line[shTail + k],
           UNCHANGED <<halves, time, line, shTail, tv, tvHead, tvTail, unread, bh, shQueued>>
    PROVE  ShFlow'
<1>0. /\ ShShape /\ ShUnread /\ ShOneReads /\ ShTyped /\ ShHalves /\ ShToldUp /\ ShLinesUp /\ TvUp
      /\ ShSoFar /\ ShAll
  BY DEF ShInv, ShFlow
<1>2. n <= unread /\ shTail + n <= ShPage /\ \A s \in ShReaders : s # r => ~Reading(s)
  BY <1>0 DEF ShOneReads, Reading
<1>3. /\ shTail \in ShPlaces /\ line \in [ShPlaces -> Nat] /\ told \in Seq(Nat) /\ time \in Nat
      /\ tv \in [TvPlaces -> Nat] /\ unread = Gap(shTail, shHead) /\ shHead \in ShPlaces
  BY <1>0 DEF ShShape, ShTyped, ShUnread
<1>4. unread \in Nat
  BY <1>3, ShPageSize DEF Gap, ShPlaces
<1>5. \A i \in 1 .. l : told[i] \in Nat
  BY <1>3
\* The cells of the piece waited, and nobody else has lines of his own.
<1>6. /\ rd'[r].pc = "advance" /\ rd'[r].n = n
      /\ \A s \in ShReaders : s # r => rd[s].pc # "advance" /\ rd'[s].pc # "advance"
      /\ rd[r].pc # "advance"
  BY <1>0, <1>2, ShReaderGoesOn DEF Reading
<1>7. \A c : ShRank(c)' = ShRank(c)
  BY DEF ShRank, Gap
<1>8. \A c : ShWaiting(c) <=> c \in ShPlaces /\ ShRank(c) < unread
  BY <1>6 DEF ShWaiting
<1>9. \A c : ShWaiting(c)' <=> ShWaiting(c) /\ n <= ShRank(c)
  BY <1>6, <1>7, <1>8 DEF ShWaiting, ShPlaces
<1>10. \A c \in ShPlaces : ShRank(c) \in Nat /\ (ShRank(c) < n => c = shTail + ShRank(c))
  BY <1>2, <1>3, ShCells
<1>11. \A k \in 0 .. n - 1 : shTail + k \in ShPlaces /\ ShRank(shTail + k) = k /\ ShWaiting(shTail + k)
  <2>1. \A k \in 0 .. n - 1 : shTail + k \in ShPlaces /\ ShRank(shTail + k) = k
    BY <1>2, <1>3, ShCells
  <2>2. \A k \in 0 .. n - 1 : k < unread
    BY <1>2, <1>4
  <2>3. QED
    BY <1>8, <2>1, <2>2
<1>12. ASSUME NEW i, i \in Times'
       PROVE  \/ i \in Times /\ told'[i] = told[i] /\ i \in 1 .. l
              \/ \E k \in 0 .. n - 1 : /\ i = l + 1 + k /\ told'[i] = line[shTail + k] /\ line[shTail + k] # 0
  <2>1. i \in 1 .. l + n /\ told'[i] # 0
    BY <1>5, <1>12 DEF Times
  <2>2. CASE i \in 1 .. l
    BY <1>5, <2>1, <2>2 DEF Times
  <2>3. CASE i \notin 1 .. l
    <3>1. PICK k \in 0 .. n - 1 : k = i - l - 1
      BY <2>1, <2>3
    <3>2. i = l + 1 + k
      BY <2>1, <3>1
    <3>3. QED
      BY <1>5, <2>1, <3>2
  <2>4. QED
    BY <2>2, <2>3
<1>13. \A i \in Times : i \in Times' /\ told'[i] = told[i] /\ told[i] \in Nat
  BY <1>5 DEF Times
<1>14. ASSUME NEW k \in 0 .. n - 1, line[shTail + k] # 0 PROVE l + 1 + k \in Times'
  <2>1. PICK i : i = l + 1 + k
    OBVIOUS
  <2>2. i \in DOMAIN told' /\ told'[i] = line[shTail + k]
    BY <2>1
  <2>3. QED
    BY <1>14, <2>1, <2>2 DEF Times
<1>15. ShToldUp'
  <2>1. ASSUME NEW i \in Times', NEW j \in Times', i < j PROVE told'[i] < told'[j]
    <3>1. CASE j \in Times /\ told'[j] = told[j] /\ j \in 1 .. l
      <4>1. i \in Times /\ told'[i] = told[i]
        <5>1. ~ \E k \in 0 .. n - 1 : i = l + 1 + k
          BY <2>1, <3>1
        <5>2. QED
          BY <1>12, <2>1, <5>1
      <4>2. QED
        BY <1>0, <2>1, <3>1, <4>1 DEF ShToldUp
    <3>2. CASE \E k \in 0 .. n - 1 : /\ j = l + 1 + k /\ told'[j] = line[shTail + k] /\ line[shTail + k] # 0
      <4>1. PICK k \in 0 .. n - 1 : /\ j = l + 1 + k /\ told'[j] = line[shTail + k] /\ line[shTail + k] # 0
        BY <3>2
      <4>2. CASE i \in Times /\ told'[i] = told[i]
        BY <1>0, <1>11, <4>1, <4>2 DEF ShLinesUp
      <4>3. CASE \E m \in 0 .. n - 1 : /\ i = l + 1 + m /\ told'[i] = line[shTail + m] /\ line[shTail + m] # 0
        <5>1. PICK m \in 0 .. n - 1 : /\ i = l + 1 + m /\ told'[i] = line[shTail + m] /\ line[shTail + m] # 0
          BY <4>3
        <5>2. m < k
          BY <2>1, <4>1, <5>1
        <5>3. ShRank(shTail + m) < ShRank(shTail + k)
          BY <1>11, <5>2
        <5>4. QED
          BY <1>0, <1>11, <4>1, <5>1, <5>3 DEF ShLinesUp
      <4>4. QED
        BY <1>12, <2>1, <4>2, <4>3
    <3>3. QED
      BY <1>12, <2>1, <3>1, <3>2
  <2>2. QED
    BY <2>1 DEF ShToldUp
\* What is told is less than what waits, there and in the ring of times.
<1>16. ASSUME NEW i \in Times'
       PROVE  /\ told'[i] <= time
              /\ \A c : ShWaiting(c)' /\ line[c] # 0 => told'[i] < line[c]
              /\ \A c : TvWaiting(c) => told'[i] < tv[c]
  <2>1. CASE i \in Times /\ told'[i] = told[i]
    BY <1>0, <1>9, <2>1 DEF ShSoFar, ShLinesUp, TvUp
  <2>2. CASE \E k \in 0 .. n - 1 : /\ i = l + 1 + k /\ told'[i] = line[shTail + k] /\ line[shTail + k] # 0
    <3>1. PICK k \in 0 .. n - 1 : /\ told'[i] = line[shTail + k] /\ line[shTail + k] # 0
      BY <2>2
    <3>2. PICK e : e = shTail + k
      OBVIOUS
    <3>3. ShWaiting(e) /\ ShRank(e) = k /\ told'[i] = line[e] /\ line[e] # 0
      BY <1>11, <3>1, <3>2
    <3>4. ASSUME NEW c, ShWaiting(c)', line[c] # 0 PROVE told'[i] < line[c]
      <4>1. ShWaiting(c) /\ n <= ShRank(c) /\ ShRank(c) \in Nat
        BY <1>8, <1>9, <1>10, <3>4
      <4>2. ShRank(e) < ShRank(c)
        BY <3>3, <4>1
      <4>3. QED
        BY <1>0, <3>3, <3>4, <4>1, <4>2 DEF ShLinesUp
    <3>5. told'[i] <= time /\ \A c : TvWaiting(c) => told'[i] < tv[c]
      BY <1>0, <3>3 DEF ShSoFar, TvUp
    <3>6. QED
      BY <3>4, <3>5
  <2>3. QED
    BY <1>12, <2>1, <2>2
<1>17. \A c : (TvWaiting(c)' <=> TvWaiting(c)) /\ TvRank(c)' = TvRank(c)
  BY DEF TvWaiting, TvRank, TvPlaces
<1>18. ShTyped' /\ ShHalves'
  <2>1. bh' = bh
    OBVIOUS
  <2>2. QED
    BY <1>0, <1>5, <2>1 DEF ShTyped, ShHalves, ShPlaces, TvPlaces
<1>19. ShLinesUp'
  BY <1>0, <1>7, <1>9, <1>16 DEF ShLinesUp
<1>20. TvUp'
  BY <1>0, <1>9, <1>16, <1>17 DEF TvUp
<1>21. ShSoFar'
  BY <1>0, <1>9, <1>16, <1>17 DEF ShSoFar
<1>22. ShAll'
  <2>1. ASSUME NEW t \in 1 .. time, NEW c, ShWaiting(c), line[c] = t
        PROVE  (\E i \in Times' : told'[i] = t) \/ (ShWaiting(c)' /\ line[c] = t)
    <3>1. PICK k \in Nat : k = ShRank(c)
      BY <1>8, <1>10, <2>1
    <3>2. CASE k < n
      <4>1. k \in 0 .. n - 1 /\ c = shTail + k
        BY <1>8, <1>10, <2>1, <3>1, <3>2
      <4>2. PICK i : i = l + 1 + k
        OBVIOUS
      <4>3. i \in Times' /\ told'[i] = t
        BY <1>5, <1>14, <2>1, <4>1, <4>2
      <4>4. QED
        BY <4>3
    <3>3. CASE n <= k
      BY <1>9, <2>1, <3>1, <3>3
    <3>4. QED
      BY <3>1, <3>2, <3>3
  <2>2. ASSUME NEW t \in 1 .. time
        PROVE  \/ \E i \in Times' : told'[i] = t
               \/ \E c : ShWaiting(c)' /\ line[c] = t
               \/ \E c : TvWaiting(c)' /\ tv[c] = t
    <3>1. CASE \E i \in Times : told[i] = t
      BY <1>13, <3>1
    <3>2. CASE \E c : ShWaiting(c) /\ line[c] = t
      BY <2>1, <3>2
    <3>3. CASE \E c : TvWaiting(c) /\ tv[c] = t
      BY <1>17, <3>3
    <3>4. QED
      BY <1>0, <3>1, <3>2, <3>3 DEF ShAll
  <2>3. QED
    BY <2>2 DEF ShAll
<1>23. QED
  BY <1>15, <1>18, <1>19, <1>20, <1>21, <1>22 DEF ShFlow

\* The tail moves past the lines that were copied.
LEMMA ShAdvanceFlow ==
    ASSUME ShInv, ShRunning, ShFlow, NEW r \in ShReaders, NEW n \in Nat,
           rd[r].pc = "advance", rd[r].n = n, Go(r, "out", 0),
           shTail' = Incr(shTail, n), unread' = unread - n,
           UNCHANGED <<halves, time, line, told, tv, tvHead, tvTail, bh, shQueued>>
    PROVE  ShFlow'
<1>0. ShShape /\ ShUnread /\ ShOneReads /\ ShHalves
  BY DEF ShInv, ShFlow
<1>1. n <= unread /\ shTail + n <= ShPage /\ \A s \in ShReaders : s # r => ~Reading(s)
  BY <1>0 DEF ShOneReads, Reading
<1>2. /\ rd'[r].pc = "out"
      /\ \A s \in ShReaders : s # r => rd[s].pc # "advance" /\ rd'[s].pc # "advance"
  BY <1>0, <1>1, ShReaderGoesOn DEF Reading
<1>3. shTail \in ShPlaces /\ unread = Gap(shTail, shHead) /\ shHead \in ShPlaces
  BY <1>0 DEF ShShape, ShUnread
<1>4. unread \in 0 .. ShPage - 1
  BY <1>3, ShPageSize DEF Gap, ShPlaces
<1>5. \A c \in ShPlaces : /\ ShRank(c) \in 0 .. ShPage - 1
                          /\ ShRank(c)' = IF n <= ShRank(c) THEN ShRank(c) - n ELSE ShRank(c) + ShPage - n
  <2>1. shTail' = IF shTail + n = ShPage THEN 0 ELSE shTail + n
    BY <1>1, <1>3, ShPageSize DEF Incr, ShPlaces
  <2>2. PICK t : t = shTail'
    OBVIOUS
  <2>3. \A c \in ShPlaces : /\ ShRank(c) \in 0 .. ShPage - 1
                            /\ Gap(t, c) = IF n <= ShRank(c) THEN ShRank(c) - n ELSE ShRank(c) + ShPage - n
    BY <1>1, <1>3, <2>1, <2>2, ShPageSize DEF ShRank, Gap, ShPlaces
  <2>4. \A c : ShRank(c)' = Gap(t, c)
    BY <2>2 DEF ShRank, Gap
  <2>5. QED
    BY <2>3, <2>4
<1>6. \A c : ShWaiting(c) <=> c \in ShPlaces /\ ShRank(c) < unread /\ n <= ShRank(c)
  BY <1>2 DEF ShWaiting
<1>7. \A c : ShWaiting(c)' <=> c \in ShPlaces /\ ShRank(c)' < unread - n
  BY <1>2 DEF ShWaiting, ShPlaces
<1>8. ASSUME NEW c PROVE ShWaiting(c)' <=> ShWaiting(c)
  <2>1. CASE c \in ShPlaces
    <3>1. PICK k \in 0 .. ShPage - 1, m \in 0 .. ShPage - 1 : k = ShRank(c) /\ m = unread
      BY <1>4, <1>5, <2>1
    <3>2. ShRank(c)' = IF n <= k THEN k - n ELSE k + ShPage - n
      BY <1>5, <2>1, <3>1
    <3>3. ShRank(c)' < m - n <=> k < m /\ n <= k
      BY <3>2, ShPageSize
    <3>4. QED
      BY <1>6, <1>7, <2>1, <3>1, <3>3
  <2>2. QED
    BY <1>6, <1>7, <2>1
<1>9. ASSUME NEW c, NEW e, ShWaiting(c), ShWaiting(e), ShRank(c)' < ShRank(e)' PROVE ShRank(c) < ShRank(e)
  <2>1. PICK j \in 0 .. ShPage - 1, k \in 0 .. ShPage - 1 : j = ShRank(c) /\ k = ShRank(e)
    BY <1>5, <1>6, <1>9
  <2>2. j - n < k - n
    BY <1>5, <1>6, <1>9, <2>1
  <2>3. QED
    BY <2>1, <2>2
<1>10. ShHalves'
  BY <1>0 DEF ShHalves
<1>11. QED
  BY <1>8, <1>9, <1>10, ShFlowQuiet

LEMMA ShReadFlow ==
    ASSUME ShInv, ShRunning, ShFlow, NEW r \in ShReaders, Read(r),
           UNCHANGED <<halves, time, line, shHead, tv, tvHead, tvTail, shQueued, bh>>
    PROVE  ShFlow'
<1>0. ShShape /\ ShHalves /\ ShTyped
  BY DEF ShInv, ShFlow
<1>1. PICK n \in Nat : n = rd[r].n
  BY <1>0 DEF ShShape
<1>2. ASSUME NEW pcTo, NEW m \in Nat, Go(r, pcTo, m), pcTo # "advance", rd[r].pc # "advance",
             UNCHANGED <<shTail, told, unread>>
      PROVE  ShFlow'
  <2>1. \A s \in ShReaders : (rd'[s].pc = "advance" <=> rd[s].pc = "advance") /\ (s # r => rd'[s].n = rd[s].n)
    BY <1>0, <1>2, ShReaderGoesOn
  <2>2. \A c : ShRank(c)' = ShRank(c)
    BY <1>2 DEF ShRank, Gap
  <2>3. \A c : ShWaiting(c)' <=> ShWaiting(c)
    BY <1>2, <2>1, <2>2 DEF ShWaiting, ShPlaces
  <2>4. ShHalves'
    BY <1>0 DEF ShHalves
  <2>5. QED
    BY <1>2, <2>2, <2>3, <2>4, ShFlowQuiet
<1>3. CASE rd[r].pc = "out" /\ (\E m \in 1 .. ShPage : Go(r, "look", m)) /\ UNCHANGED <<shTail, told, unread>>
  BY <1>2, <1>3, ShPageSize
<1>4. CASE /\ rd[r].pc = "look" /\ Go(r, IF shHead = shTail THEN "asleep" ELSE "count", rd[r].n)
           /\ UNCHANGED <<shTail, told, unread>>
  BY <1>1, <1>2, <1>4
<1>5. CASE rd[r].pc \in {"asleep", "copy"} /\ Go(r, "out", 0) /\ UNCHANGED <<shTail, told, unread>>
  BY <1>2, <1>5
<1>6. CASE /\ rd[r].pc = "count" /\ Go(r, "copy", IF Readable < rd[r].n THEN Readable ELSE rd[r].n)
           /\ UNCHANGED <<shTail, told, unread>>
  <2>1. Readable \in Nat
    BY <1>0, ShPageSize DEF ShShape, ShPlaces, Readable
  <2> DEFINE m == IF Readable < rd[r].n THEN Readable ELSE rd[r].n
  <2>3. m \in Nat
    BY <1>1, <2>1
  <2>4. Go(r, "copy", m)
    BY ZenonT(60), <1>6
  <2> HIDE DEF m
  <2>5. QED
    BY <1>2, <1>6, <2>3, <2>4
<1>7. CASE /\ rd[r].pc = "copy" /\ Go(r, "advance", rd[r].n) /\ UNCHANGED <<shTail, unread>>
           /\ told' = told \o [i \in 1 .. rd[r].n |-> line[(shTail + i - 1) % ShPage]]
  <2>1. shTail \in ShPlaces /\ line \in [ShPlaces -> Nat] /\ told \in Seq(Nat)
    BY <1>0 DEF ShShape, ShTyped
  <2>2. shTail + n <= ShPage
    BY <1>1, <1>7 DEF ShInv, ShOneReads, Reading
  <2>3. told' = told \o [i \in 1 .. n |-> line[(shTail + i - 1) % ShPage]]
    BY <1>1, <1>7
  <2>4. /\ told' \in Seq(Nat) /\ DOMAIN told' = 1 .. Len(told) + n
        /\ \A i \in 1 .. Len(told) : told'[i] = told[i]
        /\ \A k \in 0 .. n - 1 : told'[Len(told) + 1 + k] = line[shTail + k]
    BY <2>1, <2>2, <2>3, ShCopies
  <2>5. Len(told) \in Nat /\ DOMAIN told = 1 .. Len(told)
    BY <2>1
  <2>6. Go(r, "advance", n)
    BY <1>1, <1>7
  <2>7. QED
    BY <1>1, <1>7, <2>4, <2>5, <2>6, ShCopyFlow
<1>8. CASE /\ rd[r].pc = "advance" /\ shTail' = Incr(shTail, rd[r].n) /\ unread' = unread - rd[r].n
           /\ Go(r, "out", 0) /\ UNCHANGED told
  BY <1>1, <1>8, ShAdvanceFlow
<1>9. QED
  BY <1>3, <1>4, <1>5, <1>6, <1>7, <1>8 DEF Read

LEMMA ShOrderedStep == ShInv /\ ShOrdered /\ [ShNext]_shVars => ShOrdered'
<1> SUFFICES ASSUME ShInv, ShOrdered, [ShNext]_shVars, ShRunning', ~again' PROVE ShFlow'
  BY DEF ShOrdered
<1>1. CASE UNCHANGED shVars \/ TopCount
  <2>1. ShFlow
    BY <1>1 DEF shVars, TopCount, ShRunning, ShOrdered
  <2>2. /\ UNCHANGED <<halves, time, line, shTail, unread, told, tv, tvHead, tvTail, rd, bh, shQueued>>
    BY <1>1 DEF shVars, TopCount
  <2>3. \A c : ShRank(c)' = ShRank(c) /\ (ShWaiting(c)' <=> ShWaiting(c))
    BY <2>2 DEF ShRank, Gap, ShWaiting, ShPlaces
  <2>4. ShHalves'
    BY <2>1, <2>2 DEF ShHalves, ShFlow
  <2>5. QED
    BY <2>1, <2>2, <2>3, <2>4, ShFlowQuiet
<1>2. CASE ShNext
  <2>0. ShRunning /\ ~lost'
    BY <1>2 DEF ShNext, ShRunning
  <2>1. ASSUME ~again, NEW r \in ShReaders, Read(r),
               UNCHANGED <<halves, time, line, shHead, tv, tvHead, tvTail, wqCount, shQueued, th, bh, printed, recounted,
                           lost, again>>
        PROVE  ShFlow'
    BY <2>0, <2>1, ShReadFlow DEF ShOrdered
  <2>2. ASSUME ~again, BottomHalf PROVE ShFlow'
    BY <2>0, <2>2, BhResetFlow, BhLineFlow, BhOtherFlow DEF ShOrdered, BottomHalf
  <2>3. ASSUME ~again, Handler(time + 1) \/ TopHalf(time + 1) PROVE ShFlow'
    BY <2>0, <2>3, ShHandlerFlow, ShTopHalfFlow DEF ShOrdered
  <2>4. ~again
    BY <1>2 DEF ShNext, Handler, TopHalf, TopCount, BottomHalf, BhStart, BhReset, BhLine, BhWake
  <2>5. QED
    BY <1>1, <1>2, <2>1, <2>2, <2>3, <2>4 DEF ShNext
<1>3. QED
  BY <1>1, <1>2

LEMMA ShKeptStep == ShInv /\ ShKept /\ [ShNext]_shVars => ShKept'
  BY ShTypeOKStep, ShOrderedStep, ShCountedStep DEF ShKept

\* With nothing left out along the way, and everything on it later than what
\* was told, nothing is left out of that.
LEMMA ShKeptProperties == ShKept => ShTypeOK /\ ShTimesInOrder /\ ShCountsNoMore
<1> SUFFICES ASSUME ShKept PROVE ShTimesInOrder
  BY DEF ShKept, ShCounted, ShCountsNoMore
<1>1. SUFFICES ASSUME ShFlow, NEW i \in Times, told[i] # 1
               PROVE  \E j \in Times : told[j] = told[i] - 1
  BY DEF ShKept, ShOrdered, ShFlow, ShTimesInOrder, ShToldUp
<1>2. told[i] \in Nat \ {0, 1} /\ told[i] <= time /\ time \in Nat
  BY <1>1 DEF ShFlow, ShTyped, ShSoFar, Times
<1>3. PICK t : t = told[i] - 1
  OBVIOUS
<1>4. t \in 1 .. time /\ t < told[i]
  BY <1>2, <1>3
<1>5. ASSUME NEW c, ShWaiting(c), line[c] = t PROVE FALSE
  <2>1. told[i] < t
    BY <1>1, <1>4, <1>5 DEF ShFlow, ShLinesUp
  <2>2. QED
    BY <1>2, <1>4, <2>1
<1>6. ASSUME NEW c, TvWaiting(c), tv[c] = t PROVE FALSE
  <2>1. told[i] < t
    BY <1>1, <1>6 DEF ShFlow, TvUp
  <2>2. QED
    BY <1>2, <1>4, <2>1
<1>7. QED
  BY <1>1, <1>3, <1>4, <1>5, <1>6 DEF ShFlow, ShAll

-----------------------------------------------------------------------------
(* snull.  A buffer is in at most one of eight places: the hands of four   *)
(* threads that have not given it back, two pools and two queues.          *)

SnThread(k) == IF k < 2 THEN tx[k] ELSE poll[k - 2]
SnThreads == 0 .. 3

SnHeld(k) == IF SnThread(k).pc \in {"enqueue", "free"} THEN {SnThread(k).hand} ELSE {}

SnPlace(i) ==
    IF i < 4 THEN SnHeld(i) ELSE IF i < 6 THEN ToSet(ppool[i - 4]) ELSE ToSet(rxQueue[i - 6])

SnRecords ==
    /\ DOMAIN tx = Devs /\ DOMAIN poll = Devs /\ DOMAIN status = Devs
    /\ \A d \in Devs :
          /\ tx[d] = [pc |-> tx[d].pc, hand |-> tx[d].hand, seen |-> tx[d].seen, next |-> tx[d].next]
          /\ poll[d] = [pc |-> poll[d].pc, hand |-> poll[d].hand, count |-> poll[d].count, sched |-> poll[d].sched]
          /\ tx[d].pc \in {"free", "wake"} => tx[d].next \in {"idle", "txraise", "wdwake"}

SnShape ==
    /\ SnRecords
    /\ ppool \in [Devs -> Seq(Packets)] /\ rxQueue \in [Devs -> Seq(Packets)]
    /\ \A d \in Devs : \A p \in ToSet(ppool[d]) : Owner(p) = d
    /\ \A k \in SnThreads : SnHeld(k) \subseteq Packets

SnApart == \A i, j \in 0 .. 7 : i # j => SnPlace(i) \cap SnPlace(j) = {}

SnNoneTwice == \A d \in Devs : IsInjective(ppool[d]) /\ IsInjective(rxQueue[d])

\* The buffer at the end of a pool has no next.
SnEndsAtBottom == \A d \in Devs : ppool[d] # <<>> => Last(ppool[d]) \in bottom

\* No buffer is lost.
SnEverywhere == \A p \in Packets : \E i \in 0 .. 7 : p \in SnPlace(i)

\* A hand is empty when it has nothing to give back.
SnHandRight(k) ==
    IF SnThread(k).pc \in {"enqueue", "free", "wake"} THEN SnThread(k).hand \in Packets
                                                     ELSE SnThread(k).hand = NoPacket
SnHandsRight == \A k \in SnThreads : SnHandRight(k)

SnPlaced == SnShape /\ SnApart /\ SnNoneTwice /\ SnEndsAtBottom /\ SnEverywhere /\ SnHandsRight

\* What keeps a stopped queue with buffers from being forgotten: who has
\* returned the first of them is about to look whether it was the first.
SnWaker(d) == \E k \in SnThreads : SnThread(k).pc = "wake" /\ SnThread(k).hand = Last(ppool[d])

SnStoppedKnown ==
    \A d \in up : d \in stopped /\ ppool[d] # <<>> => SnWaker(d) \/ d \in lockedUp \cup forced

SnSendsWhileStarted == \A d \in Devs : tx[d].pc = "buffer" => d \notin stopped

\* What keeps a packet that has arrived from being forgotten.
SnAwaited(d) ==
    rxQueue[d] # <<>> =>
        \/ tx[Twin(d)].pc \in {"rxcheck", "rxraise"}
        \/ tx[Twin(d)].pc = "rxintr" /\ "RX" \in status[d]
        \/ poll[d].sched \/ d \in missed \cup deaf \/ torn

SnPolled(d) == d \notin rxInt => poll[d].sched \/ poll[d].pc = "enable" \/ d \in deaf

SnPlain(d) ==
    ~napi => /\ Len(rxQueue[d]) < 2 /\ rxInt = Devs /\ missed = {} /\ deaf = {}
             /\ poll[d].pc = "off" /\ ~poll[d].sched

SnReceives == \A d \in Devs : SnAwaited(d) /\ SnPolled(d) /\ SnPlain(d)

SnInv == up \subseteq Devs /\ SnPlaced /\ SnStoppedKnown /\ SnSendsWhileStarted /\ SnReceives

LEMMA SnDevs == \A d \in Devs : Twin(d) \in Devs /\ Twin(d) # d /\ Twin(Twin(d)) = d
                               /\ \A e \in Devs : e = d \/ e = Twin(d)
  BY DEF Devs, Twin

LEMMA SnNames ==
    /\ \A d \in Devs : /\ SnThread(d) = tx[d] /\ SnThread(2 + d) = poll[d]
                       /\ SnPlace(4 + d) = ToSet(ppool[d]) /\ SnPlace(6 + d) = ToSet(rxQueue[d])
                       /\ d \in SnThreads /\ 2 + d \in SnThreads
                       /\ 4 + d \in 0 .. 7 /\ 6 + d \in 0 .. 7
    /\ \A k \in SnThreads : SnPlace(k) = SnHeld(k) /\ k \in 0 .. 7
    /\ \A i \in 0 .. 7 : i \in SnThreads \/ \E d \in Devs : i = 4 + d \/ i = 6 + d
    /\ \A k \in SnThreads : \E d \in Devs : k = d \/ k = 2 + d
  BY DEF Devs, SnThread, SnThreads, SnPlace

LEMMA SnNamesNext ==
    /\ \A d \in Devs : /\ SnThread(d)' = tx'[d] /\ SnThread(2 + d)' = poll'[d]
                       /\ SnPlace(4 + d)' = ToSet(ppool'[d]) /\ SnPlace(6 + d)' = ToSet(rxQueue'[d])
    /\ \A k \in SnThreads : SnPlace(k)' = SnHeld(k)'
  BY DEF Devs, SnThread, SnThreads, SnPlace

LEMMA SnPlacesKept ==
    /\ \A d \in Devs : /\ ppool'[d] = ppool[d] => SnPlace(4 + d)' = SnPlace(4 + d)
                       /\ rxQueue'[d] = rxQueue[d] => SnPlace(6 + d)' = SnPlace(6 + d)
    /\ \A k \in SnThreads : SnHeld(k)' = SnHeld(k) => SnPlace(k)' = SnPlace(k)
<1>1. ASSUME NEW d \in Devs PROVE ppool'[d] = ppool[d] => SnPlace(4 + d)' = SnPlace(4 + d)
  <2>1. SnPlace(4 + d)' = ToSet(ppool'[d]) /\ SnPlace(4 + d) = ToSet(ppool[d])
    BY SnNames, SnNamesNext
  <2>2. QED
    BY <2>1
<1>2. ASSUME NEW d \in Devs PROVE rxQueue'[d] = rxQueue[d] => SnPlace(6 + d)' = SnPlace(6 + d)
  <2>1. SnPlace(6 + d)' = ToSet(rxQueue'[d]) /\ SnPlace(6 + d) = ToSet(rxQueue[d])
    BY SnNames, SnNamesNext
  <2>2. QED
    BY <2>1
<1>3. QED
  BY <1>1, <1>2, SnNames, SnNamesNext

\* A buffer put on top of a list, and the one on top taken off.
LEMMA SnPush ==
    ASSUME NEW S, NEW s \in Seq(S), NEW x \in S, x \notin ToSet(s), IsInjective(s)
    PROVE  /\ <<x>> \o s \in Seq(S) /\ ToSet(<<x>> \o s) = ToSet(s) \cup {x}
           /\ Len(<<x>> \o s) = Len(s) + 1 /\ <<x>> \o s # <<>>
           /\ IsInjective(<<x>> \o s)
           /\ Last(<<x>> \o s) = IF s = <<>> THEN x ELSE Last(s)
<1> DEFINE l == <<x>> \o s
<1>1. /\ l \in Seq(S) /\ Len(l) = Len(s) + 1 /\ Len(s) \in Nat /\ l[1] = x
      /\ \A i \in 1 .. Len(s) : l[i + 1] = s[i]
  OBVIOUS
<1>2. \A i \in 1 .. Len(l) : i = 1 \/ (i - 1 \in 1 .. Len(s) /\ l[i] = s[i - 1])
  OBVIOUS
<1> HIDE DEF l
<1>3. ToSet(l) = ToSet(s) \cup {x}
  <2>1. ASSUME NEW y \in ToSet(l) PROVE y \in ToSet(s) \cup {x}
    BY <1>1, <1>2 DEF ToSet
  <2>2. ASSUME NEW y \in ToSet(s) PROVE y \in ToSet(l)
    <3>1. PICK i \in 1 .. Len(s) : y = s[i]
      BY DEF ToSet
    <3>2. i + 1 \in 1 .. Len(l) /\ l[i + 1] = y
      BY <1>1, <3>1
    <3>3. QED
      BY <1>1, <3>2 DEF ToSet
  <2>3. x \in ToSet(l)
    BY <1>1 DEF ToSet
  <2>4. QED
    BY <2>1, <2>2, <2>3
<1>4. IsInjective(l)
  <2>1. \A i \in 1 .. Len(s) : s[i] # x
    BY DEF ToSet
  <2>2. \A i, j \in 1 .. Len(s) : s[i] = s[j] => i = j
    BY DEF IsInjective
  <2>3. ASSUME NEW i \in 1 .. Len(l), NEW j \in 1 .. Len(l), l[i] = l[j] PROVE i = j
    <3>1. CASE i = 1 \/ j = 1
      BY <1>1, <1>2, <2>1, <2>3, <3>1
    <3>2. CASE i # 1 /\ j # 1
      <4>1. i - 1 \in 1 .. Len(s) /\ j - 1 \in 1 .. Len(s) /\ s[i - 1] = s[j - 1]
        BY <1>2, <2>3, <3>2
      <4>2. i - 1 = j - 1
        BY <2>2, <4>1
      <4>3. QED
        BY <1>1, <4>2
    <3>3. QED
      BY <3>1, <3>2
  <2>4. QED
    BY <1>1, <2>3 DEF IsInjective
<1>5. Last(l) = IF s = <<>> THEN x ELSE Last(s)
  <2>1. CASE s = <<>>
    BY <1>1, <2>1 DEF Last
  <2>2. CASE s # <<>>
    <3>1. Len(s) \in 1 .. Len(s)
      BY <2>2
    <3>2. l[Len(s) + 1] = s[Len(s)]
      BY <1>1, <3>1
    <3>3. QED
      BY <1>1, <2>2, <3>2 DEF Last
  <2>3. QED
    BY <2>1, <2>2
<1>6. QED
  BY <1>1, <1>3, <1>4, <1>5 DEF l

LEMMA EmptyHasNone == \A S : \A s \in Seq(S) : Len(s) \in Nat /\ (Len(s) = 0 <=> s = <<>>)
  OBVIOUS

LEMMA SnPop ==
    ASSUME NEW S, NEW s \in Seq(S), s # <<>>, IsInjective(s)
    PROVE  /\ Tail(s) \in Seq(S) /\ ToSet(Tail(s)) = ToSet(s) \ {Head(s)} /\ Head(s) \in ToSet(s)
           /\ Head(s) \in S /\ Len(Tail(s)) = Len(s) - 1 /\ Len(s) > 0
           /\ IsInjective(Tail(s))
           /\ Tail(s) # <<>> => Last(Tail(s)) = Last(s)
<1> DEFINE l == Tail(s)
<1>1. /\ l \in Seq(S) /\ Len(l) = Len(s) - 1 /\ Len(s) \in Nat /\ Len(s) > 0 /\ Head(s) = s[1]
      /\ \A i \in 1 .. Len(l) : l[i] = s[i + 1]
  OBVIOUS
<1> HIDE DEF l
<1>2. \A i, j \in 1 .. Len(s) : s[i] = s[j] => i = j
  BY DEF IsInjective
<1>3. ToSet(l) = ToSet(s) \ {s[1]}
  <2>1. ASSUME NEW y \in ToSet(l) PROVE y \in ToSet(s) \ {s[1]}
    <3>1. PICK i \in 1 .. Len(l) : y = s[i + 1]
      BY <1>1 DEF ToSet
    <3>2. i + 1 \in 1 .. Len(s) /\ 1 \in 1 .. Len(s) /\ i + 1 # 1
      BY <1>1
    <3>3. y # s[1]
      BY <1>2, <3>1, <3>2
    <3>4. QED
      BY <3>1, <3>2, <3>3 DEF ToSet
  <2>2. ASSUME NEW y \in ToSet(s), y # s[1] PROVE y \in ToSet(l)
    <3>1. PICK i \in 1 .. Len(s) : y = s[i]
      BY DEF ToSet
    <3>2. i - 1 \in 1 .. Len(l) /\ l[i - 1] = s[(i - 1) + 1]
      BY <1>1, <2>2, <3>1
    <3>3. l[i - 1] = y
      BY <3>1, <3>2
    <3>4. QED
      BY <1>1, <3>2, <3>3 DEF ToSet
  <2>3. QED
    BY <2>1, <2>2
<1>4. IsInjective(l)
  <2>1. ASSUME NEW i \in 1 .. Len(l), NEW j \in 1 .. Len(l), l[i] = l[j] PROVE i = j
    <3>1. s[i + 1] = s[j + 1] /\ i + 1 \in 1 .. Len(s) /\ j + 1 \in 1 .. Len(s)
      BY <1>1, <2>1
    <3>2. i + 1 = j + 1
      BY <1>2, <3>1
    <3>3. QED
      BY <3>2
  <2>2. QED
    BY <1>1, <2>1 DEF IsInjective
<1>5. ASSUME l # <<>> PROVE Last(l) = Last(s)
  <2>1. Len(l) \in 1 .. Len(l) /\ Len(l) + 1 = Len(s)
    BY <1>1, <1>5
  <2>2. l[Len(l)] = s[Len(s)]
    BY <1>1, <2>1
  <2>3. QED
    BY <2>2 DEF Last
<1>6. s[1] \in ToSet(s) /\ s[1] \in S
  BY <1>1 DEF ToSet
<1>7. QED
  BY <1>1, <1>3, <1>4, <1>5, <1>6 DEF l

LEMMA SnInitially == SnInit => SnInv
<1> SUFFICES ASSUME SnInit PROVE SnPlaced /\ SnStoppedKnown /\ SnSendsWhileStarted /\ SnReceives
  BY DEF SnInv, SnInit
<1> DEFINE n == load[1]
<1>1. n \in Nat \ {0}
  <2>1. load \in (Nat \ {0}) \X SUBSET {0, 1}
    BY SnullAssumption DEF SnInit
  <2>2. QED
    BY <2>1
<1>2. /\ ppool = [d \in Devs |-> [i \in 1 .. n |-> <<d, i>>]] /\ rxQueue = [d \in Devs |-> <<>>]
      /\ bottom = {<<d, n>> : d \in Devs} /\ Packets = Devs \X (1 .. n)
      /\ tx = [d \in Devs |-> Idle] /\ poll = [d \in Devs |-> Off] /\ stopped = {}
  BY DEF SnInit, Packets
<1> HIDE DEF n
<1>3. ASSUME NEW d \in Devs
      PROVE  /\ ppool[d] \in Seq(Packets) /\ rxQueue[d] = <<>> /\ DOMAIN ppool[d] = 1 .. n
             /\ Len(ppool[d]) = n /\ \A i \in 1 .. n : ppool[d][i] = <<d, i>>
             /\ SnHeld(d) = {} /\ SnHeld(2 + d) = {}
  <2>1. ppool[d] = [i \in 1 .. n |-> <<d, i>>] /\ rxQueue[d] = <<>>
    BY <1>2
  <2>2. \A i \in 1 .. n : <<d, i>> \in Packets
    BY <1>2
  <2>3. ppool[d] \in Seq(Packets) /\ Len(ppool[d]) = n
    BY <1>1, <2>1, <2>2
  <2>4. SnHeld(d) = {} /\ SnHeld(2 + d) = {}
    <3>1. SnThread(d) = tx[d] /\ SnThread(2 + d) = poll[d]
      BY SnNames
    <3>2. tx[d].pc = "idle" /\ poll[d].pc = "off"
      BY <1>2 DEF Idle, Off
    <3>3. QED
      BY <3>1, <3>2 DEF SnHeld
  <2>5. QED
    BY <2>1, <2>3, <2>4
<1>4. \A d \in Devs : \A p \in ToSet(ppool[d]) : Owner(p) = d
  BY <1>3 DEF ToSet, Owner
<1>5. \A d \in Devs : IsInjective(ppool[d]) /\ IsInjective(rxQueue[d]) /\ ToSet(rxQueue[d]) = {}
  <2>1. ASSUME NEW d \in Devs PROVE IsInjective(ppool[d])
    BY <1>3 DEF IsInjective
  <2>2. ASSUME NEW d \in Devs PROVE IsInjective(rxQueue[d]) /\ ToSet(rxQueue[d]) = {}
    <3>1. rxQueue[d] = <<>> /\ DOMAIN <<>> = {}
      BY <1>3
    <3>2. QED
      BY <3>1 DEF IsInjective, ToSet
  <2>3. QED
    BY <2>1, <2>2
<1>6. ASSUME NEW d \in Devs PROVE Last(ppool[d]) \in bottom
  <2>1. Last(ppool[d]) = <<d, n>>
    BY <1>1, <1>3 DEF Last
  <2>2. QED
    BY <1>2, <2>1
<1>7. \A k \in SnThreads : SnHeld(k) = {}
  BY <1>3, SnNames
<1>8. SnApart
  <2>1. \A i \in 0 .. 7 : SnPlace(i) = {} \/ \E d \in Devs : i = 4 + d /\ SnPlace(i) = ToSet(ppool[d])
    BY <1>5, <1>7, SnNames
  <2>2. \A d, e \in Devs : d # e => ToSet(ppool[d]) \cap ToSet(ppool[e]) = {}
    BY <1>4
  <2>3. QED
    BY <2>1, <2>2 DEF SnApart
<1>9. SnRecords
  <2>1. DOMAIN tx = Devs /\ DOMAIN poll = Devs /\ DOMAIN status = Devs
    BY <1>2 DEF SnInit
  <2>2. \A d \in Devs : tx[d] = Idle /\ poll[d] = Off
    BY <1>2
  <2>3. Idle = [pc |-> Idle.pc, hand |-> Idle.hand, seen |-> Idle.seen, next |-> Idle.next] /\ Idle.pc = "idle"
    BY DEF Idle
  <2>4. Off = [pc |-> Off.pc, hand |-> Off.hand, count |-> Off.count, sched |-> Off.sched]
    BY DEF Off
  <2>5. QED
    BY <2>1, <2>2, <2>3, <2>4 DEF SnRecords
<1>10. SnShape
  <2>1. DOMAIN ppool = Devs /\ ppool = [d \in Devs |-> ppool[d]]
    BY <1>2
  <2>2. DOMAIN rxQueue = Devs /\ rxQueue = [d \in Devs |-> rxQueue[d]]
    BY <1>2
  <2>3. \A d \in Devs : ppool[d] \in Seq(Packets) /\ rxQueue[d] \in Seq(Packets)
    <3>1. <<>> \in Seq(Packets)
      OBVIOUS
    <3>2. QED
      BY <1>3, <3>1
  <2>4. ppool \in [Devs -> Seq(Packets)] /\ rxQueue \in [Devs -> Seq(Packets)]
    BY <2>1, <2>2, <2>3
  <2>5. QED
    BY <1>4, <1>7, <1>9, <2>4 DEF SnShape
<1>11. SnPlaced
  <2>1. SnEverywhere
    <3>1. ASSUME NEW p \in Packets PROVE \E i \in 0 .. 7 : p \in SnPlace(i)
      <4>1. PICK d \in Devs, i \in 1 .. n : p = <<d, i>>
        BY <1>2
      <4>2. p \in ToSet(ppool[d])
        BY <1>3, <4>1 DEF ToSet
      <4>3. SnPlace(4 + d) = ToSet(ppool[d]) /\ 4 + d \in 0 .. 7
        BY SnNames
      <4>4. QED
        BY <4>2, <4>3
    <3>2. QED
      BY <3>1 DEF SnEverywhere
  <2>2. SnHandsRight
    <3>1. \A d \in Devs : SnHandRight(d) /\ SnHandRight(2 + d)
      BY <1>2, SnNames DEF SnHandRight, Idle, Off
    <3>2. QED
      BY <3>1, SnNames DEF SnHandsRight
  <2>3. QED
    BY <1>5, <1>6, <1>8, <1>10, <2>1, <2>2 DEF SnPlaced, SnNoneTwice, SnEndsAtBottom
<1>12. SnStoppedKnown /\ SnSendsWhileStarted
  BY <1>2 DEF SnStoppedKnown, SnSendsWhileStarted
<1>13. SnReceives
  <2>1. \A d \in Devs : rxQueue[d] = <<>> /\ Len(<<>>) = 0 /\ poll[d].pc = "off" /\ ~poll[d].sched
    BY <1>2, <1>3 DEF Off
  <2>2. QED
    BY <2>1 DEF SnReceives, SnAwaited, SnPolled, SnPlain, SnInit
<1>14. QED
  BY <1>11, <1>12, <1>13

\* One buffer from one place to another.
LEMMA SnMoves ==
    ASSUME SnApart, SnEverywhere, Packets' = Packets,
           NEW i \in 0 .. 7, NEW j \in 0 .. 7, i # j, NEW x \in SnPlace(i),
           SnPlace(i)' = SnPlace(i) \ {x}, SnPlace(j)' = SnPlace(j) \cup {x},
           \A m \in 0 .. 7 : m # i /\ m # j => SnPlace(m)' = SnPlace(m)
    PROVE  SnApart' /\ SnEverywhere'
<1>1. ASSUME NEW m \in 0 .. 7, NEW o \in 0 .. 7, m # o, NEW y, y \in SnPlace(m)', y \in SnPlace(o)' PROVE FALSE
  <2>1. CASE y = x
    <3>1. \A q \in 0 .. 7 : x \in SnPlace(q)' => q = j
      BY DEF SnApart
    <3>2. QED
      BY <1>1, <2>1, <3>1
  <2>2. CASE y # x
    <3>1. \A q \in 0 .. 7 : y \in SnPlace(q)' => y \in SnPlace(q)
      BY <2>2
    <3>2. QED
      BY <1>1, <3>1 DEF SnApart
  <2>3. QED
    BY <2>1, <2>2
<1>2. ASSUME NEW p \in Packets PROVE \E m \in 0 .. 7 : p \in SnPlace(m)'
  <2>1. PICK m \in 0 .. 7 : p \in SnPlace(m)
    BY DEF SnEverywhere
  <2>2. CASE p = x
    BY <2>2
  <2>3. CASE p # x
    <3>1. p \in SnPlace(m)'
      BY <2>1, <2>3
    <3>2. QED
      BY <3>1
  <2>4. QED
    BY <2>2, <2>3
<1>3. SnApart'
  BY <1>1 DEF SnApart
<1>4. SnEverywhere'
  BY <1>2 DEF SnEverywhere
<1>5. QED
  BY <1>3, <1>4

\* Only the thread k does something with its control or its hand.
SnOnly(k) ==
    \A m \in SnThreads : m # k => /\ SnThread(m)'.pc = SnThread(m).pc
                                  /\ SnThread(m)'.hand = SnThread(m).hand

LEMMA SnHandsKept ==
    ASSUME SnHandsRight, Packets' = Packets, NEW k \in SnThreads, SnOnly(k), SnHandRight(k)'
    PROVE  SnHandsRight'
<1>1. ASSUME NEW m \in SnThreads, m # k PROVE SnHandRight(m)'
  <2>1. SnHandRight(m)
    BY DEF SnHandsRight
  <2>2. SnThread(m)'.pc = SnThread(m).pc /\ SnThread(m)'.hand = SnThread(m).hand
    BY <1>1 DEF SnOnly
  <2>3. QED
    BY <2>1, <2>2 DEF SnHandRight
<1>2. QED
  BY <1>1 DEF SnHandsRight

\* A step that moves no buffer and does not concern who is about to look.
SnStopsKnown ==
    \A e \in Devs : e \in up' \cap stopped' =>
        e \in lockedUp' \cup forced' \/ (e \in up \cap stopped /\ e \notin lockedUp \cup forced)

LEMMA SnQuiet ==
    ASSUME SnPlaced, up' \subseteq Devs, NEW k \in SnThreads, SnOnly(k), UNCHANGED <<load, ppool, rxQueue, bottom>>,
           SnRecords', SnThread(k).pc \notin {"enqueue", "free"},
           SnThread(k)'.pc \notin {"enqueue", "free", "wake"}, SnThread(k)'.hand = NoPacket
    PROVE  /\ SnPlaced'
           /\ SnThread(k).pc # "wake" /\ SnStoppedKnown /\ SnStopsKnown => SnStoppedKnown'
<1>1. \A m \in SnThreads : SnHeld(m)' = SnHeld(m)
  BY DEF SnHeld, SnOnly
<1>2. Packets' = Packets
  BY DEF Packets
<1>3. \A i \in 0 .. 7 : SnPlace(i)' = SnPlace(i)
  BY <1>1 DEF SnPlace, SnThreads
<1>4. SnPlaced'
  <2>1. SnShape'
    BY <1>1, <1>2 DEF SnPlaced, SnShape
  <2>2. SnApart'
    BY <1>3 DEF SnPlaced, SnApart
  <2>3. SnEverywhere'
    BY <1>2, <1>3 DEF SnPlaced, SnEverywhere
  <2>4. SnHandsRight'
    BY <1>2, SnHandsKept DEF SnPlaced, SnHandRight
  <2>5. QED
    BY <2>1, <2>2, <2>3, <2>4 DEF SnPlaced, SnNoneTwice, SnEndsAtBottom
<1>5. ASSUME SnThread(k).pc # "wake", SnStoppedKnown, SnStopsKnown PROVE SnStoppedKnown'
  <2>1. \A d \in Devs : SnWaker(d) => SnWaker(d)'
    BY <1>5 DEF SnWaker, SnOnly
  <2>2. QED
    BY <1>5, <2>1 DEF SnStoppedKnown, SnStopsKnown
<1>6. QED
  BY <1>4, <1>5

\* GiveBack by the thread k.
LEMMA SnGives ==
    ASSUME SnPlaced, SnStoppedKnown, up \subseteq Devs, NEW k \in SnThreads, SnOnly(k),
           SnThread(k).pc = "free", SnThread(k)'.pc = "wake", SnThread(k)'.hand = SnThread(k).hand,
           GiveBack(SnThread(k).hand), SnRecords',
           UNCHANGED <<load, rxQueue, up, stopped, lockedUp, forced>>
    PROVE  SnPlaced' /\ SnStoppedKnown'
<1>p. PICK p : p = SnThread(k).hand
  OBVIOUS
<1>o. PICK o : o = Owner(p)
  OBVIOUS
<1>0. SnShape /\ SnApart /\ SnNoneTwice /\ SnEndsAtBottom /\ SnEverywhere /\ SnHandsRight
  BY DEF SnPlaced
<1>1. SnHeld(k) = {p} /\ p \in Packets /\ Packets' = Packets
  BY <1>0, <1>p DEF SnHeld, SnShape, Packets
<1>2. o \in Devs
  BY <1>1, <1>o DEF Packets, Owner
<1>3. /\ ppool' = [ppool EXCEPT ![o] = <<p>> \o @]
      /\ bottom' = IF ppool[o] = <<>> THEN bottom \cup {p} ELSE bottom \ {p}
  BY <1>p, <1>o DEF GiveBack, PoolOf, Chained
<1>4. k \in 0 .. 7 /\ 4 + o \in 0 .. 7 /\ k # 4 + o /\ SnPlace(k) = {p} /\ SnPlace(4 + o) = ToSet(ppool[o])
  BY <1>1, <1>2, SnNames DEF Devs, SnThreads
<1>5. p \notin ToSet(ppool[o])
  BY <1>0, <1>4 DEF SnApart
<1>6. ppool[o] \in Seq(Packets) /\ IsInjective(ppool[o])
  BY <1>0, <1>2 DEF SnShape, SnNoneTwice
<1>7. /\ <<p>> \o ppool[o] \in Seq(Packets) /\ ToSet(<<p>> \o ppool[o]) = ToSet(ppool[o]) \cup {p}
      /\ IsInjective(<<p>> \o ppool[o]) /\ <<p>> \o ppool[o] # <<>>
      /\ Last(<<p>> \o ppool[o]) = IF ppool[o] = <<>> THEN p ELSE Last(ppool[o])
  BY <1>1, <1>5, <1>6, SnPush
<1> DEFINE l == <<p>> \o ppool[o]
<1>8. ppool'[o] = l /\ (\A d \in Devs : d # o => ppool'[d] = ppool[d]) /\ ppool' \in [Devs -> Seq(Packets)]
  BY <1>0, <1>2, <1>3, <1>7 DEF SnShape
<1>9. l \in Seq(Packets) /\ ToSet(l) = ToSet(ppool[o]) \cup {p} /\ IsInjective(l) /\ l # <<>>
      /\ Last(l) = IF ppool[o] = <<>> THEN p ELSE Last(ppool[o])
  BY <1>7
<1> HIDE DEF l
<1>10. SnHeld(k)' = {} /\ \A m \in SnThreads : m # k => SnHeld(m)' = SnHeld(m)
  BY DEF SnHeld, SnOnly
<1>11. SnApart' /\ SnEverywhere'
  <2>1. SnPlace(k)' = {} /\ SnPlace(4 + o)' = ToSet(ppool[o]) \cup {p}
    BY <1>2, <1>8, <1>9, <1>10, SnNamesNext
  <2>2. \A m \in 0 .. 7 : m # k /\ m # 4 + o => SnPlace(m)' = SnPlace(m)
    <3>1. \A m \in SnThreads : m # k => SnPlace(m)' = SnPlace(m)
      BY <1>10, SnNames, SnNamesNext
    <3>2. \A d \in Devs : d # o => SnPlace(4 + d)' = SnPlace(4 + d)
      BY <1>8, SnPlacesKept
    <3>3. \A d \in Devs : SnPlace(6 + d)' = SnPlace(6 + d)
      BY SnPlacesKept
    <3>4. \A m \in 0 .. 7 : m \in SnThreads \/ \E d \in Devs : m = 4 + d \/ m = 6 + d
      BY SnNames
    <3>5. QED
      BY <3>1, <3>2, <3>3, <3>4
  <2>3. QED
    <3>1. p \in SnPlace(k) /\ SnPlace(k)' = SnPlace(k) \ {p}
          /\ SnPlace(4 + o)' = SnPlace(4 + o) \cup {p}
      BY <1>4, <2>1
    <3> DEFINE j == 4 + o
    <3>2. j \in 0 .. 7 /\ k # j /\ SnPlace(j)' = SnPlace(j) \cup {p}
          /\ \A m \in 0 .. 7 : m # k /\ m # j => SnPlace(m)' = SnPlace(m)
      BY <1>4, <2>2, <3>1
    <3> HIDE DEF j
    <3>3. QED
      BY <1>0, <1>1, <1>4, <3>1, <3>2, SnMoves
<1>12. SnShape'
  <2>1. \A d \in Devs : \A q \in ToSet(ppool'[d]) : Owner(q) = d
    BY <1>0, <1>o, <1>8, <1>9 DEF SnShape
  <2>2. \A m \in SnThreads : SnHeld(m)' \subseteq Packets
    BY <1>0, <1>10 DEF SnShape
  <2>3. QED
    BY <1>0, <1>1, <1>8, <2>1, <2>2 DEF SnShape
<1>13. SnNoneTwice'
  BY <1>0, <1>8, <1>9 DEF SnNoneTwice
<1>14. SnEndsAtBottom'
  <2>1. ASSUME NEW d \in Devs, ppool'[d] # <<>> PROVE Last(ppool'[d]) \in bottom'
    <3>1. CASE d = o
      <4>1. ppool[o] # <<>> => Last(ppool[o]) \in bottom /\ Last(ppool[o]) \in ToSet(ppool[o])
        <5>1. ppool[o] # <<>> => Len(ppool[o]) \in DOMAIN ppool[o]
          BY <1>6
        <5>2. QED
          BY <1>0, <1>2, <5>1 DEF SnEndsAtBottom, Last, ToSet
      <4>2. QED
        BY <1>3, <1>5, <1>8, <1>9, <3>1, <4>1
    <3>2. CASE d # o
      <4>1. ppool[d] \in Seq(Packets) /\ ppool'[d] = ppool[d] /\ ppool[d] # <<>>
        BY <1>0, <1>8, <2>1, <3>2 DEF SnShape
      <4>2. Last(ppool[d]) \in ToSet(ppool[d])
        <5>1. Len(ppool[d]) \in DOMAIN ppool[d]
          BY <4>1
        <5>2. QED
          BY <5>1 DEF Last, ToSet
      <4>3. Owner(Last(ppool[d])) # o
        BY <1>0, <3>2, <4>2 DEF SnShape
      <4>4. QED
        BY <1>0, <1>3, <1>o, <4>1, <4>3 DEF SnEndsAtBottom
    <3>3. QED
      BY <3>1, <3>2
  <2>2. QED
    BY <2>1 DEF SnEndsAtBottom
<1>15. SnStoppedKnown'
  <2>1. ASSUME NEW d \in up, d \in stopped, ppool'[d] # <<>> PROVE SnWaker(d)' \/ d \in lockedUp \cup forced
    <3>1. CASE d = o /\ ppool[o] = <<>>
      <4>1. Last(ppool'[d]) = p
        BY <1>8, <1>9, <3>1
      <4>2. SnThread(k)'.hand = p
        BY <1>p
      <4>3. QED
        BY <4>1, <4>2 DEF SnWaker
    <3>2. CASE ~(d = o /\ ppool[o] = <<>>)
      <4>1. ppool[d] # <<>> /\ Last(ppool'[d]) = Last(ppool[d])
        BY <1>8, <1>9, <2>1, <3>2
      <4>2. CASE SnWaker(d)
        BY <4>1, <4>2 DEF SnWaker, SnOnly
      <4>3. QED
        BY <2>1, <4>1, <4>2 DEF SnStoppedKnown
    <3>3. QED
      BY <3>1, <3>2
  <2>2. QED
    BY <2>1 DEF SnStoppedKnown
<1>16. SnHandsRight'
  BY <1>0, <1>1, <1>p, SnHandsKept DEF SnHandRight
<1>17. QED
  BY <1>11, <1>12, <1>13, <1>14, <1>15, <1>16 DEF SnPlaced

\* WakeUp by the thread k.
LEMMA SnLooks ==
    ASSUME SnPlaced, SnStoppedKnown, up \subseteq Devs, NEW k \in SnThreads, SnOnly(k),
           SnThread(k).pc = "wake", SnThread(k)'.pc \notin {"enqueue", "free", "wake"},
           SnThread(k)'.hand = NoPacket, WakeUp(SnThread(k).hand), SnRecords',
           UNCHANGED <<load, ppool, rxQueue, bottom, up, lockedUp>>
    PROVE  SnPlaced' /\ SnStoppedKnown' /\ stopped' \subseteq stopped
<1>0. SnShape /\ SnEndsAtBottom
  BY DEF SnPlaced
<1>1. SnPlaced'
  BY SnQuiet
<1>2. /\ stopped' = IF SnThread(k).hand \in bottom THEN stopped \ {Owner(SnThread(k).hand)} ELSE stopped
      /\ forced \subseteq forced'
  BY DEF WakeUp, WakeIfFirst
<1>3. ASSUME NEW d \in up, d \in stopped', ppool[d] # <<>>, d \notin lockedUp \cup forced'
      PROVE  SnWaker(d)'
  <2>1. d \in stopped /\ d \in Devs /\ d \notin lockedUp \cup forced
    BY <1>2, <1>3
  <2>2. PICK m \in SnThreads : SnThread(m).pc = "wake" /\ SnThread(m).hand = Last(ppool[d])
    BY <1>3, <2>1 DEF SnStoppedKnown, SnWaker
  <2>3. CASE m = k
    <3>1. Last(ppool[d]) \in bottom
      BY <1>0, <1>3, <2>1 DEF SnEndsAtBottom
    <3>2. Len(ppool[d]) \in DOMAIN ppool[d]
      <4>1. ppool[d] \in Seq(Packets)
        BY <1>0, <2>1 DEF SnShape
      <4>2. QED
        BY <1>3, <4>1
    <3>3. Last(ppool[d]) \in ToSet(ppool[d])
      BY <3>2 DEF Last, ToSet
    <3>4. Owner(Last(ppool[d])) = d
      BY <1>0, <2>1, <3>3 DEF SnShape
    <3>5. QED
      BY <1>2, <1>3, <2>2, <2>3, <3>1, <3>4
  <2>4. CASE m # k
    BY <2>2, <2>4 DEF SnOnly, SnWaker
  <2>5. QED
    BY <2>3, <2>4
<1>4. QED
  BY <1>1, <1>2, <1>3 DEF SnStoppedKnown

\* The thread k takes the packet on top of the queue of d.
LEMMA SnTakes ==
    ASSUME SnPlaced, SnStoppedKnown, up \subseteq Devs, NEW k \in SnThreads, SnOnly(k),
           SnThread(k).pc \notin {"enqueue", "free", "wake"}, SnThread(k)'.pc = "free",
           NEW d \in Devs, rxQueue[d] # <<>>, SnThread(k)'.hand = Head(rxQueue[d]),
           rxQueue' = [rxQueue EXCEPT ![d] = Tail(@)], SnRecords',
           UNCHANGED <<load, ppool, bottom, up, stopped, lockedUp, forced>>
    PROVE  SnPlaced' /\ SnStoppedKnown'
<1>p. PICK p : p = Head(rxQueue[d])
  OBVIOUS
<1>0. SnShape /\ SnApart /\ SnNoneTwice /\ SnEndsAtBottom /\ SnEverywhere /\ SnHandsRight
  BY DEF SnPlaced
<1>1. rxQueue[d] \in Seq(Packets) /\ IsInjective(rxQueue[d]) /\ Packets' = Packets
  BY <1>0 DEF SnShape, SnNoneTwice, Packets
<1>2. PICK l : l = Tail(rxQueue[d])
  OBVIOUS
<1>3. /\ l \in Seq(Packets) /\ ToSet(l) = ToSet(rxQueue[d]) \ {p} /\ p \in ToSet(rxQueue[d])
      /\ p \in Packets /\ IsInjective(l)
  BY <1>1, <1>2, <1>p, SnPop
<1>4. rxQueue'[d] = l /\ (\A e \in Devs : e # d => rxQueue'[e] = rxQueue[e]) /\ rxQueue' \in [Devs -> Seq(Packets)]
  BY <1>0, <1>2, <1>3 DEF SnShape
<1>5. SnHeld(k) = {} /\ SnHeld(k)' = {p} /\ \A m \in SnThreads : m # k => SnHeld(m)' = SnHeld(m)
  BY <1>p DEF SnHeld, SnOnly
<1>6. SnApart' /\ SnEverywhere'
  <2>1. \A m \in SnThreads : m # k => SnPlace(m)' = SnPlace(m)
    BY <1>5, SnNames, SnNamesNext
  <2>2. \A e \in Devs : SnPlace(4 + e)' = SnPlace(4 + e)
    BY SnPlacesKept
  <2>3. \A e \in Devs : e # d => SnPlace(6 + e)' = SnPlace(6 + e)
    BY <1>4, SnPlacesKept
  <2> DEFINE j == 6 + d
  <2>4. j \in 0 .. 7 /\ k \in 0 .. 7 /\ j # k
    BY DEF SnThreads, Devs
  <2>5. p \in SnPlace(j) /\ SnPlace(j)' = SnPlace(j) \ {p} /\ SnPlace(k)' = SnPlace(k) \cup {p}
    <3>1. SnPlace(j) = ToSet(rxQueue[d]) /\ SnPlace(j)' = ToSet(rxQueue'[d])
      BY SnNames, SnNamesNext
    <3>2. SnPlace(k) = {} /\ SnPlace(k)' = {p}
      BY <1>5, SnNames, SnNamesNext
    <3>3. QED
      BY <1>3, <1>4, <3>1, <3>2
  <2>6. \A m \in 0 .. 7 : m # j /\ m # k => SnPlace(m)' = SnPlace(m)
    <3>1. \A m \in 0 .. 7 : m \in SnThreads \/ \E e \in Devs : m = 4 + e \/ m = 6 + e
      BY SnNames
    <3>2. QED
      BY <2>1, <2>2, <2>3, <3>1
  <2> HIDE DEF j
  <2>7. QED
    BY <1>0, <1>1, <2>4, <2>5, <2>6, SnMoves
<1>7. SnShape'
  <2>1. \A m \in SnThreads : SnHeld(m)' \subseteq Packets
    BY ZenonT(60), <1>0, <1>3, <1>5 DEF SnShape
  <2>2. QED
    BY <1>0, <1>1, <1>4, <2>1 DEF SnShape
<1>8. SnNoneTwice' /\ SnEndsAtBottom'
  BY <1>0, <1>3, <1>4 DEF SnNoneTwice, SnEndsAtBottom
<1>9. SnStoppedKnown'
  <2>1. \A e \in Devs : SnWaker(e) => SnWaker(e)'
    BY DEF SnWaker, SnOnly
  <2>2. QED
    BY <2>1 DEF SnStoppedKnown
<1>10. SnHandsRight'
  BY <1>0, <1>1, <1>3, <1>p, SnHandsKept DEF SnHandRight
<1>11. QED
  BY <1>6, <1>7, <1>8, <1>9, <1>10 DEF SnPlaced

LEMMA SnGetTxBufferPlaces ==
    ASSUME SnPlaced, SnStoppedKnown, up \subseteq Devs, NEW d \in Devs, GetTxBuffer(d),
           tx'[d].pc # "oops", load' = load
    PROVE  SnPlaced' /\ SnStoppedKnown'
<1>p. PICK p : p = Head(ppool[d])
  OBVIOUS
<1>0. SnShape /\ SnApart /\ SnNoneTwice /\ SnEndsAtBottom /\ SnRecords /\ SnEverywhere /\ SnHandsRight
  BY DEF SnPlaced, SnShape
<1>1. ppool[d] \in Seq(Packets) /\ IsInjective(ppool[d]) /\ Packets' = Packets
  BY <1>0 DEF SnShape, SnNoneTwice, Packets
<1>2. ppool[d] # <<>>
  BY <1>0 DEF GetTxBuffer, TxTo, SnRecords
<1>3. PICK l : l = Tail(ppool[d])
  OBVIOUS
<1>4. /\ l \in Seq(Packets) /\ ToSet(l) = ToSet(ppool[d]) \ {p} /\ p \in ToSet(ppool[d])
      /\ p \in Packets /\ IsInjective(l) /\ Len(l) = Len(ppool[d]) - 1 /\ Len(ppool[d]) > 0
      /\ l # <<>> => Last(l) = Last(ppool[d])
  BY <1>1, <1>2, <1>3, <1>p, SnPop
<1>5. /\ tx[d].pc = "buffer" /\ ppool' = [ppool EXCEPT ![d] = Tail(@)]
      /\ tx' = [tx EXCEPT ![d].pc = "enqueue", ![d].hand = Head(ppool[d])]
      /\ stopped' = IF Len(ppool[d]) = 1 THEN stopped \cup {d} ELSE stopped
      /\ UNCHANGED <<rxQueue, bottom, status, up, poll, forced, lockedUp>>
  BY <1>2 DEF GetTxBuffer, StopIfEmpty
<1>6. ppool'[d] = l /\ (\A e \in Devs : e # d => ppool'[e] = ppool[e]) /\ ppool' \in [Devs -> Seq(Packets)]
  BY <1>0, <1>3, <1>4, <1>5 DEF SnShape
<1>7. /\ tx'[d] = [pc |-> "enqueue", hand |-> p, seen |-> tx[d].seen, next |-> tx[d].next]
      /\ \A e \in Devs : e # d => tx'[e] = tx[e]
  <2>1. /\ DOMAIN tx = Devs /\ tx' = [tx EXCEPT ![d].pc = "enqueue", ![d].hand = p]
        /\ tx[d] = [pc |-> tx[d].pc, hand |-> tx[d].hand, seen |-> tx[d].seen, next |-> tx[d].next]
    BY <1>0, <1>5, <1>p DEF SnRecords
  <2>2. \A e \in Devs : e # d => tx'[e] = tx[e]
    BY <2>1
  <2>3. tx'[d] = [tx[d] EXCEPT !.pc = "enqueue", !.hand = p]
    BY <2>1
  <2>4. tx'[d] = [pc |-> "enqueue", hand |-> p, seen |-> tx[d].seen, next |-> tx[d].next]
    BY <2>1, <2>3
  <2>5. QED
    BY <2>2, <2>4
<1>8. SnRecords'
  <2>1. DOMAIN tx' = Devs /\ poll' = poll /\ status' = status
    BY <1>0, <1>5 DEF SnRecords
  <2>2. \A e \in Devs :
           /\ tx'[e] = [pc |-> tx'[e].pc, hand |-> tx'[e].hand, seen |-> tx'[e].seen, next |-> tx'[e].next]
           /\ tx'[e].pc \in {"free", "wake"} => tx'[e].next \in {"idle", "txraise", "wdwake"}
    BY <1>0, <1>7 DEF SnRecords
  <2>3. QED
    BY <1>0, <2>1, <2>2 DEF SnRecords
<1>9. d \in SnThreads /\ SnThread(d).pc = "buffer" /\ SnThread(d)'.pc = "enqueue" /\ SnThread(d)'.hand = p /\ SnOnly(d)
  <2>1. \A m \in SnThreads : m # d => SnThread(m)' = SnThread(m)
    BY <1>5, <1>7 DEF SnThread, SnThreads, Devs
  <2>2. QED
    <3>1. SnThread(d)' = tx'[d] /\ SnThread(d) = tx[d] /\ d \in SnThreads
      BY SnNames, SnNamesNext
    <3>2. QED
      BY <1>5, <1>7, <2>1, <3>1 DEF SnOnly
<1>10. SnHeld(d) = {} /\ SnHeld(d)' = {p} /\ \A m \in SnThreads : m # d => SnHeld(m)' = SnHeld(m)
  BY <1>9 DEF SnHeld, SnOnly
<1>11. SnApart' /\ SnEverywhere'
  <2>1. \A m \in SnThreads : m # d => SnPlace(m)' = SnPlace(m)
    BY <1>10, SnNames, SnNamesNext
  <2>2. \A e \in Devs : e # d => SnPlace(4 + e)' = SnPlace(4 + e)
    BY <1>6, SnPlacesKept
  <2>3. \A e \in Devs : SnPlace(6 + e)' = SnPlace(6 + e)
    BY <1>5, SnPlacesKept
  <2> DEFINE j == 4 + d
  <2>4. j \in 0 .. 7 /\ d \in 0 .. 7 /\ j # d
    BY DEF SnThreads, Devs
  <2>5. p \in SnPlace(j) /\ SnPlace(j)' = SnPlace(j) \ {p} /\ SnPlace(d)' = SnPlace(d) \cup {p}
    <3>1. SnPlace(j) = ToSet(ppool[d]) /\ SnPlace(j)' = ToSet(ppool'[d])
      BY SnNames, SnNamesNext
    <3>2. SnPlace(d) = {} /\ SnPlace(d)' = {p}
      BY <1>9, <1>10, SnNames, SnNamesNext
    <3>3. QED
      BY <1>4, <1>6, <3>1, <3>2
  <2>6. \A m \in 0 .. 7 : m # j /\ m # d => SnPlace(m)' = SnPlace(m)
    <3>1. \A m \in 0 .. 7 : m \in SnThreads \/ \E e \in Devs : m = 4 + e \/ m = 6 + e
      BY SnNames
    <3>2. QED
      BY <2>1, <2>2, <2>3, <3>1
  <2> HIDE DEF j
  <2>7. QED
    BY <1>0, <1>1, <2>4, <2>5, <2>6, SnMoves
<1>12. SnShape'
  <2>1. \A m \in SnThreads : SnHeld(m)' \subseteq Packets
    BY SMTT(30), <1>0, <1>4, <1>9, <1>10 DEF SnShape
  <2>2. \A e \in Devs : \A q \in ToSet(ppool'[e]) : Owner(q) = e
    BY <1>0, <1>4, <1>6 DEF SnShape
  <2>3. QED
    BY <1>0, <1>1, <1>5, <1>6, <1>8, <2>1, <2>2 DEF SnShape
<1>13. SnNoneTwice' /\ SnEndsAtBottom'
  BY <1>0, <1>2, <1>4, <1>5, <1>6 DEF SnNoneTwice, SnEndsAtBottom
<1>14. SnStoppedKnown'
  <2>1. ASSUME NEW e \in up, e \in stopped', ppool'[e] # <<>> PROVE SnWaker(e)' \/ e \in lockedUp \cup forced
    <3>1. e \in stopped /\ Last(ppool'[e]) = Last(ppool[e]) /\ ppool[e] # <<>>
      <4>1. CASE e = d
        <5>1. Len(ppool[d]) # 1
          <6>1. l # <<>>
            BY <1>6, <2>1, <4>1
          <6>2. Len(l) # 0
            BY <1>4, <6>1, EmptyHasNone
          <6>3. QED
            BY <1>4, <6>2
        <5>2. QED
          BY <1>2, <1>4, <1>5, <1>6, <2>1, <4>1, <5>1
      <4>2. CASE e # d
        BY <1>5, <1>6, <2>1, <4>2
      <4>3. QED
        BY <4>1, <4>2
    <3>2. SnWaker(e) => SnWaker(e)'
      BY <1>9, <3>1 DEF SnWaker, SnOnly
    <3>3. QED
      BY <3>1, <3>2 DEF SnStoppedKnown
  <2>2. QED
    BY <1>5, <2>1 DEF SnStoppedKnown
<1>15. SnHandsRight'
  BY <1>0, <1>1, <1>4, <1>9, SnHandsKept DEF SnHandRight
<1>16. QED
  BY <1>11, <1>12, <1>13, <1>14, <1>15 DEF SnPlaced

\* A step of the transmit path of d, and one of its poll.
LEMMA SnTxThread ==
    ASSUME SnRecords, NEW d \in Devs, NEW pcTo, NEW hand, NEW seen, NEW next,
           DOMAIN tx' = Devs, tx'[d] = [pc |-> pcTo, hand |-> hand, seen |-> seen, next |-> next],
           \A e \in Devs : e # d => tx'[e] = tx[e],
           pcTo \in {"free", "wake"} => next \in {"idle", "txraise", "wdwake"},
           DOMAIN poll' = Devs, DOMAIN status' = Devs,
           \A e \in Devs : poll'[e] = [pc |-> poll[e].pc, hand |-> poll[e].hand,
                                       count |-> poll[e].count, sched |-> poll'[e].sched]
    PROVE  /\ SnRecords' /\ d \in SnThreads /\ SnOnly(d)
           /\ SnThread(d) = tx[d] /\ SnThread(d)'.pc = pcTo /\ SnThread(d)'.hand = hand
<1>1. SnRecords'
  <2>1. \A e \in Devs :
           /\ tx'[e] = [pc |-> tx'[e].pc, hand |-> tx'[e].hand, seen |-> tx'[e].seen, next |-> tx'[e].next]
           /\ tx'[e].pc \in {"free", "wake"} => tx'[e].next \in {"idle", "txraise", "wdwake"}
    BY DEF SnRecords
  <2>2. \A e \in Devs : poll'[e] = [pc |-> poll'[e].pc, hand |-> poll'[e].hand,
                                    count |-> poll'[e].count, sched |-> poll'[e].sched]
    OBVIOUS
  <2>3. QED
    BY <2>1, <2>2 DEF SnRecords
<1>2. SnThread(d) = tx[d] /\ SnThread(d)' = tx'[d] /\ d \in SnThreads
  BY SnNames, SnNamesNext
<1>3. ASSUME NEW m \in SnThreads, m # d
      PROVE  SnThread(m)'.pc = SnThread(m).pc /\ SnThread(m)'.hand = SnThread(m).hand
  <2>1. PICK e \in Devs : m = e \/ m = 2 + e
    BY SnNames
  <2>2. CASE m = e
    <3>1. SnThread(e) = tx[e] /\ SnThread(e)' = tx'[e]
      BY SnNames, SnNamesNext
    <3>2. QED
      BY <1>3, <2>2, <3>1
  <2>3. CASE m = 2 + e
    <3>1. SnThread(2 + e) = poll[e] /\ SnThread(2 + e)' = poll'[e]
      BY SnNames, SnNamesNext
    <3>2. poll'[e].pc = poll[e].pc /\ poll'[e].hand = poll[e].hand
      OBVIOUS
    <3>3. QED
      BY <2>3, <3>1, <3>2
  <2>4. QED
    BY <2>1, <2>2, <2>3
<1>4. SnOnly(d)
  BY <1>3 DEF SnOnly
<1>5. QED
  BY <1>1, <1>2, <1>4

LEMMA SnPollThread ==
    ASSUME SnRecords, NEW d \in Devs, NEW pcTo, NEW hand, NEW polled, NEW sched,
           DOMAIN poll' = Devs, poll'[d] = [pc |-> pcTo, hand |-> hand, count |-> polled, sched |-> sched],
           \A e \in Devs : e # d => poll'[e] = poll[e],
           UNCHANGED <<tx, status>>
    PROVE  /\ SnRecords' /\ 2 + d \in SnThreads /\ SnOnly(2 + d)
           /\ SnThread(2 + d) = poll[d] /\ SnThread(2 + d)'.pc = pcTo /\ SnThread(2 + d)'.hand = hand
<1>1. SnRecords'
  <2>1. \A e \in Devs : poll'[e] = [pc |-> poll'[e].pc, hand |-> poll'[e].hand,
                                    count |-> poll'[e].count, sched |-> poll'[e].sched]
    BY DEF SnRecords
  <2>2. QED
    BY <2>1 DEF SnRecords
<1>2. SnThread(2 + d) = poll[d] /\ SnThread(2 + d)' = poll'[d] /\ 2 + d \in SnThreads
  BY SnNames, SnNamesNext
<1>3. ASSUME NEW m \in SnThreads, m # 2 + d PROVE SnThread(m)' = SnThread(m)
  <2>1. PICK e \in Devs : m = e \/ m = 2 + e
    BY SnNames
  <2>2. CASE m = e
    <3>1. SnThread(e) = tx[e] /\ SnThread(e)' = tx'[e]
      BY SnNames, SnNamesNext
    <3>2. QED
      BY <2>2, <3>1
  <2>3. CASE m = 2 + e
    <3>1. SnThread(2 + e) = poll[e] /\ SnThread(2 + e)' = poll'[e]
      BY SnNames, SnNamesNext
    <3>2. QED
      BY <1>3, <2>3, <3>1
  <2>4. QED
    BY <2>1, <2>2, <2>3
<1>4. SnOnly(2 + d)
  BY <1>3 DEF SnOnly
<1>5. QED
  BY <1>1, <1>2, <1>4

LEMMA SnEnqueuePlaces ==
    ASSUME SnPlaced, SnStoppedKnown, up \subseteq Devs, NEW d \in Devs, Enqueue(d), load' = load
    PROVE  /\ SnPlaced' /\ SnStoppedKnown'
           /\ Len(rxQueue'[Twin(d)]) = Len(rxQueue[Twin(d)]) + 1
           /\ \A e \in Devs : e # Twin(d) => rxQueue'[e] = rxQueue[e]
           /\ DOMAIN tx' = Devs /\ tx'[d].pc = "rxcheck"
           /\ \A e \in Devs : e # d => tx'[e] = tx[e]
<1>p. PICK p : p = tx[d].hand
  OBVIOUS
<1>t. PICK t \in Devs : t = Twin(d)
  BY SnDevs
<1>0. SnShape /\ SnApart /\ SnNoneTwice /\ SnEndsAtBottom /\ SnRecords /\ SnEverywhere /\ SnHandsRight
  BY DEF SnPlaced, SnShape
<1>1. /\ tx[d].pc = "enqueue" /\ rxQueue' = [rxQueue EXCEPT ![t] = <<p>> \o @]
      /\ bottom' = IF rxQueue[t] = <<>> THEN bottom \cup {p} ELSE bottom \ {p}
      /\ tx' = [tx EXCEPT ![d].hand = NoPacket, ![d].pc = "rxcheck"]
      /\ UNCHANGED <<ppool, status, stopped, up, poll, forced, lockedUp>>
  BY <1>p, <1>t DEF Enqueue, Chained
<1>2. /\ DOMAIN tx' = Devs
      /\ tx'[d] = [pc |-> "rxcheck", hand |-> NoPacket, seen |-> tx[d].seen, next |-> tx[d].next]
      /\ \A e \in Devs : e # d => tx'[e] = tx[e]
  <2>1. /\ DOMAIN tx = Devs /\ tx' = [tx EXCEPT ![d].hand = NoPacket, ![d].pc = "rxcheck"]
        /\ tx[d] = [pc |-> tx[d].pc, hand |-> tx[d].hand, seen |-> tx[d].seen, next |-> tx[d].next]
    BY <1>0, <1>1 DEF SnRecords
  <2>2. tx'[d] = [tx[d] EXCEPT !.hand = NoPacket, !.pc = "rxcheck"]
    BY <2>1
  <2>3. tx'[d] = [pc |-> "rxcheck", hand |-> NoPacket, seen |-> tx[d].seen, next |-> tx[d].next]
    BY <2>1, <2>2
  <2>4. QED
    BY <2>1, <2>3
<1>3. /\ SnRecords' /\ d \in SnThreads /\ SnOnly(d)
      /\ SnThread(d) = tx[d] /\ SnThread(d)'.pc = "rxcheck" /\ SnThread(d)'.hand = NoPacket
  BY <1>0, <1>1, <1>2, SnTxThread DEF SnRecords
<1>4. SnHeld(d) = {p} /\ p \in Packets /\ Packets' = Packets
      /\ SnHeld(d)' = {} /\ \A m \in SnThreads : m # d => SnHeld(m)' = SnHeld(m)
  BY <1>0, <1>1, <1>3, <1>p DEF SnHeld, SnOnly, SnShape, Packets
<1>5. SnPlace(d) = {p} /\ SnPlace(6 + t) = ToSet(rxQueue[t]) /\ d \in 0 .. 7 /\ 6 + t \in 0 .. 7 /\ 6 + t # d
      /\ \A e \in Devs : SnPlace(4 + e) = ToSet(ppool[e]) /\ 4 + e \in 0 .. 7 /\ 4 + e # d
  BY <1>3, <1>4, SnNames DEF Devs
<1>6. p \notin ToSet(rxQueue[t]) /\ \A e \in Devs : p \notin ToSet(ppool[e])
  BY <1>0, <1>5 DEF SnApart
<1>7. rxQueue[t] \in Seq(Packets) /\ IsInjective(rxQueue[t])
  BY <1>0 DEF SnShape, SnNoneTwice
<1>8. PICK l : l = <<p>> \o rxQueue[t]
  OBVIOUS
<1>9. l \in Seq(Packets) /\ ToSet(l) = ToSet(rxQueue[t]) \cup {p} /\ IsInjective(l) /\ Len(l) = Len(rxQueue[t]) + 1
  BY <1>4, <1>6, <1>7, <1>8, SnPush
<1>10. rxQueue'[t] = l /\ (\A e \in Devs : e # t => rxQueue'[e] = rxQueue[e]) /\ rxQueue' \in [Devs -> Seq(Packets)]
  BY <1>0, <1>1, <1>8, <1>9 DEF SnShape
<1>11. SnApart' /\ SnEverywhere'
  <2>1. \A m \in SnThreads : m # d => SnPlace(m)' = SnPlace(m)
    BY <1>4, SnPlacesKept
  <2>2. \A e \in Devs : SnPlace(4 + e)' = SnPlace(4 + e)
    BY <1>1, SnPlacesKept
  <2>3. \A e \in Devs : e # t => SnPlace(6 + e)' = SnPlace(6 + e)
    BY <1>10, SnPlacesKept
  <2> DEFINE j == 6 + t
  <2>4. SnPlace(d)' = {} /\ SnPlace(j)' = SnPlace(j) \cup {p}
    BY <1>3, <1>4, <1>5, <1>9, <1>10, SnNamesNext
  <2>5. p \in SnPlace(d) /\ SnPlace(d)' = SnPlace(d) \ {p} /\ SnPlace(j)' = SnPlace(j) \cup {p}
        /\ j \in 0 .. 7 /\ j # d
    BY <1>5, <2>4
  <2>6. \A m \in 0 .. 7 : m # d /\ m # j => SnPlace(m)' = SnPlace(m)
    <3>1. \A m \in 0 .. 7 : m \in SnThreads \/ \E e \in Devs : m = 4 + e \/ m = 6 + e
      BY SnNames
    <3>2. QED
      BY <2>1, <2>2, <2>3, <3>1
  <2> HIDE DEF j
  <2>7. QED
    BY <1>0, <1>4, <1>5, <2>5, <2>6, SnMoves
<1>12. SnShape'
  <2>1. \A m \in SnThreads : SnHeld(m)' \subseteq Packets
    BY <1>0, <1>4 DEF SnShape
  <2>2. QED
    BY <1>0, <1>1, <1>3, <1>4, <1>10, <2>1 DEF SnShape
<1>13. SnNoneTwice'
  BY <1>0, <1>1, <1>9, <1>10 DEF SnNoneTwice
<1>14. SnEndsAtBottom'
  <2>1. ASSUME NEW e \in Devs, ppool[e] # <<>> PROVE Last(ppool[e]) \in bottom'
    <3>1. ppool[e] \in Seq(Packets)
      BY <1>0 DEF SnShape
    <3>2. Len(ppool[e]) \in DOMAIN ppool[e]
      BY <2>1, <3>1
    <3>3. Last(ppool[e]) \in ToSet(ppool[e])
      BY <3>2 DEF Last, ToSet
    <3>4. QED
      BY <1>0, <1>1, <1>6, <2>1, <3>3 DEF SnEndsAtBottom
  <2>2. QED
    BY <1>1, <2>1 DEF SnEndsAtBottom
<1>15. SnStoppedKnown'
  <2>1. \A e \in Devs : SnWaker(e) => SnWaker(e)'
    BY <1>1, <1>3 DEF SnWaker, SnOnly
  <2>2. QED
    BY <1>1, <2>1 DEF SnStoppedKnown
<1>16. SnHandsRight'
  BY <1>0, <1>3, <1>4, SnHandsKept DEF SnHandRight
<1>17. QED
  BY <1>2, <1>t, <1>9, <1>10, <1>11, <1>12, <1>13, <1>14, <1>15, <1>16 DEF SnPlaced

\* What a step must not take away from a packet that has arrived at e.
SnRxKept(e) ==
    /\ (rxQueue'[e] # <<>> => rxQueue[e] # <<>>) /\ (Len(rxQueue[e]) < 2 => Len(rxQueue'[e]) < 2)
    /\ tx[Twin(e)].pc \in {"rxcheck", "rxraise", "rxintr"} => tx'[Twin(e)].pc = tx[Twin(e)].pc
    /\ "RX" \in status[e] => "RX" \in status'[e] \/ torn'
    /\ torn => torn'
    /\ poll[e].sched => poll'[e].sched
    /\ poll[e].pc = "enable" => poll'[e].pc = "enable"
    /\ (e \in rxInt => e \in rxInt') /\ (e \in missed => e \in missed') /\ (e \in deaf => e \in deaf') /\ napi' = napi
    /\ ~napi /\ rxInt = Devs => rxInt' = Devs /\ missed' = missed /\ deaf' = deaf
    /\ ~napi => (poll[e].pc = "off" /\ ~poll[e].sched => poll'[e].pc = "off" /\ ~poll'[e].sched)

LEMMA SnRxStep ==
    ASSUME NEW e \in Devs, SnAwaited(e), SnPolled(e), SnPlain(e), SnRxKept(e)
    PROVE  SnAwaited(e)' /\ SnPolled(e)' /\ SnPlain(e)'
<1> USE DEF SnRxKept
<1>1. SnAwaited(e)'
  BY DEF SnAwaited
<1>2. SnPolled(e)'
  BY DEF SnPolled
<1>3. SnPlain(e)'
  BY DEF SnPlain
<1>4. QED
  BY <1>1, <1>2, <1>3

LEMMA SnTxTo ==
    ASSUME SnRecords, NEW d \in Devs, NEW pcTo, TxTo(d, pcTo)
    PROVE  /\ DOMAIN tx' = Devs
           /\ tx'[d] = [pc |-> pcTo, hand |-> tx[d].hand, seen |-> tx[d].seen, next |-> tx[d].next]
           /\ \A e \in Devs : e # d => tx'[e] = tx[e]
<1>1. /\ DOMAIN tx = Devs /\ tx' = [tx EXCEPT ![d].pc = pcTo]
      /\ tx[d] = [pc |-> tx[d].pc, hand |-> tx[d].hand, seen |-> tx[d].seen, next |-> tx[d].next]
  BY DEF SnRecords, TxTo
<1>2. tx'[d] = [tx[d] EXCEPT !.pc = pcTo]
  BY <1>1
<1>3. QED
  BY <1>1, <1>2

\* A step of the transmit path that moves no buffer and returns none.
LEMMA SnTxQuiet ==
    ASSUME SnInv, NEW d \in Devs, NEW pcTo, NEW hand, NEW seen, NEW next, hand = tx[d].hand,
           DOMAIN tx' = Devs, tx'[d] = [pc |-> pcTo, hand |-> hand, seen |-> seen, next |-> next],
           \A e \in Devs : e # d => tx'[e] = tx[e],
           tx[d].pc \notin {"enqueue", "free", "wake"}, pcTo \notin {"enqueue", "free", "wake"},
           DOMAIN poll' = Devs, DOMAIN status' = Devs,
           \A e \in Devs : poll'[e] = [pc |-> poll[e].pc, hand |-> poll[e].hand,
                                       count |-> poll[e].count, sched |-> poll'[e].sched],
           UNCHANGED <<load, ppool, rxQueue, bottom>>,
           up' \subseteq Devs, SnStopsKnown,
           pcTo = "buffer" => d \notin stopped', stopped' \subseteq stopped \cup {d}
    PROVE  up' \subseteq Devs /\ SnPlaced' /\ SnStoppedKnown' /\ SnSendsWhileStarted'
<1>0. SnPlaced /\ SnStoppedKnown /\ SnRecords /\ SnSendsWhileStarted
  BY DEF SnInv, SnPlaced, SnShape
<1>1. /\ SnRecords' /\ d \in SnThreads /\ SnOnly(d)
      /\ SnThread(d) = tx[d] /\ SnThread(d)'.pc = pcTo /\ SnThread(d)'.hand = hand
  BY <1>0, SnTxThread
<1>2. SnPlaced' /\ SnStoppedKnown'
  <2>1. hand = NoPacket
    BY <1>0, <1>1 DEF SnPlaced, SnHandsRight, SnHandRight
  <2>2. QED
    BY <1>0, <1>1, <2>1, SnQuiet
<1>3. SnSendsWhileStarted'
  BY <1>0 DEF SnSendsWhileStarted
<1>4. QED
  BY <1>2, <1>3

LEMMA SnPollsKept ==
    ASSUME SnRecords, poll' = poll
    PROVE  /\ DOMAIN poll' = Devs
           /\ \A e \in Devs : poll'[e] = [pc |-> poll[e].pc, hand |-> poll[e].hand,
                                          count |-> poll[e].count, sched |-> poll'[e].sched]
  BY DEF SnRecords

\* The steps of snull_tx that only move on, and those of the watchdog, of
\* lockup and of open and release.
LEMMA SnQuietSteps ==
    ASSUME SnInv, NEW d \in Devs, load' = load, SnRunning,
           StartTx(d) \/ Lockup(d) \/ OpenRelease(d)
           \/ (Timeout(d) /\ UNCHANGED <<napi, ppool, rxQueue, bottom, rxInt, up, skb, poll, missed, deaf>>)
    PROVE  SnInv'
<1>0. SnRecords /\ SnReceives /\ up \subseteq Devs /\ SnSendsWhileStarted
  BY DEF SnInv, SnPlaced, SnShape
<1>1. UNCHANGED <<load, napi, ppool, rxQueue, bottom, rxInt, poll, missed, deaf>>
  BY DEF StartTx, Lockup, OpenRelease, Timeout
<1>2. /\ DOMAIN poll' = Devs
      /\ \A e \in Devs : poll'[e] = [pc |-> poll[e].pc, hand |-> poll[e].hand,
                                     count |-> poll[e].count, sched |-> poll'[e].sched]
  BY <1>0, <1>1, SnPollsKept
<1>3. ASSUME NEW pcTo, tx[d].pc \in {"idle", "txdone", "wdwake"}, pcTo \in {"idle", "buffer", "wdintr"},
             DOMAIN tx' = Devs,
             tx'[d] = [pc |-> pcTo, hand |-> tx[d].hand, seen |-> tx[d].seen, next |-> tx[d].next],
             \A e \in Devs : e # d => tx'[e] = tx[e],
             DOMAIN status' = Devs, \A e \in Devs : "RX" \in status[e] => "RX" \in status'[e] \/ torn', torn => torn',
             up' \subseteq Devs, SnStopsKnown, pcTo = "buffer" => d \notin stopped',
             stopped' \subseteq stopped \cup {d}
      PROVE  SnInv'
  <2>1. up' \subseteq Devs /\ SnPlaced' /\ SnStoppedKnown' /\ SnSendsWhileStarted'
    <3>1. tx[d].pc \notin {"enqueue", "free", "wake"} /\ pcTo \notin {"enqueue", "free", "wake"}
      BY <1>3
    <3>2. QED
      BY <1>1, <1>2, <1>3, <3>1, SnTxQuiet
  <2>2. ASSUME NEW e \in Devs PROVE SnRxKept(e)
    <3>1. tx[Twin(e)].pc \in {"rxcheck", "rxraise", "rxintr"} => tx'[Twin(e)].pc = tx[Twin(e)].pc
      BY <1>3, SnDevs
    <3>2. QED
      BY <1>1, <1>3, <3>1 DEF SnRxKept
  <2>3. SnReceives'
    BY <1>0, <2>2, SnRxStep DEF SnReceives
  <2>4. QED
    BY <2>1, <2>3 DEF SnInv
<1>4. DOMAIN status = Devs /\ tx[d] = [pc |-> tx[d].pc, hand |-> tx[d].hand, seen |-> tx[d].seen, next |-> tx[d].next]
  BY <1>0 DEF SnRecords
<1>5. CASE StartTx(d)
  <2>1. tx[d].pc = "idle" /\ TxTo(d, "buffer") /\ d \notin stopped
        /\ UNCHANGED <<stopped, up, status, lockedUp, forced, torn>>
    BY <1>5 DEF StartTx
  <2>2. SnStopsKnown
    BY <2>1 DEF SnStopsKnown
  <2>3. /\ DOMAIN tx' = Devs
        /\ tx'[d] = [pc |-> "buffer", hand |-> tx[d].hand, seen |-> tx[d].seen, next |-> tx[d].next]
        /\ \A e \in Devs : e # d => tx'[e] = tx[e]
    BY <1>0, <2>1, SnTxTo
  <2>4. QED
    BY <1>0, <1>3, <1>4, <2>1, <2>2, <2>3
<1>6. CASE Lockup(d)
  <2>1. tx[d].pc = "txdone" /\ TxTo(d, "idle") /\ stopped' = stopped \cup {d} /\ lockedUp' = lockedUp \cup {d}
        /\ UNCHANGED <<up, status, forced, torn>>
    BY <1>6 DEF Lockup
  <2>2. SnStopsKnown
    BY <2>1 DEF SnStopsKnown
  <2>3. QED
    BY ZenonT(60), <1>0, <1>3, <1>4, <2>1, <2>2, SnTxTo
<1>7. CASE OpenRelease(d)
  <2>1. tx[d].pc = "idle" /\ tx' = tx /\ UNCHANGED <<status, lockedUp, torn>>
    BY <1>7 DEF OpenRelease
  <2>2. SnStopsKnown /\ up' \subseteq Devs /\ stopped' \subseteq stopped \cup {d}
    BY <1>0, <1>7 DEF OpenRelease, SnStopsKnown, Forced
  <2>3. tx'[d] = [pc |-> "idle", hand |-> tx[d].hand, seen |-> tx[d].seen, next |-> tx[d].next] /\ DOMAIN tx' = Devs
    BY <1>0, <1>4, <2>1 DEF SnRecords
  <2>4. QED
    BY <1>3, <1>4, <2>1, <2>2, <2>3
<1>8. CASE Timeout(d) /\ UNCHANGED <<napi, ppool, rxQueue, bottom, rxInt, up, skb, poll, missed, deaf>>
  <2>0. up' = up
    BY <1>8
  <2>1. CASE /\ tx[d].pc = "idle" /\ status' = [status EXCEPT ![d] = {"TX"}]
             /\ torn' = (torn \/ "RX" \in status[d]) /\ TxTo(d, "wdintr") /\ UNCHANGED <<stopped, forced, lockedUp>>
    <3>1. ("RX" \in status[d] => torn') /\ (torn => torn')
      BY <2>1
    <3>2. DOMAIN status' = Devs /\ (torn => torn')
          /\ \A e \in Devs : "RX" \in status[e] => "RX" \in status'[e] \/ torn'
      BY <1>4, <2>1, <3>1
    <3>3. SnStopsKnown
      BY <2>0, <2>1 DEF SnStopsKnown
    <3>4. /\ DOMAIN tx' = Devs
          /\ tx'[d] = [pc |-> "wdintr", hand |-> tx[d].hand, seen |-> tx[d].seen, next |-> tx[d].next]
          /\ \A e \in Devs : e # d => tx'[e] = tx[e]
      BY <1>0, <2>1, SnTxTo
    <3>5. QED
      BY <1>0, <1>3, <2>0, <2>1, <3>2, <3>3, <3>4
  <2>2. CASE /\ tx[d].pc = "wdwake" /\ stopped' = stopped \ {d} /\ forced' = Forced(d)
             /\ lockedUp' = lockedUp \ {d} /\ TxTo(d, "idle") /\ UNCHANGED <<status, torn>>
    <3>1. SnStopsKnown /\ stopped' \subseteq stopped \cup {d}
      BY <2>0, <2>2 DEF SnStopsKnown, Forced
    <3>2. QED
      BY ZenonT(60), <1>0, <1>3, <1>4, <2>0, <2>2, <3>1, SnTxTo
  <2>3. QED
    BY <1>8, <2>1, <2>2 DEF Timeout
<1>9. QED
  BY <1>5, <1>6, <1>7, <1>8

LEMMA SnGetTxBufferStep ==
    ASSUME SnInv, NEW d \in Devs, load' = load, SnRunning, GetTxBuffer(d)
    PROVE  SnInv'
<1>0. SnPlaced /\ SnRecords /\ SnReceives /\ up \subseteq Devs /\ SnStoppedKnown /\ SnSendsWhileStarted
  BY DEF SnInv, SnPlaced, SnShape
<1>1. tx[d].pc = "buffer"
  BY DEF GetTxBuffer
<1>2. SnPlaced' /\ SnStoppedKnown'
  <2>1. CASE tx'[d].pc # "oops"
    BY <1>0, <2>1, SnGetTxBufferPlaces
  <2>2. CASE tx'[d].pc = "oops"
    <3>1. TxTo(d, "oops") /\ UNCHANGED <<ppool, stopped>>
      BY <1>0, <2>2 DEF GetTxBuffer, SnRecords
    <3>2. /\ DOMAIN tx' = Devs
          /\ tx'[d] = [pc |-> "oops", hand |-> tx[d].hand, seen |-> tx[d].seen, next |-> tx[d].next]
          /\ \A e \in Devs : e # d => tx'[e] = tx[e]
      BY <1>0, <3>1, SnTxTo
    <3>3. UNCHANGED <<load, rxQueue, bottom, status, up, poll, forced, lockedUp>>
      BY DEF GetTxBuffer
    <3>4. /\ DOMAIN poll' = Devs /\ DOMAIN status' = Devs
          /\ \A e \in Devs : poll'[e] = [pc |-> poll[e].pc, hand |-> poll[e].hand,
                                         count |-> poll[e].count, sched |-> poll'[e].sched]
      BY <1>0, <3>3, SnPollsKept DEF SnRecords
    <3>5. SnStopsKnown
      BY <3>1, <3>3 DEF SnStopsKnown
    <3>6. PICK hand, seen, next : tx'[d] = [pc |-> "oops", hand |-> hand, seen |-> seen, next |-> next]
      BY <3>2
    <3>7. QED
      BY <1>0, <1>1, <3>1, <3>2, <3>3, <3>4, <3>5, <3>6, SnTxQuiet
  <2>3. QED
    BY <2>1, <2>2
<1>3. UNCHANGED <<napi, rxQueue, status, rxInt, up, poll, missed, deaf, torn>> /\ stopped' \subseteq stopped \cup {d}
  BY DEF GetTxBuffer, StopIfEmpty
<1>4. tx'[d].pc # "buffer" /\ \A e \in Devs : e # d => tx'[e] = tx[e]
  <2>1. CASE tx' = [tx EXCEPT ![d].pc = "enqueue", ![d].hand = Head(ppool[d])]
    BY <1>0, <2>1 DEF SnRecords
  <2>2. CASE TxTo(d, "oops")
    <3>1. tx'[d] = [pc |-> "oops", hand |-> tx[d].hand, seen |-> tx[d].seen, next |-> tx[d].next]
      BY <1>0, <2>2, SnTxTo
    <3>2. QED
      BY <1>0, <2>2, <3>1, SnTxTo
  <2>3. QED
    BY <2>1, <2>2 DEF GetTxBuffer
<1>5. SnSendsWhileStarted'
  BY <1>0, <1>3, <1>4 DEF SnSendsWhileStarted
<1>6. ASSUME NEW e \in Devs PROVE SnRxKept(e)
  <2>1. tx[Twin(e)].pc \in {"rxcheck", "rxraise", "rxintr"} => tx'[Twin(e)].pc = tx[Twin(e)].pc
    BY <1>1, <1>4, SnDevs
  <2>2. QED
    BY <1>3, <2>1 DEF SnRxKept
<1>7. SnReceives'
  BY <1>0, <1>6, SnRxStep DEF SnReceives
<1>8. QED
  BY <1>0, <1>2, <1>3, <1>5, <1>7 DEF SnInv

LEMMA SnEnqueueStep ==
    ASSUME SnInv, NEW d \in Devs, load' = load, SnRunning, Enqueue(d)
    PROVE  SnInv'
<1>0. SnPlaced /\ SnShape /\ SnReceives /\ up \subseteq Devs /\ SnStoppedKnown /\ SnSendsWhileStarted
  BY DEF SnInv, SnPlaced
<1>1. /\ SnPlaced' /\ SnStoppedKnown'
      /\ Len(rxQueue'[Twin(d)]) = Len(rxQueue[Twin(d)]) + 1
      /\ \A e \in Devs : e # Twin(d) => rxQueue'[e] = rxQueue[e]
      /\ DOMAIN tx' = Devs /\ tx'[d].pc = "rxcheck"
      /\ \A e \in Devs : e # d => tx'[e] = tx[e]
  BY <1>0, SnEnqueuePlaces
<1>2. tx[d].pc = "enqueue" /\ UNCHANGED <<napi, status, rxInt, stopped, up, poll, missed, deaf, torn>> /\ ~torn
  BY DEF Enqueue, SnRunning
<1>3. SnSendsWhileStarted'
  BY <1>0, <1>1, <1>2 DEF SnSendsWhileStarted
<1>4. ASSUME NEW e \in Devs PROVE SnAwaited(e)' /\ SnPolled(e)' /\ SnPlain(e)'
  <2>0. SnAwaited(e) /\ SnPolled(e) /\ SnPlain(e) /\ rxQueue[e] \in Seq(Packets)
    BY <1>0 DEF SnReceives, SnShape
  <2>1. CASE e = Twin(d)
    <3>1. Twin(e) = d
      BY <2>1, SnDevs
    <3>2. SnAwaited(e)' /\ SnPolled(e)'
      BY <1>1, <1>2, <2>0, <3>1 DEF SnAwaited, SnPolled
    <3>3. ~napi => rxQueue[e] = <<>>
      BY <1>2, <2>0, <3>1 DEF SnAwaited, SnPlain
    <3>4. SnPlain(e)'
      BY <1>1, <1>2, <2>0, <2>1, <3>3 DEF SnPlain
    <3>5. QED
      BY <3>2, <3>4
  <2>2. CASE e # Twin(d)
    <3>1. Twin(e) # d
      BY <2>2, SnDevs
    <3>2. SnRxKept(e)
      BY <1>1, <1>2, <2>2, <3>1, SnDevs DEF SnRxKept
    <3>3. QED
      BY <2>0, <3>2, SnRxStep
  <2>3. QED
    BY <2>1, <2>2
<1>5. QED
  BY <1>0, <1>1, <1>2, <1>3, <1>4 DEF SnInv, SnReceives

LEMMA SnRxEnabledStep ==
    ASSUME SnInv, NEW d \in Devs, load' = load, SnRunning, RxEnabled(d)
    PROVE  SnInv'
<1>0. SnPlaced /\ SnRecords /\ SnReceives /\ up \subseteq Devs
  BY DEF SnInv, SnPlaced, SnShape
<1> DEFINE pcTo == IF Twin(d) \in rxInt THEN "rxraise" ELSE "txraise"
<1>1. /\ tx[d].pc = "rxcheck" /\ TxTo(d, pcTo)
      /\ missed' = IF Twin(d) \notin rxInt /\ poll[Twin(d)].pc = "enable" THEN missed \cup {Twin(d)} ELSE missed
      /\ UNCHANGED <<napi, ppool, rxQueue, bottom, status, rxInt, stopped, up, poll, forced, lockedUp, torn, deaf>>
  BY DEF RxEnabled
<1>c. PICK c \in {"rxraise", "txraise"} : c = pcTo
  OBVIOUS
<1>2. /\ DOMAIN tx' = Devs
      /\ tx'[d] = [pc |-> c, hand |-> tx[d].hand, seen |-> tx[d].seen, next |-> tx[d].next]
      /\ \A e \in Devs : e # d => tx'[e] = tx[e]
  BY <1>0, <1>1, <1>c, SnTxTo
<1>3. up' \subseteq Devs /\ SnPlaced' /\ SnStoppedKnown' /\ SnSendsWhileStarted'
  <2>1. SnStopsKnown
    BY <1>1 DEF SnStopsKnown
  <2>2. /\ DOMAIN poll' = Devs /\ DOMAIN status' = Devs
        /\ \A e \in Devs : poll'[e] = [pc |-> poll[e].pc, hand |-> poll[e].hand,
                                       count |-> poll[e].count, sched |-> poll'[e].sched]
    BY <1>0, <1>1, SnPollsKept DEF SnRecords
  <2>3. QED
    BY <1>0, <1>1, <1>2, <2>1, <2>2, SnTxQuiet
<1>4. ASSUME NEW e \in Devs PROVE SnAwaited(e)' /\ SnPolled(e)' /\ SnPlain(e)'
  <2>0. SnAwaited(e) /\ SnPolled(e) /\ SnPlain(e)
    BY <1>0 DEF SnReceives
  <2>1. CASE e = Twin(d)
    <3>1. Twin(e) = d
      BY <2>1, SnDevs
    <3>2. SnPolled(e)' /\ SnPlain(e)'
      BY <1>1, <2>0, <2>1 DEF SnPolled, SnPlain
    <3>3. CASE e \in rxInt
      BY <1>2, <1>c, <2>1, <3>1, <3>2, <3>3 DEF SnAwaited
    <3>4. CASE e \notin rxInt
      <4>1. poll'[e].sched \/ e \in missed' \cup deaf'
        BY <1>1, <2>0, <2>1, <3>4 DEF SnPolled
      <4>2. QED
        BY <3>2, <4>1 DEF SnAwaited
    <3>5. QED
      BY <3>2, <3>3, <3>4
  <2>2. CASE e # Twin(d)
    <3>1. tx'[Twin(e)] = tx[Twin(e)]
      BY <1>2, <2>2, SnDevs
    <3>2. SnRxKept(e)
      BY <1>1, <2>2, <3>1, SnDevs DEF SnRxKept
    <3>3. QED
      BY <2>0, <3>2, SnRxStep
  <2>3. QED
    BY <2>1, <2>2
<1>5. QED
  BY <1>3, <1>4 DEF SnInv, SnReceives

LEMMA SnRaiseStep ==
    ASSUME SnInv, NEW d \in Devs, load' = load, SnRunning, NEW here, NEW dev \in Devs, NEW bit, NEW there,
           Raise(d, here, dev, bit, there),
           (here = "rxraise" /\ dev = Twin(d) /\ bit = "RX" /\ there = "rxintr")
           \/ (here = "txraise" /\ dev = d /\ bit = "TX" /\ there = "txdone"),
           UNCHANGED <<napi, ppool, rxQueue, bottom, rxInt, stopped, up, skb, poll, forced, early, lockedUp, missed, deaf>>
    PROVE  SnInv'
<1>0. SnPlaced /\ SnRecords /\ SnReceives /\ up \subseteq Devs
  BY DEF SnInv, SnPlaced, SnShape
<1>r. /\ DOMAIN tx = Devs /\ DOMAIN status = Devs
      /\ tx[d] = [pc |-> tx[d].pc, hand |-> tx[d].hand, seen |-> tx[d].seen, next |-> tx[d].next]
  BY <1>0 DEF SnRecords
<1>1. tx[d].pc = here
  BY DEF Raise
<1>2. PICK pcTo, seen, next :
         /\ DOMAIN tx' = Devs
         /\ tx'[d] = [pc |-> pcTo, hand |-> tx[d].hand, seen |-> seen, next |-> next]
         /\ \A e \in Devs : e # d => tx'[e] = tx[e]
         /\ DOMAIN status' = Devs /\ (torn => torn')
         /\ \A e \in Devs : "RX" \in status[e] => "RX" \in status'[e] \/ torn'
         /\ pcTo = here \/ (pcTo = there /\ bit \in status'[dev])
  <2>1. CASE tx' = [tx EXCEPT ![d].seen = status[dev], ![d].next = here] /\ UNCHANGED <<status, torn>>
    <3>1. tx'[d] = [tx[d] EXCEPT !.seen = status[dev], !.next = here] /\ DOMAIN tx' = Devs
          /\ \A e \in Devs : e # d => tx'[e] = tx[e]
      BY <1>r, <2>1
    <3>2. tx'[d] = [pc |-> here, hand |-> tx[d].hand, seen |-> status[dev], next |-> here]
      BY <1>r, <1>1, <3>1
    <3>3. QED
      BY ZenonT(60), <1>r, <2>1, <3>1, <3>2
  <2>2. CASE /\ status' = [status EXCEPT ![dev] = tx[d].seen \cup {bit}]
             /\ torn' = (torn \/ status[dev] # tx[d].seen)
             /\ tx' = [tx EXCEPT ![d].pc = there, ![d].seen = {}, ![d].next = "idle"]
    <3>1. tx'[d] = [tx[d] EXCEPT !.pc = there, !.seen = {}, !.next = "idle"] /\ DOMAIN tx' = Devs
          /\ \A e \in Devs : e # d => tx'[e] = tx[e]
      BY <1>r, <2>2
    <3>2. tx'[d] = [pc |-> there, hand |-> tx[d].hand, seen |-> {}, next |-> "idle"]
      BY <1>r, <3>1
    <3>3. (status[dev] = tx[d].seen \/ torn') /\ (torn => torn')
      BY <2>2
    <3>4. /\ DOMAIN status' = Devs /\ bit \in status'[dev]
          /\ \A e \in Devs : "RX" \in status[e] => "RX" \in status'[e] \/ torn'
      BY <1>r, <2>2, <3>3
    <3>5. QED
      BY <3>1, <3>2, <3>3, <3>4
  <2>3. QED
    BY <2>1, <2>2 DEF Raise
<1>3. up' \subseteq Devs /\ SnPlaced' /\ SnStoppedKnown' /\ SnSendsWhileStarted'
  <2>1. SnStopsKnown
    BY DEF SnStopsKnown
  <2>2. /\ DOMAIN poll' = Devs
        /\ \A e \in Devs : poll'[e] = [pc |-> poll[e].pc, hand |-> poll[e].hand,
                                       count |-> poll[e].count, sched |-> poll'[e].sched]
    BY <1>0, SnPollsKept
  <2>3. tx[d].pc \notin {"enqueue", "free", "wake"} /\ pcTo \notin {"enqueue", "free", "wake", "buffer"}
    BY <1>1, <1>2
  <2>4. QED
    BY <1>0, <1>2, <2>1, <2>2, <2>3, SnTxQuiet
<1>4. ASSUME NEW e \in Devs PROVE SnAwaited(e)' /\ SnPolled(e)' /\ SnPlain(e)'
  <2>0. SnAwaited(e) /\ SnPolled(e) /\ SnPlain(e)
    BY <1>0 DEF SnReceives
  <2>1. CASE e = Twin(d) /\ here = "rxraise"
    <3>1. Twin(e) = d /\ tx'[d].pc = pcTo
      BY <1>2, <2>1, SnDevs
    <3>2. pcTo = "rxraise" \/ (pcTo = "rxintr" /\ "RX" \in status'[e])
      BY <1>2, <2>1
    <3>3. SnPolled(e)' /\ SnPlain(e)'
      BY <2>0 DEF SnPolled, SnPlain
    <3>4. SnAwaited(e)'
      BY <3>1, <3>2 DEF SnAwaited
    <3>5. QED
      BY <3>3, <3>4
  <2>2. CASE ~(e = Twin(d) /\ here = "rxraise")
    <3>1. tx[Twin(e)].pc \in {"rxcheck", "rxraise", "rxintr"} => tx'[Twin(e)].pc = tx[Twin(e)].pc
      BY <1>1, <1>2, <2>2, SnDevs
    <3>2. SnRxKept(e)
      BY <1>2, <3>1 DEF SnRxKept
    <3>3. QED
      BY <2>0, <3>2, SnRxStep
  <2>3. QED
    BY <2>1, <2>2
<1>5. QED
  BY <1>3, <1>4 DEF SnInv, SnReceives

LEMMA SnInterruptStep ==
    ASSUME SnInv, NEW d \in Devs, load' = load, SnRunning, NEW here, NEW dev \in Devs, NEW next,
           Interrupt(d, here, dev, next),
           (here = "rxintr" /\ dev = Twin(d)) \/ (here \in {"txdone", "wdintr"} /\ dev = d),
           next \in {"idle", "txraise", "wdwake"}
    PROVE  SnInv'
<1>0. SnPlaced /\ SnShape /\ SnRecords /\ SnNoneTwice /\ SnReceives /\ up \subseteq Devs /\ SnStoppedKnown /\ SnSendsWhileStarted
  BY DEF SnInv, SnPlaced, SnShape
<1>1. /\ tx[d].pc = here /\ status' = [status EXCEPT ![dev] = {}]
      /\ UNCHANGED <<napi, ppool, bottom, stopped, up, forced, lockedUp, torn>>
      /\ IF "RX" \in status[dev] /\ napi
            THEN /\ rxInt' = rxInt \ {dev}
                 /\ poll' = IF dev \in up THEN [poll EXCEPT ![dev].sched = TRUE] ELSE poll
                 /\ missed' = (IF dev \in up THEN missed \ {dev} ELSE missed)
                 /\ deaf' = (IF dev \in up THEN deaf ELSE deaf \cup {dev})
            ELSE UNCHANGED <<rxInt, poll, missed, deaf>>
  BY DEF Interrupt, RxSchedule, Cleared
<1>r. /\ DOMAIN tx = Devs /\ DOMAIN status = Devs /\ DOMAIN poll = Devs
      /\ tx[d] = [pc |-> tx[d].pc, hand |-> tx[d].hand, seen |-> tx[d].seen, next |-> tx[d].next]
      /\ \A e \in Devs : poll[e] = [pc |-> poll[e].pc, hand |-> poll[e].hand,
                                    count |-> poll[e].count, sched |-> poll[e].sched]
  BY <1>0 DEF SnRecords
<1>2. /\ DOMAIN poll' = Devs
      /\ \A e \in Devs : poll'[e] = [pc |-> poll[e].pc, hand |-> poll[e].hand,
                                     count |-> poll[e].count, sched |-> poll'[e].sched]
      /\ \A e \in Devs : e # dev => poll'[e] = poll[e]
      /\ poll[dev].sched \/ ("RX" \in status[dev] /\ napi /\ dev \in up) => poll'[dev].sched
      /\ ~napi => poll' = poll
  <2>1. CASE poll' = poll
    BY <1>1, <1>r, <2>1
  <2>2. CASE "RX" \in status[dev] /\ napi /\ dev \in up
    <3>1. poll' = [poll EXCEPT ![dev].sched = TRUE]
      BY <1>1, <2>2
    <3>2. poll'[dev] = [poll[dev] EXCEPT !.sched = TRUE] /\ DOMAIN poll' = Devs
          /\ \A e \in Devs : e # dev => poll'[e] = poll[e]
      BY <1>r, <3>1
    <3>3. poll'[dev] = [pc |-> poll[dev].pc, hand |-> poll[dev].hand, count |-> poll[dev].count, sched |-> TRUE]
      BY <1>r, <3>2
    <3>4. QED
      BY <1>r, <2>2, <3>2, <3>3
  <2>3. QED
    BY <1>1, <2>1, <2>2
<1>3. DOMAIN status' = Devs /\ \A e \in Devs : e # dev => status'[e] = status[e]
  BY <1>1, <1>r
<1> DEFINE rx == "RX" \in status[dev] /\ ~napi /\ rxQueue[dev] # <<>>
<1>4. CASE rx
  <2>1. /\ tx' = [tx EXCEPT ![d].pc = "free", ![d].next = next, ![d].hand = Head(rxQueue[dev])]
        /\ rxQueue' = [rxQueue EXCEPT ![dev] = Tail(@)]
    BY <1>4 DEF Interrupt
  <2>2. PICK p : p = Head(rxQueue[dev])
    OBVIOUS
  <2>3. /\ DOMAIN tx' = Devs /\ \A e \in Devs : e # d => tx'[e] = tx[e]
        /\ tx'[d] = [pc |-> "free", hand |-> p, seen |-> tx[d].seen, next |-> next]
    <3>1. tx'[d] = [tx[d] EXCEPT !.pc = "free", !.next = next, !.hand = p] /\ DOMAIN tx' = Devs
          /\ \A e \in Devs : e # d => tx'[e] = tx[e]
      BY <1>r, <2>1, <2>2
    <3>2. QED
      BY <1>r, <3>1
  <2>4. /\ SnRecords' /\ d \in SnThreads /\ SnOnly(d)
        /\ SnThread(d) = tx[d] /\ SnThread(d)'.pc = "free" /\ SnThread(d)'.hand = p
    BY <1>0, <1>2, <1>3, <2>3, SnTxThread
  <2>5. SnPlaced' /\ SnStoppedKnown'
    <3>1. SnThread(d).pc \notin {"enqueue", "free", "wake"}
      BY <1>1, <2>4
    <3>2. QED
      BY <1>0, <1>1, <1>4, <2>1, <2>2, <2>4, <3>1, SnTakes
  <2>6. SnSendsWhileStarted'
    BY <1>0, <1>1, <2>3 DEF SnSendsWhileStarted
  <2>7. rxQueue'[dev] = <<>> /\ \A e \in Devs : e # dev => rxQueue'[e] = rxQueue[e]
    <3>1. rxQueue[dev] \in Seq(Packets) /\ Len(rxQueue[dev]) < 2
      BY <1>0, <1>4 DEF SnShape, SnReceives, SnPlain
    <3>2. Tail(rxQueue[dev]) = <<>>
      BY <1>4, <3>1
    <3>3. DOMAIN rxQueue = Devs
      BY <1>0 DEF SnShape
    <3>4. QED
      BY <2>1, <3>2, <3>3
  <2>8. ASSUME NEW e \in Devs PROVE SnAwaited(e)' /\ SnPolled(e)' /\ SnPlain(e)'
    <3>0. SnAwaited(e) /\ SnPolled(e) /\ SnPlain(e) /\ UNCHANGED <<poll, rxInt, missed, deaf>>
      BY <1>0, <1>1, <1>4 DEF SnReceives
    <3>1. CASE e = dev
      <4>1. Len(rxQueue'[e]) = 0
        BY <2>7, <3>1
      <4>2. QED
        BY <1>1, <2>7, <3>0, <3>1, <4>1 DEF SnAwaited, SnPolled, SnPlain
    <3>2. CASE e # dev
      <4>1. tx[Twin(e)].pc \in {"rxcheck", "rxraise", "rxintr"} => tx'[Twin(e)].pc = tx[Twin(e)].pc
        BY <1>1, <2>3, <3>2, SnDevs
      <4>2. SnRxKept(e)
        BY <1>1, <1>3, <2>7, <3>0, <3>2, <4>1 DEF SnRxKept
      <4>3. QED
        BY <3>0, <4>2, SnRxStep
    <3>3. QED
      BY <3>1, <3>2
  <2>9. QED
    BY <1>0, <1>1, <2>5, <2>6, <2>8 DEF SnInv, SnReceives
<1>5. CASE ~rx
  <2>1. TxTo(d, next) /\ rxQueue' = rxQueue
    BY <1>5 DEF Interrupt
  <2>2. /\ DOMAIN tx' = Devs
        /\ tx'[d] = [pc |-> next, hand |-> tx[d].hand, seen |-> tx[d].seen, next |-> tx[d].next]
        /\ \A e \in Devs : e # d => tx'[e] = tx[e]
    BY <1>0, <2>1, SnTxTo
  <2>3. up' \subseteq Devs /\ SnPlaced' /\ SnStoppedKnown' /\ SnSendsWhileStarted'
    <3>1. SnStopsKnown
      BY <1>1 DEF SnStopsKnown
    <3>2. tx[d].pc \notin {"enqueue", "free", "wake"} /\ next \notin {"enqueue", "free", "wake", "buffer"}
      BY <1>1
    <3>3. QED
      BY <1>0, <1>1, <1>2, <1>3, <2>1, <2>2, <3>1, <3>2, SnTxQuiet
  <2>4. ASSUME NEW e \in Devs PROVE SnAwaited(e)' /\ SnPolled(e)' /\ SnPlain(e)'
    <3>0. SnAwaited(e) /\ SnPolled(e) /\ SnPlain(e)
      BY <1>0 DEF SnReceives
    <3>1. CASE e # dev
      <4>1. tx[Twin(e)].pc \in {"rxcheck", "rxraise", "rxintr"} => tx'[Twin(e)].pc = tx[Twin(e)].pc
        BY <1>1, <2>2, <3>1, SnDevs
      <4>2. e \in rxInt => e \in rxInt'
        BY <1>1, <3>1
      <4>3. /\ ~napi => UNCHANGED <<rxInt, poll, missed, deaf>>
            /\ (e \in missed => e \in missed') /\ (e \in deaf => e \in deaf')
        BY <1>1, <3>1
      <4>4. poll'[e] = poll[e] /\ status'[e] = status[e]
        BY <1>2, <1>3, <3>1
      <4>5. SnRxKept(e)
        BY <1>1, <2>1, <4>1, <4>2, <4>3, <4>4 DEF SnRxKept
      <4>6. QED
        BY <3>0, <4>5, SnRxStep
    <3>2. CASE e = dev /\ "RX" \in status[dev] /\ napi
      <4>1. (poll'[e].sched \/ e \in deaf') /\ napi'
        BY <1>1, <1>2, <3>2
      <4>2. QED
        BY <4>1 DEF SnAwaited, SnPolled, SnPlain
    <3>3. CASE e = dev /\ ~("RX" \in status[dev] /\ napi)
      <4>1. UNCHANGED <<rxInt, poll, napi, missed, deaf, rxQueue, torn>>
        BY <1>1, <2>1, <3>3
      <4>2. SnPolled(e)' /\ SnPlain(e)'
        BY <3>0, <4>1 DEF SnPolled, SnPlain
      <4>3. CASE "RX" \in status[dev]
        <5>1. rxQueue[e] = <<>>
          BY <1>5, <3>3, <4>3
        <5>2. QED
          BY <4>1, <4>2, <5>1 DEF SnAwaited
      <4>4. CASE "RX" \notin status[dev]
        <5>1. tx[Twin(e)].pc \in {"rxcheck", "rxraise"} => tx'[Twin(e)] = tx[Twin(e)]
          BY <1>1, <2>2, <3>3, SnDevs
        <5>2. SnAwaited(e)'
          BY <3>0, <3>3, <4>1, <4>4, <5>1 DEF SnAwaited
        <5>3. QED
          BY <4>2, <5>2
      <4>5. QED
        BY <4>3, <4>4
    <3>4. QED
      BY <3>1, <3>2, <3>3
  <2>5. QED
    BY <2>3, <2>4 DEF SnInv, SnReceives
<1>6. QED
  BY <1>4, <1>5

LEMMA SnAfterInterruptStep ==
    ASSUME SnInv, NEW d \in Devs, load' = load, SnRunning, AfterInterrupt(d),
           UNCHANGED <<napi, rxQueue, status, rxInt, up, skb, poll, torn, early, lockedUp, missed, deaf>>
    PROVE  SnInv'
<1>0. SnPlaced /\ SnRecords /\ SnReceives /\ up \subseteq Devs /\ SnStoppedKnown /\ SnSendsWhileStarted
  BY DEF SnInv, SnPlaced, SnShape
<1>r. /\ DOMAIN tx = Devs /\ DOMAIN status' = Devs
      /\ tx[d] = [pc |-> tx[d].pc, hand |-> tx[d].hand, seen |-> tx[d].seen, next |-> tx[d].next]
      /\ tx[d].pc \in {"free", "wake"} => tx[d].next \in {"idle", "txraise", "wdwake"}
      /\ DOMAIN poll' = Devs
      /\ \A e \in Devs : poll'[e] = [pc |-> poll[e].pc, hand |-> poll[e].hand,
                                     count |-> poll[e].count, sched |-> poll'[e].sched]
  BY <1>0 DEF SnRecords
\* Both halves leave the packets that have arrived alone.
<1>1. ASSUME NEW pcTo, tx[d].pc \in {"free", "wake"}, DOMAIN tx' = Devs, tx'[d].pc = pcTo, pcTo # "buffer",
             \A e \in Devs : e # d => tx'[e] = tx[e], stopped' \subseteq stopped
      PROVE  SnSendsWhileStarted' /\ SnReceives'
  <2>1. SnSendsWhileStarted'
    BY <1>0, <1>1 DEF SnSendsWhileStarted
  <2>2. ASSUME NEW e \in Devs PROVE SnRxKept(e)
    <3>1. tx[Twin(e)].pc \in {"rxcheck", "rxraise", "rxintr"} => tx'[Twin(e)].pc = tx[Twin(e)].pc
      BY <1>1, SnDevs
    <3>2. QED
      BY <3>1 DEF SnRxKept
  <2>3. QED
    BY <1>0, <2>1, <2>2, SnRxStep DEF SnReceives
<1>2. CASE tx[d].pc = "free" /\ GiveBack(tx[d].hand) /\ TxTo(d, "wake") /\ UNCHANGED <<stopped, forced>>
  <2>1. /\ DOMAIN tx' = Devs
        /\ tx'[d] = [pc |-> "wake", hand |-> tx[d].hand, seen |-> tx[d].seen, next |-> tx[d].next]
        /\ \A e \in Devs : e # d => tx'[e] = tx[e]
    BY <1>0, <1>2, SnTxTo
  <2>2. PICK hand, seen, next :
           /\ hand = tx[d].hand /\ next \in {"idle", "txraise", "wdwake"}
           /\ tx'[d] = [pc |-> "wake", hand |-> hand, seen |-> seen, next |-> next]
    BY ZenonT(60), <1>2, <1>r, <2>1
  <2>3. /\ SnRecords' /\ d \in SnThreads /\ SnOnly(d)
        /\ SnThread(d) = tx[d] /\ SnThread(d)'.pc = "wake" /\ SnThread(d)'.hand = hand
    BY <1>0, <1>r, <2>1, <2>2, SnTxThread
  <2>4. SnPlaced' /\ SnStoppedKnown'
    <3>1. SnThread(d).pc = "free" /\ SnThread(d).hand = hand /\ GiveBack(SnThread(d).hand)
      BY <1>2, <2>2, <2>3
    <3>2. QED
      BY <1>0, <1>2, <2>3, <3>1, SnGives
  <2>5. SnSendsWhileStarted' /\ SnReceives'
    BY <1>1, <1>2, <2>1
  <2>6. QED
    BY <1>0, <2>4, <2>5 DEF SnInv
<1>3. CASE /\ tx[d].pc = "wake" /\ WakeUp(tx[d].hand)
           /\ tx' = [tx EXCEPT ![d].pc = tx[d].next, ![d].hand = NoPacket, ![d].next = "idle"]
           /\ UNCHANGED <<ppool, bottom>>
  <2>1. PICK pcTo \in {"idle", "txraise", "wdwake"} : pcTo = tx[d].next
    BY <1>3, <1>r
  <2>2. /\ DOMAIN tx' = Devs /\ tx'[d] = [tx[d] EXCEPT !.pc = pcTo, !.hand = NoPacket, !.next = "idle"]
        /\ \A e \in Devs : e # d => tx'[e] = tx[e]
    BY <1>3, <1>r, <2>1
  <2>3. tx'[d] = [pc |-> pcTo, hand |-> NoPacket, seen |-> tx[d].seen, next |-> "idle"]
    BY <1>r, <2>2
  <2>4. PICK hand, seen : hand = NoPacket /\ tx'[d] = [pc |-> pcTo, hand |-> hand, seen |-> seen, next |-> "idle"]
    BY <2>3
  <2>5. /\ SnRecords' /\ d \in SnThreads /\ SnOnly(d)
        /\ SnThread(d) = tx[d] /\ SnThread(d)'.pc = pcTo /\ SnThread(d)'.hand = hand
    <3>1. PICK next \in {"idle", "txraise", "wdwake"} : next = "idle"
      OBVIOUS
    <3>2. tx'[d] = [pc |-> pcTo, hand |-> hand, seen |-> seen, next |-> next]
      BY <2>4, <3>1
    <3>3. SnRecords /\ DOMAIN tx' = Devs /\ \A e \in Devs : e # d => tx'[e] = tx[e]
      BY <1>0, <2>2
    <3>4. QED
      BY <1>r, <3>2, <3>3, SnTxThread
  <2>6. SnPlaced' /\ SnStoppedKnown' /\ stopped' \subseteq stopped
    <3>1. SnThread(d).pc = "wake" /\ WakeUp(SnThread(d).hand)
      BY <1>3, <2>5
    <3>2. SnThread(d)'.hand = NoPacket
      BY <2>4, <2>5
    <3>3. QED
      BY <1>0, <1>3, <2>5, <3>1, <3>2, SnLooks
  <2>7. SnSendsWhileStarted' /\ SnReceives'
    <3>1. tx'[d].pc = pcTo /\ pcTo # "buffer"
      BY <2>4
    <3>2. tx[d].pc \in {"free", "wake"}
      BY <1>3
    <3>3. QED
      BY <1>1, <2>2, <2>6, <3>1, <3>2
  <2>8. QED
    BY <1>0, <2>6, <2>7 DEF SnInv
<1>4. QED
  BY <1>2, <1>3 DEF AfterInterrupt

LEMMA SnPollStep ==
    ASSUME SnInv, NEW d \in Devs, load' = load, SnRunning, Poll(d)
    PROVE  SnInv'
<1>0. SnPlaced /\ SnShape /\ SnRecords /\ SnReceives /\ up \subseteq Devs /\ SnStoppedKnown /\ SnSendsWhileStarted
  BY DEF SnInv, SnPlaced, SnShape
<1>1. UNCHANGED <<napi, status, up, tx, lockedUp, missed, deaf, torn>>
  BY DEF Poll
<1>r. /\ DOMAIN poll = Devs
      /\ poll[d] = [pc |-> poll[d].pc, hand |-> poll[d].hand, count |-> poll[d].count, sched |-> poll[d].sched]
  BY <1>0 DEF SnRecords
<1>2. napi
  BY <1>0 DEF SnReceives, SnPlain, Poll, PollStart, PollTake, PollFree, PollEnd
\* A step that is known to leave the buffers well placed.
<1>3. ASSUME NEW pcTo, NEW hand, NEW polled, NEW sched, DOMAIN poll' = Devs,
             poll'[d] = [pc |-> pcTo, hand |-> hand, count |-> polled, sched |-> sched],
             \A e \in Devs : e # d => poll'[e] = poll[e],
             SnPlaced', SnStoppedKnown', stopped' \subseteq stopped,
             \A e \in Devs : e # d => rxQueue'[e] = rxQueue[e],
             rxQueue'[d] # <<>> => rxQueue[d] # <<>>,
             sched \/ pcTo = "enable" \/ d \in rxInt' \cup deaf,
             poll[d].sched => sched \/ rxQueue'[d] = <<>>,
             rxInt \subseteq rxInt'
      PROVE  SnInv'
  <2>1. SnSendsWhileStarted'
    BY <1>0, <1>1, <1>3 DEF SnSendsWhileStarted
  <2>2. ASSUME NEW e \in Devs PROVE SnAwaited(e)' /\ SnPolled(e)' /\ SnPlain(e)'
    <3>0. SnAwaited(e) /\ SnPolled(e) /\ SnPlain(e)
      BY <1>0 DEF SnReceives
    <3>1. CASE e = d
      <4>1. poll'[d].sched = sched /\ poll'[d].pc = pcTo
        BY <1>3
      <4>2. SnAwaited(d)'
        BY <1>1, <1>3, <3>0, <3>1, <4>1 DEF SnAwaited
      <4>3. SnPolled(d)' /\ SnPlain(d)'
        BY <1>1, <1>2, <1>3, <4>1 DEF SnPolled, SnPlain
      <4>4. QED
        BY <3>1, <4>2, <4>3
    <3>2. CASE e # d
      <4>1. SnRxKept(e)
        BY <1>1, <1>2, <1>3, <3>2 DEF SnRxKept
      <4>2. QED
        BY <3>0, <4>1, SnRxStep
    <3>3. QED
      BY <3>1, <3>2
  <2>3. QED
    BY <1>0, <1>1, <1>3, <2>1, <2>2 DEF SnInv, SnReceives
\* One that touches no buffer.
<1>4. ASSUME NEW pcTo, NEW polled, NEW sched, DOMAIN poll' = Devs,
             poll'[d] = [pc |-> pcTo, hand |-> poll[d].hand, count |-> polled, sched |-> sched],
             \A e \in Devs : e # d => poll'[e] = poll[e],
             poll[d].pc \notin {"enqueue", "free", "wake"}, pcTo \notin {"enqueue", "free", "wake"},
             UNCHANGED <<ppool, rxQueue, bottom, stopped, forced>>
      PROVE  SnPlaced' /\ SnStoppedKnown'
  <2>1. PICK hand : hand = poll[d].hand /\ poll'[d] = [pc |-> pcTo, hand |-> hand, count |-> polled, sched |-> sched]
    BY <1>4
  <2>2. /\ SnRecords' /\ 2 + d \in SnThreads /\ SnOnly(2 + d)
        /\ SnThread(2 + d) = poll[d] /\ SnThread(2 + d)'.pc = pcTo /\ SnThread(2 + d)'.hand = hand
    BY <1>0, <1>1, <1>4, <2>1, SnPollThread
  <2>3. SnStopsKnown
    BY <1>1, <1>4 DEF SnStopsKnown
  <2>4. PICK k \in SnThreads : k = 2 + d
    BY <2>2
  <2>5. SnOnly(k) /\ SnThread(k) = poll[d] /\ SnThread(k)'.pc = pcTo /\ SnThread(k)'.hand = NoPacket
    <3>1. hand = NoPacket
      BY <1>0, <1>4, <2>1, <2>2 DEF SnPlaced, SnHandsRight, SnHandRight
    <3>2. QED
      BY <2>2, <2>4, <3>1
  <2>6. QED
    BY <1>0, <1>1, <1>4, <2>2, <2>3, <2>5, SnQuiet
<1>5. SnAwaited(d) /\ SnPolled(d)
  BY <1>0 DEF SnReceives
<1>6. CASE PollStart(d)
  <2>1. /\ poll[d].pc = "off" /\ poll[d].sched /\ poll' = [poll EXCEPT ![d].pc = "loop", ![d].count = 0]
        /\ UNCHANGED <<ppool, rxQueue, bottom, rxInt, stopped, forced>>
    BY <1>6 DEF PollStart
  <2>2. DOMAIN poll' = Devs /\ poll'[d] = [poll[d] EXCEPT !.pc = "loop", !.count = 0]
        /\ \A e \in Devs : e # d => poll'[e] = poll[e]
    BY <1>r, <2>1
  <2>3. poll'[d] = [pc |-> "loop", hand |-> poll[d].hand, count |-> 0, sched |-> poll[d].sched]
    BY <1>r, <2>2
  <2>4. PICK sched : sched = poll[d].sched
    OBVIOUS
  <2>5. SnPlaced' /\ SnStoppedKnown'
    BY <1>4, <2>1, <2>2, <2>3, <2>4
  <2>6. PICK hand : poll'[d] = [pc |-> "loop", hand |-> hand, count |-> 0, sched |-> sched]
    BY <2>3, <2>4
  <2>7. QED
    BY <1>3, <2>1, <2>2, <2>4, <2>5, <2>6
<1>7. CASE PollTake(d)
  <2>1. /\ poll[d].pc = "loop" /\ rxQueue[d] # <<>> /\ rxQueue' = [rxQueue EXCEPT ![d] = Tail(@)]
        /\ UNCHANGED <<ppool, bottom, rxInt, stopped, forced>>
    BY <1>7 DEF PollTake
  <2>2. PICK one \in {0, 1} : poll' = [poll EXCEPT ![d].pc = "free", ![d].hand = Head(rxQueue[d]),
                                                   ![d].count = @ + one]
    BY <1>7 DEF PollTake
  <2>3. PICK p, polled, sched : p = Head(rxQueue[d]) /\ polled = poll[d].count + one /\ sched = poll[d].sched
    OBVIOUS
  <2>4. DOMAIN poll' = Devs /\ poll'[d] = [poll[d] EXCEPT !.pc = "free", !.hand = p, !.count = polled]
        /\ \A e \in Devs : e # d => poll'[e] = poll[e]
    BY <1>r, <2>2, <2>3
  <2>5. poll'[d] = [pc |-> "free", hand |-> p, count |-> polled, sched |-> sched]
    BY <1>r, <2>3, <2>4
  <2>6. /\ SnRecords' /\ 2 + d \in SnThreads /\ SnOnly(2 + d)
        /\ SnThread(2 + d) = poll[d] /\ SnThread(2 + d)'.pc = "free" /\ SnThread(2 + d)'.hand = p
    <3>1. SnRecords /\ UNCHANGED <<tx, status>> /\ DOMAIN poll' = Devs
          /\ \A e \in Devs : e # d => poll'[e] = poll[e]
      BY <1>0, <1>1, <2>4
    <3>2. QED
      BY <2>5, <3>1, SnPollThread
  <2>7. PICK k \in SnThreads : k = 2 + d
    BY <2>6
  <2>8. SnPlaced' /\ SnStoppedKnown'
    <3>1. SnOnly(k) /\ SnThread(k).pc \notin {"enqueue", "free", "wake"} /\ SnThread(k)'.pc = "free"
          /\ SnThread(k)'.hand = Head(rxQueue[d])
      BY <2>1, <2>3, <2>6, <2>7
    <3>2. QED
      BY <1>0, <1>1, <2>1, <2>6, <3>1, SnTakes
  <2>9. \A e \in Devs : e # d => rxQueue'[e] = rxQueue[e]
    BY <1>0, <2>1 DEF SnShape
  <2>10. sched \/ d \in rxInt' \cup deaf
    BY <1>5, <2>1, <2>3 DEF SnPolled
  <2>11. QED
    <3>1. DOMAIN poll' = Devs /\ \A e \in Devs : e # d => poll'[e] = poll[e]
      BY <2>4
    <3>2. stopped' \subseteq stopped /\ rxInt \subseteq rxInt' /\ rxQueue[d] # <<>> /\ (poll[d].sched => sched)
      BY <2>1, <2>3
    <3>3. QED
      BY <1>3, <2>5, <2>8, <2>9, <2>10, <3>1, <3>2
<1>8. CASE PollFree(d)
  <2>1. poll[d].pc \in {"free", "wake"} /\ UNCHANGED <<rxQueue, rxInt>>
    BY <1>8 DEF PollFree
  <2>2. PICK sched, polled, p : sched = poll[d].sched /\ polled = poll[d].count /\ p = poll[d].hand
    OBVIOUS
  <2>3. sched \/ d \in rxInt' \cup deaf
    BY <1>5, <2>1, <2>2 DEF SnPolled
  <2>4. CASE poll[d].pc = "free" /\ GiveBack(poll[d].hand) /\ PollTo(d, "wake") /\ UNCHANGED <<stopped, forced>>
    <3>1. DOMAIN poll' = Devs /\ poll'[d] = [poll[d] EXCEPT !.pc = "wake"]
          /\ \A e \in Devs : e # d => poll'[e] = poll[e]
      BY <1>r, <2>4 DEF PollTo
    <3>2. poll'[d] = [pc |-> "wake", hand |-> p, count |-> polled, sched |-> sched]
      BY <1>r, <2>2, <3>1
    <3>3. /\ SnRecords' /\ 2 + d \in SnThreads /\ SnOnly(2 + d)
          /\ SnThread(2 + d) = poll[d] /\ SnThread(2 + d)'.pc = "wake" /\ SnThread(2 + d)'.hand = p
      BY <1>0, <1>1, <3>1, <3>2, SnPollThread
    <3>4. PICK k \in SnThreads : k = 2 + d
      BY <3>3
    <3>5. SnPlaced' /\ SnStoppedKnown'
      <4>1. SnOnly(k) /\ SnThread(k).pc = "free" /\ SnThread(k)'.pc = "wake"
            /\ SnThread(k)'.hand = SnThread(k).hand /\ GiveBack(SnThread(k).hand)
        BY <2>2, <2>4, <3>3, <3>4
      <4>2. QED
        BY <1>0, <1>1, <2>1, <2>4, <3>3, <4>1, SnGives
    <3>6. QED
      BY <1>3, <2>1, <2>2, <2>3, <2>4, <3>1, <3>2, <3>5
  <2>5. CASE /\ poll[d].pc = "wake" /\ WakeUp(poll[d].hand)
             /\ poll' = [poll EXCEPT ![d].pc = "loop", ![d].hand = NoPacket]
             /\ UNCHANGED <<ppool, rxQueue, bottom, rxInt>>
    <3>1. DOMAIN poll' = Devs /\ poll'[d] = [poll[d] EXCEPT !.pc = "loop", !.hand = NoPacket]
          /\ \A e \in Devs : e # d => poll'[e] = poll[e]
      BY <1>r, <2>5
    <3>2. PICK hand : hand = NoPacket /\ poll'[d] = [pc |-> "loop", hand |-> hand, count |-> polled, sched |-> sched]
      BY <1>r, <2>2, <3>1
    <3>3. /\ SnRecords' /\ 2 + d \in SnThreads /\ SnOnly(2 + d)
          /\ SnThread(2 + d) = poll[d] /\ SnThread(2 + d)'.pc = "loop" /\ SnThread(2 + d)'.hand = hand
      <4>1. SnRecords /\ UNCHANGED <<tx, status>> /\ DOMAIN poll' = Devs
            /\ \A e \in Devs : e # d => poll'[e] = poll[e]
        BY <1>0, <1>1, <3>1
      <4>2. QED
        BY <3>2, <4>1, SnPollThread
    <3>4. PICK k \in SnThreads : k = 2 + d
      BY <3>3
    <3>5. SnPlaced' /\ SnStoppedKnown' /\ stopped' \subseteq stopped
      <4>1. SnOnly(k) /\ SnThread(k).pc = "wake" /\ SnThread(k)'.pc \notin {"enqueue", "free", "wake"}
            /\ SnThread(k)'.hand = NoPacket /\ WakeUp(SnThread(k).hand)
        BY <2>5, <3>2, <3>3, <3>4
      <4>2. QED
        BY <1>0, <1>1, <2>5, <3>3, <4>1, SnLooks
    <3>6. QED
      BY ZenonT(60), <1>3, <2>1, <2>2, <2>3, <3>1, <3>2, <3>5
  <2>6. QED
    BY <1>8, <2>4, <2>5 DEF PollFree
<1>9. CASE PollEnd(d)
  <2>1. UNCHANGED <<ppool, rxQueue, bottom, stopped, forced>>
    BY <1>9 DEF PollEnd
  <2>2. ASSUME NEW pcTo \in {"enable", "off"}, NEW polled, NEW sched,
               poll[d].pc \in {"loop", "enable"}, DOMAIN poll' = Devs,
               poll'[d] = [pc |-> pcTo, hand |-> poll[d].hand, count |-> polled, sched |-> sched],
               \A e \in Devs : e # d => poll'[e] = poll[e],
               sched \/ pcTo = "enable" \/ d \in rxInt' \cup deaf,
               poll[d].sched => sched \/ rxQueue[d] = <<>>, rxInt \subseteq rxInt'
        PROVE  SnInv'
    <3>1. SnPlaced' /\ SnStoppedKnown'
      BY <1>4, <2>1, <2>2
    <3>2. PICK hand : poll'[d] = [pc |-> pcTo, hand |-> hand, count |-> polled, sched |-> sched]
      BY <2>2
    <3>3. QED
      BY <1>3, <2>1, <2>2, <3>1, <3>2
  <2>3. CASE poll[d].pc = "loop" /\ AllDone(d) /\ rxInt' = rxInt
             /\ poll' = [poll EXCEPT ![d].pc = "enable", ![d].sched = FALSE, ![d].count = 0]
    <3>1. DOMAIN poll' = Devs /\ poll'[d] = [poll[d] EXCEPT !.pc = "enable", !.sched = FALSE, !.count = 0]
          /\ \A e \in Devs : e # d => poll'[e] = poll[e]
      BY <1>r, <2>3
    <3>2. poll'[d] = [pc |-> "enable", hand |-> poll[d].hand, count |-> 0, sched |-> FALSE]
      BY <1>r, <3>1
    <3>3. QED
      BY <2>2, <2>3, <3>1, <3>2 DEF AllDone
  <2>4. CASE poll[d].pc = "loop" /\ rxInt' = rxInt
             /\ poll' = [poll EXCEPT ![d].pc = "off", ![d].count = 0]
    <3>1. DOMAIN poll' = Devs /\ poll'[d] = [poll[d] EXCEPT !.pc = "off", !.count = 0]
          /\ \A e \in Devs : e # d => poll'[e] = poll[e]
      BY <1>r, <2>4
    <3>2. PICK sched : sched = poll[d].sched
      OBVIOUS
    <3>3. poll'[d] = [pc |-> "off", hand |-> poll[d].hand, count |-> 0, sched |-> sched]
      BY <1>r, <3>1, <3>2
    <3>4. sched \/ d \in rxInt' \cup deaf
      BY <1>5, <2>4, <3>2 DEF SnPolled
    <3>5. QED
      BY <2>2, <2>4, <3>1, <3>2, <3>3, <3>4
  <2>5. CASE poll[d].pc = "enable" /\ PollTo(d, "off") /\ rxInt' = rxInt \cup {d}
    <3>1. DOMAIN poll' = Devs /\ poll'[d] = [poll[d] EXCEPT !.pc = "off"]
          /\ \A e \in Devs : e # d => poll'[e] = poll[e]
      BY <1>r, <2>5 DEF PollTo
    <3>2. PICK sched, polled : sched = poll[d].sched /\ polled = poll[d].count
      OBVIOUS
    <3>3. poll'[d] = [pc |-> "off", hand |-> poll[d].hand, count |-> polled, sched |-> sched]
      BY <1>r, <3>1, <3>2
    <3>4. QED
      BY <2>2, <2>5, <3>1, <3>2, <3>3
  <2>6. QED
    BY <1>9, <2>3, <2>4, <2>5 DEF PollEnd
<1>10. QED
  BY <1>6, <1>7, <1>8, <1>9 DEF Poll

LEMMA SnStep == SnInv /\ [SnNext]_snVars => SnInv'
<1>1. ASSUME SnInv, SnNext PROVE SnInv'
  <2>1. SnInv /\ load' = load /\ SnRunning
    BY <1>1 DEF SnInv, SnNext
  <2>2. PICK d \in Devs : Transmit(d) \/ Poll(d)
    BY <1>1 DEF SnNext
  <2>t. Twin(d) \in Devs
    BY SnDevs
  <2>3. CASE Poll(d)
    BY <1>1, <2>1, <2>3, SnPollStep
  <2>4. CASE StartTx(d) \/ Lockup(d) \/ OpenRelease(d)
             \/ (Timeout(d) /\ UNCHANGED <<napi, ppool, rxQueue, bottom, rxInt, up, skb, poll, missed, deaf>>)
    BY <1>1, <2>1, <2>4, SnQuietSteps
  <2>5. CASE GetTxBuffer(d)
    BY <1>1, <2>1, <2>5, SnGetTxBufferStep
  <2>6. CASE Enqueue(d)
    BY <1>1, <2>1, <2>6, SnEnqueueStep
  <2>7. CASE RxEnabled(d)
    BY <1>1, <2>1, <2>7, SnRxEnabledStep
  <2>8. CASE /\ Raise(d, "rxraise", Twin(d), "RX", "rxintr")
             /\ UNCHANGED <<napi, ppool, rxQueue, bottom, rxInt, stopped, up, skb, poll, forced, early, lockedUp, missed, deaf>>
    BY <1>1, <2>1, <2>t, <2>8, SnRaiseStep
  <2>9. CASE /\ Raise(d, "txraise", d, "TX", "txdone")
             /\ UNCHANGED <<napi, ppool, rxQueue, bottom, rxInt, stopped, up, skb, poll, forced, early, lockedUp, missed, deaf>>
    BY <1>1, <2>1, <2>9, SnRaiseStep
  <2>10. CASE Interrupt(d, "rxintr", Twin(d), "txraise")
    BY <1>1, <2>1, <2>t, <2>10, SnInterruptStep
  <2>11. CASE Interrupt(d, "txdone", d, "idle")
    BY <1>1, <2>1, <2>11, SnInterruptStep
  <2>12. CASE Interrupt(d, "wdintr", d, "wdwake")
    BY <1>1, <2>1, <2>12, SnInterruptStep
  <2>13. CASE /\ AfterInterrupt(d)
              /\ UNCHANGED <<napi, rxQueue, status, rxInt, up, skb, poll, torn, early, lockedUp, missed, deaf>>
    BY <1>1, <2>1, <2>13, SnAfterInterruptStep
  <2>14. QED
    BY <2>2, <2>3, <2>4, <2>5, <2>6, <2>7, <2>8, <2>9, <2>10, <2>11, <2>12, <2>13 DEF Transmit
<1>2. ASSUME SnInv, UNCHANGED snVars PROVE SnInv'
  <2>1. SnPlaced => SnPlaced'
    <3>1. UNCHANGED <<load, tx, poll, status, ppool, rxQueue, bottom>>
      BY <1>2 DEF snVars
    <3>2. (\A k \in SnThreads : SnHeld(k)' = SnHeld(k)) /\ Packets' = Packets
      BY <3>1 DEF SnHeld, SnThread, Packets
    <3>3. \A i \in 0 .. 7 : SnPlace(i)' = SnPlace(i)
      BY <3>1, <3>2 DEF SnPlace, SnThreads
    <3>4. SnApart => SnApart'
      BY <3>3 DEF SnApart
    <3>5. SnShape => SnShape'
      BY <3>1, <3>2 DEF SnShape, SnRecords
    <3>6. SnEverywhere => SnEverywhere'
      BY <3>2, <3>3 DEF SnEverywhere
    <3>7. SnHandsRight => SnHandsRight'
      BY <3>1, <3>2 DEF SnHandsRight, SnHandRight, SnThread
    <3>8. QED
      BY <3>1, <3>4, <3>5, <3>6, <3>7 DEF SnPlaced, SnNoneTwice, SnEndsAtBottom
  <2>2. SnStoppedKnown => SnStoppedKnown'
    BY <1>2 DEF snVars, SnStoppedKnown, SnWaker, SnThread
  <2>3. SnSendsWhileStarted /\ SnReceives => SnSendsWhileStarted' /\ SnReceives'
    BY <1>2 DEF snVars, SnSendsWhileStarted, SnReceives, SnAwaited, SnPolled, SnPlain
  <2>4. QED
    BY <1>2, <2>1, <2>2, <2>3 DEF snVars, SnInv
<1>3. QED
  BY <1>1, <1>2 DEF SnInv

\* What else snull keeps: its sets stay what they are; a pool is empty only
\* while its queue is stopped; and the skb of a transmission is held until the
\* bit for its interrupt is there, and as long as it is.
SnTyped ==
    /\ load \in Loads /\ DOMAIN skb = Devs
    /\ \A d \in Devs : status[d] \subseteq {"RX", "TX"} /\ tx[d].seen \subseteq {"RX", "TX"}
    /\ bottom \subseteq Packets /\ stopped \subseteq Devs /\ rxInt \subseteq Devs
    /\ ~napi => rxInt = Devs /\ \A d \in Devs : poll[d] = Off

SnEmptyStopped == \A d \in Devs : ppool[d] = <<>> => d \in stopped \cup forced

Sending(d) ==
    \/ tx[d].pc \in {"buffer", "enqueue", "rxcheck", "rxraise", "rxintr", "txraise"}
    \/ tx[d].pc \in {"free", "wake"} /\ tx[d].next = "txraise"

SnSkbOf(d) ==
    /\ "TX" \in status[d] => skb[d] = "held"
    /\ Sending(d) => skb[d] = "held" /\ "TX" \notin status[d]
    /\ skb[d] # "twice"
SnSkbHeld == ~torn /\ ~early => \A d \in Devs : SnSkbOf(d)

SnKept == SnTyped /\ SnEmptyStopped /\ SnPoolNotEmpty /\ SnSkbHeld

LEMMA SnPoolSize == SnTyped => load[1] \in Nat /\ load[1] > 0
<1> SUFFICES ASSUME SnTyped PROVE load[1] \in Nat /\ load[1] > 0
  OBVIOUS
<1>1. load \in (Nat \ {0}) \X SUBSET {0, 1}
  BY SnullAssumption DEF SnTyped
<1>2. QED
  BY <1>1

LEMMA SnKeptInitially == SnInit => SnKept
<1> SUFFICES ASSUME SnInit PROVE SnKept
  OBVIOUS
<1>1. load \in (Nat \ {0}) \X SUBSET {0, 1}
  BY SnullAssumption DEF SnInit
<1>2. load[1] \in Nat /\ load[1] > 0
  BY <1>1
<1>3. /\ \A d \in Devs : /\ status[d] = {} /\ skb[d] = "none" /\ tx[d] = Idle /\ poll[d] = Off
                         /\ ppool[d] = [i \in 1 .. load[1] |-> <<d, i>>]
      /\ DOMAIN skb = Devs /\ rxInt = Devs /\ stopped = {} /\ bottom = {<<d, load[1]>> : d \in Devs}
      /\ load \in Loads
  BY DEF SnInit
<1>4. Idle.pc = "idle" /\ Idle.seen = {}
  BY DEF Idle
<1>5. bottom \subseteq Packets
  BY <1>2, <1>3 DEF Packets
<1>6. SnTyped
  BY <1>3, <1>4, <1>5 DEF SnTyped
<1>7. SnEmptyStopped
  <2>1. ASSUME NEW d \in Devs, ppool[d] = <<>> PROVE FALSE
    <3>1. 1 \in 1 .. load[1] /\ DOMAIN <<>> = {}
      BY <1>2
    <3>2. DOMAIN ppool[d] = 1 .. load[1]
      BY <1>3
    <3>3. QED
      BY <2>1, <3>1, <3>2
  <2>2. QED
    BY <2>1 DEF SnEmptyStopped
<1>8. SnPoolNotEmpty /\ SnSkbHeld
  BY <1>3, <1>4 DEF SnPoolNotEmpty, SnSkbHeld, SnSkbOf, Sending
<1>9. QED
  BY <1>6, <1>7, <1>8 DEF SnKept

\* The pools and the queues' state.
LEMMA SnEmptyKept ==
    ASSUME SnEmptyStopped, ppool' = ppool, stopped \subseteq stopped', forced \subseteq forced'
    PROVE  SnEmptyStopped'
  BY DEF SnEmptyStopped

LEMMA SnGivesEmpty ==
    ASSUME SnEmptyStopped, SnShape, NEW p \in Packets, GiveBack(p), UNCHANGED <<stopped, forced>>
    PROVE  SnEmptyStopped'
<1>1. PICK o \in Devs : o = Owner(p)
  BY DEF Packets, Owner
<1>2. ppool[o] \in Seq(Packets) /\ DOMAIN ppool = Devs
  BY DEF SnShape
<1>3. <<p>> \o ppool[o] # <<>>
  BY <1>2
<1>4. ppool' = [ppool EXCEPT ![o] = <<p>> \o @]
  BY <1>1 DEF GiveBack, PoolOf
<1>5. ppool'[o] # <<>> /\ \A d \in Devs : d # o => ppool'[d] = ppool[d]
  BY <1>2, <1>3, <1>4
<1>6. QED
  BY <1>5 DEF SnEmptyStopped

LEMMA SnLooksEmpty ==
    ASSUME SnEmptyStopped, NEW p, WakeUp(p), ppool' = ppool
    PROVE  SnEmptyStopped'
<1>1. ASSUME NEW d \in Devs, ppool[d] = <<>> PROVE d \in stopped' \cup forced'
  <2>1. CASE Owner(p) = d
    BY <1>1, <2>1 DEF WakeUp
  <2>2. CASE Owner(p) # d
    BY <1>1, <2>2 DEF WakeUp, WakeIfFirst, SnEmptyStopped
  <2>3. QED
    BY <2>1, <2>2
<1>2. QED
  BY <1>1 DEF SnEmptyStopped

\* The watchdog and ifconfig start the queue of d.
LEMMA SnForcedEmpty ==
    ASSUME SnEmptyStopped, SnTyped, NEW d \in Devs, ppool' = ppool,
           stopped' = stopped \ {d}, forced' = Forced(d)
    PROVE  SnEmptyStopped'
<1>1. ASSUME NEW e \in Devs, ppool[e] = <<>> PROVE e \in stopped' \cup forced'
  <2>1. CASE e = d
    <3>1. Len(<<>>) = 0 /\ load[1] # 0
      BY SnPoolSize
    <3>2. ~AllHome(d)
      BY <1>1, <2>1, <3>1 DEF AllHome
    <3>3. QED
      BY <2>1, <3>2 DEF Forced
  <2>2. CASE e # d
    BY <1>1, <2>2 DEF Forced, SnEmptyStopped
  <2>3. QED
    BY <2>1, <2>2
<1>2. QED
  BY <1>1 DEF SnEmptyStopped

LEMMA SnTxGoes ==
    ASSUME SnRecords, NEW d \in Devs, NEW pcTo, TxTo(d, pcTo)
    PROVE  /\ tx'[d].pc = pcTo /\ tx'[d].next = tx[d].next /\ tx'[d].seen = tx[d].seen /\ tx'[d].hand = tx[d].hand
           /\ \A e \in Devs : e # d => tx'[e] = tx[e]
<1>1. /\ tx'[d] = [pc |-> pcTo, hand |-> tx[d].hand, seen |-> tx[d].seen, next |-> tx[d].next]
      /\ \A e \in Devs : e # d => tx'[e] = tx[e]
  BY SnTxTo
<1>2. PICK hand, seen, next : hand = tx[d].hand /\ seen = tx[d].seen /\ next = tx[d].next
  OBVIOUS
<1>3. tx'[d] = [pc |-> pcTo, hand |-> hand, seen |-> seen, next |-> next]
  BY <1>1, <1>2
<1>4. QED
  BY <1>1, <1>2, <1>3

LEMMA SnEmptyStep ==
    ASSUME SnInv, SnKept, SnNext
    PROVE  SnEmptyStopped' /\ SnPoolNotEmpty'
<1>0. SnShape /\ SnRecords /\ SnHandsRight /\ SnSendsWhileStarted /\ SnTyped /\ SnEmptyStopped /\ SnPoolNotEmpty
      /\ load' = load /\ SnRunning
  BY DEF SnInv, SnPlaced, SnShape, SnKept, SnNext
\* Only a crash needs a look at the second.
<1>1. ASSUME NEW d \in Devs, \A e \in Devs : e # d => tx'[e].pc = tx[e].pc, tx'[d].pc # "oops"
      PROVE  SnPoolNotEmpty'
  BY <1>0, <1>1 DEF SnPoolNotEmpty, SnRunning
<1>h. ASSUME NEW k \in SnThreads, SnThread(k).pc \in {"free", "wake"} PROVE SnThread(k).hand \in Packets
  BY <1>0, <1>h DEF SnHandsRight, SnHandRight
<1>2. PICK d \in Devs : Transmit(d) \/ Poll(d)
  BY DEF SnNext
<1>t. SnThread(d) = tx[d] /\ SnThread(2 + d) = poll[d] /\ d \in SnThreads /\ 2 + d \in SnThreads
  BY SnNames
<1>3. CASE Poll(d)
  <2>1. SnPoolNotEmpty'
    BY <1>0, <1>3 DEF Poll, SnPoolNotEmpty, SnRunning
  <2>2. CASE PollStart(d) \/ PollTake(d) \/ PollEnd(d)
    BY <1>0, <2>1, <2>2, SnEmptyKept DEF PollStart, PollTake, PollEnd
  <2>3. CASE poll[d].pc = "free" /\ GiveBack(poll[d].hand) /\ UNCHANGED <<stopped, forced>>
    BY <1>0, <1>h, <1>t, <2>1, <2>3, SnGivesEmpty
  <2>4. CASE poll[d].pc = "wake" /\ WakeUp(poll[d].hand) /\ ppool' = ppool
    BY <1>0, <2>1, <2>4, SnLooksEmpty
  <2>5. QED
    BY <1>3, <2>2, <2>3, <2>4 DEF Poll, PollFree
<1>4. CASE Transmit(d)
  <2>1. CASE GetTxBuffer(d)
    <3>1. tx[d].pc = "buffer" /\ forced' = forced /\ d \notin stopped
      BY <1>0, <2>1 DEF GetTxBuffer, SnSendsWhileStarted
    <3>2. CASE ppool[d] = <<>>
      <4>1. d \in forced /\ UNCHANGED <<ppool, stopped>> /\ TxTo(d, "oops")
        BY <1>0, <2>1, <3>1, <3>2 DEF SnEmptyStopped, GetTxBuffer
      <4>2. \A e \in Devs : e # d => tx'[e] = tx[e]
        BY <1>0, <4>1, SnTxGoes
      <4>3. SnPoolNotEmpty'
        BY <1>0, <3>1, <4>1, <4>2 DEF SnPoolNotEmpty, SnRunning
      <4>4. QED
        BY <1>0, <3>1, <4>1, <4>3, SnEmptyKept
    <3>3. CASE ppool[d] # <<>>
      <4>1. /\ tx' = [tx EXCEPT ![d].pc = "enqueue", ![d].hand = Head(ppool[d])]
            /\ ppool' = [ppool EXCEPT ![d] = Tail(@)]
            /\ stopped' = IF Len(ppool[d]) = 1 THEN stopped \cup {d} ELSE stopped
        BY <2>1, <3>3 DEF GetTxBuffer, StopIfEmpty
      <4>2. tx'[d].pc = "enqueue" /\ \A e \in Devs : e # d => tx'[e] = tx[e]
        BY <1>0, <4>1 DEF SnRecords
      <4>3. ppool[d] \in Seq(Packets) /\ DOMAIN ppool = Devs
        BY <1>0 DEF SnShape
      <4>4. Tail(ppool[d]) = <<>> => Len(ppool[d]) = 1
        <5>1. Tail(ppool[d]) \in Seq(Packets) /\ Len(Tail(ppool[d])) = Len(ppool[d]) - 1
          BY <3>3, <4>3
        <5>2. Len(ppool[d]) \in Nat /\ (Tail(ppool[d]) = <<>> => Len(Tail(ppool[d])) = 0)
          BY <4>3, <5>1, EmptyHasNone
        <5>3. QED
          BY <5>1, <5>2
      <4>5. ppool'[d] = Tail(ppool[d]) /\ \A e \in Devs : e # d => ppool'[e] = ppool[e]
        BY <4>1, <4>3
      <4>6. SnEmptyStopped'
        BY <1>0, <3>1, <4>1, <4>4, <4>5 DEF SnEmptyStopped
      <4>7. QED
        BY <1>1, <4>2, <4>6
    <3>4. QED
      BY <3>2, <3>3
  <2>2. ASSUME NEW pcTo, tx'[d].pc = pcTo, pcTo # "oops", \A e \in Devs : e # d => tx'[e] = tx[e],
               ppool' = ppool, stopped \subseteq stopped', forced \subseteq forced'
        PROVE  SnEmptyStopped' /\ SnPoolNotEmpty'
    BY <1>0, <1>1, <2>2, SnEmptyKept
  <2>3. CASE StartTx(d) \/ Lockup(d)
    <3>1. PICK pcTo \in {"buffer", "idle"} : TxTo(d, pcTo)
      BY <2>3 DEF StartTx, Lockup
    <3>2. ppool' = ppool /\ stopped \subseteq stopped' /\ forced' = forced
      BY <2>3 DEF StartTx, Lockup
    <3>3. tx'[d].pc = pcTo /\ \A e \in Devs : e # d => tx'[e] = tx[e]
      BY <1>0, <3>1, SnTxGoes
    <3>4. QED
      BY <2>2, <3>2, <3>3
  <2>4. CASE Enqueue(d)
    <3>1. /\ tx' = [tx EXCEPT ![d].hand = NoPacket, ![d].pc = "rxcheck"]
          /\ UNCHANGED <<ppool, stopped, forced>>
      BY <2>4 DEF Enqueue
    <3>2. tx'[d].pc = "rxcheck" /\ \A e \in Devs : e # d => tx'[e] = tx[e]
      BY <1>0, <3>1 DEF SnRecords
    <3>3. QED
      BY <2>2, <3>1, <3>2
  <2>5. CASE RxEnabled(d)
    <3>1. PICK pcTo \in {"rxraise", "txraise"} : TxTo(d, pcTo)
      BY <2>5 DEF RxEnabled
    <3>2. UNCHANGED <<ppool, stopped, forced>>
      BY <2>5 DEF RxEnabled
    <3>3. tx'[d].pc = pcTo /\ \A e \in Devs : e # d => tx'[e] = tx[e]
      BY <1>0, <3>1, SnTxGoes
    <3>4. QED
      BY <2>2, <3>2, <3>3
  <2>6. CASE OpenRelease(d)
    <3>1. tx' = tx /\ ppool' = ppool
      BY <2>6 DEF OpenRelease
    <3>2. SnPoolNotEmpty'
      BY <1>0, <3>1 DEF SnPoolNotEmpty, SnRunning
    <3>3. SnEmptyStopped'
      BY <1>0, <2>6, <3>1, SnEmptyKept, SnForcedEmpty DEF OpenRelease
    <3>4. QED
      BY <3>2, <3>3
  <2>7. ASSUME NEW here \in {"rxraise", "txraise"}, NEW there \in {"rxintr", "txdone"}, NEW dev, NEW bit,
               Raise(d, here, dev, bit, there), UNCHANGED <<ppool, stopped, forced>>
        PROVE  SnEmptyStopped' /\ SnPoolNotEmpty'
    <3>1. PICK pcTo \in {here, there} : tx'[d].pc = pcTo
      BY <1>0, <2>7 DEF Raise, SnRecords
    <3>2. \A e \in Devs : e # d => tx'[e] = tx[e]
      BY <1>0, <2>7 DEF Raise, SnRecords
    <3>3. QED
      BY <2>2, <2>7, <3>1, <3>2
  <2>8. ASSUME NEW here, NEW dev, NEW next \in {"idle", "txraise", "wdwake"}, Interrupt(d, here, dev, next)
        PROVE  SnEmptyStopped' /\ SnPoolNotEmpty'
    <3>1. UNCHANGED <<ppool, stopped, forced>>
      BY <2>8 DEF Interrupt
    <3>2. tx' = [tx EXCEPT ![d].pc = "free", ![d].next = next, ![d].hand = Head(rxQueue[dev])] \/ TxTo(d, next)
      BY <2>8 DEF Interrupt
    <3>3. PICK pcTo \in {"free", next} : tx'[d].pc = pcTo
      BY <1>0, <3>2 DEF TxTo, SnRecords
    <3>4. \A e \in Devs : e # d => tx'[e] = tx[e]
      BY <1>0, <3>2 DEF TxTo, SnRecords
    <3>5. QED
      BY <2>2, <3>1, <3>3, <3>4
  <2>9. CASE AfterInterrupt(d)
    <3>1. CASE tx[d].pc = "free" /\ GiveBack(tx[d].hand) /\ TxTo(d, "wake") /\ UNCHANGED <<stopped, forced>>
      <4>1. SnPoolNotEmpty'
        <5>1. tx'[d].pc = "wake" /\ \A e \in Devs : e # d => tx'[e] = tx[e]
          BY <1>0, <3>1, SnTxGoes
        <5>2. QED
          BY <1>1, <5>1
      <4>2. SnEmptyStopped'
        BY <1>0, <1>h, <1>t, <3>1, SnGivesEmpty
      <4>3. QED
        BY <4>1, <4>2
    <3>2. CASE /\ tx[d].pc = "wake" /\ WakeUp(tx[d].hand)
               /\ tx' = [tx EXCEPT ![d].pc = tx[d].next, ![d].hand = NoPacket, ![d].next = "idle"]
               /\ UNCHANGED <<ppool, bottom>>
      <4>1. SnPoolNotEmpty'
        <5>1. tx[d].next # "oops"
          BY <1>0, <3>2 DEF SnRecords
        <5>2. tx'[d].pc = tx[d].next /\ \A e \in Devs : e # d => tx'[e] = tx[e]
          BY <1>0, <3>2 DEF SnRecords
        <5>3. QED
          BY <1>1, <5>1, <5>2
      <4>2. SnEmptyStopped'
        BY <1>0, <3>2, SnLooksEmpty
      <4>3. QED
        BY <4>1, <4>2
    <3>3. QED
      BY <2>9, <3>1, <3>2 DEF AfterInterrupt
  <2>10. CASE Timeout(d) /\ UNCHANGED <<napi, ppool, rxQueue, bottom, rxInt, up, skb, poll, missed, deaf>>
    <3>1. PICK pcTo \in {"wdintr", "idle"} : TxTo(d, pcTo)
      BY <2>10 DEF Timeout
    <3>2. SnPoolNotEmpty'
      <4>1. tx'[d].pc = pcTo /\ \A e \in Devs : e # d => tx'[e] = tx[e]
        BY <1>0, <3>1, SnTxGoes
      <4>2. QED
        BY <1>1, <4>1
    <3>3. SnEmptyStopped'
      BY <1>0, <2>10, SnEmptyKept, SnForcedEmpty DEF Timeout
    <3>4. QED
      BY <3>2, <3>3
  <2>11. QED
    BY <1>4, <2>1, <2>3, <2>4, <2>5, <2>6, <2>7, <2>8, <2>9, <2>10 DEF Transmit
<1>5. QED
  BY <1>2, <1>3, <1>4

\* A step that does not take an skb away, nor begins with one.
LEMMA SnSkbQuiet ==
    ASSUME NEW e, SnSkbOf(e), skb'[e] = skb[e], "TX" \in status'[e] => "TX" \in status[e], Sending(e)' => Sending(e)
    PROVE  SnSkbOf(e)'
  BY DEF SnSkbOf

LEMMA SnSkbStep ==
    ASSUME SnInv, SnKept, SnNext
    PROVE  SnSkbHeld'
<1> SUFFICES ASSUME ~torn', ~early', NEW e \in Devs PROVE SnSkbOf(e)'
  BY DEF SnSkbHeld
<1>0. SnRecords /\ SnRunning /\ SnTyped /\ \A d \in Devs : SnSkbOf(d)
  BY DEF SnInv, SnPlaced, SnShape, SnKept, SnNext, SnSkbHeld, SnRunning
<1>d. DOMAIN tx = Devs /\ DOMAIN status = Devs /\ DOMAIN skb = Devs
  BY <1>0 DEF SnRecords, SnTyped
<1>1. PICK d \in Devs : Transmit(d) \/ Poll(d)
  BY DEF SnNext
<1>2. ASSUME skb' = skb, "TX" \in status'[e] => "TX" \in status[e], Sending(e)' => Sending(e) PROVE SnSkbOf(e)'
  BY <1>0, <1>2, SnSkbQuiet
<1>3. ASSUME tx'[e] = tx[e] PROVE Sending(e)' => Sending(e)
  BY <1>3 DEF Sending
<1>4. CASE Poll(d)
  BY <1>2, <1>4 DEF Poll, Sending
<1>5. CASE StartTx(d)
  <2>1. /\ skb' = [skb EXCEPT ![d] = "held"] /\ early' = (early \/ "TX" \in status[d])
        /\ TxTo(d, "buffer") /\ status' = status
    BY <1>5 DEF StartTx
  <2>2. CASE e = d
    <3>1. skb'[e] = "held" /\ "TX" \notin status'[e]
      BY <1>d, <2>1, <2>2
    <3>2. QED
      BY <3>1 DEF SnSkbOf
  <2>3. CASE e # d
    <3>1. skb'[e] = skb[e] /\ tx'[e] = tx[e]
      BY <1>0, <1>d, <2>1, <2>3, SnTxGoes
    <3>2. QED
      BY <1>0, <1>3, <2>1, <3>1, SnSkbQuiet
  <2>4. QED
    BY <2>2, <2>3
\* On the way to the interrupt.
<1>6. CASE GetTxBuffer(d) \/ Enqueue(d) \/ RxEnabled(d)
  <2>1. UNCHANGED <<skb, status>> /\ Sending(d)
    BY <1>6 DEF GetTxBuffer, Enqueue, RxEnabled, Sending
  <2>2. e # d => tx'[e] = tx[e]
    BY <1>d, <1>6 DEF GetTxBuffer, Enqueue, RxEnabled, TxTo
  <2>3. QED
    BY <1>2, <1>3, <2>1, <2>2
<1>7. CASE Lockup(d) \/ OpenRelease(d)
  <2>1. UNCHANGED <<skb, status>>
    BY <1>7 DEF Lockup, OpenRelease
  <2>2. Sending(e)' => Sending(e)
    <3>1. CASE Lockup(d)
      <4>1. TxTo(d, "idle")
        BY <3>1 DEF Lockup
      <4>2. tx'[d].pc = "idle" /\ (e # d => tx'[e] = tx[e])
        BY <1>0, <4>1, SnTxGoes
      <4>3. QED
        BY <4>2 DEF Sending
    <3>2. CASE OpenRelease(d)
      BY <3>2 DEF OpenRelease, Sending
    <3>3. QED
      BY <1>7, <3>1, <3>2
  <2>3. QED
    BY <1>2, <2>1, <2>2
<1>8. ASSUME NEW here, NEW dev \in Devs, NEW bit, NEW there, Raise(d, here, dev, bit, there),
             (here = "rxraise" /\ bit = "RX") \/ (here = "txraise" /\ dev = d /\ bit = "TX" /\ there = "txdone"),
             skb' = skb
      PROVE  SnSkbOf(e)'
  <2>1. tx[d].pc = here /\ Sending(d)
    BY <1>8 DEF Raise, Sending
  <2>2. e # d => tx'[e] = tx[e]
    BY <1>d, <1>8 DEF Raise
  <2>3. CASE UNCHANGED <<status, torn>>
    BY <1>2, <1>3, <1>8, <2>1, <2>2, <2>3
  <2>4. CASE /\ tx[d].next = here
             /\ status' = [status EXCEPT ![dev] = tx[d].seen \cup {bit}]
             /\ torn' = (torn \/ status[dev] # tx[d].seen)
             /\ tx' = [tx EXCEPT ![d].pc = there, ![d].seen = {}, ![d].next = "idle"]
    <3>1. status'[dev] = status[dev] \cup {bit} /\ \A o \in Devs : o # dev => status'[o] = status[o]
      BY <1>d, <2>4
    <3>2. CASE bit = "TX" /\ e = d
      <4>1. tx'[d].pc = "txdone"
        BY <1>0, <1>8, <2>4, <3>2 DEF SnRecords
      <4>2. skb'[e] = "held"
        BY <1>0, <1>8, <2>1, <3>2 DEF SnSkbOf
      <4>3. QED
        BY <3>2, <4>1, <4>2 DEF SnSkbOf, Sending
    <3>3. CASE ~(bit = "TX" /\ e = d)
      <4>1. "TX" \in status'[e] => "TX" \in status[e]
        BY <1>8, <3>1, <3>3
      <4>2. QED
        BY <1>2, <1>3, <1>8, <2>1, <2>2, <4>1
    <3>4. QED
      BY <3>2, <3>3
  <2>5. QED
    BY <1>8, <2>3, <2>4 DEF Raise
<1>9. ASSUME NEW here, NEW dev \in Devs, NEW next, Interrupt(d, here, dev, next),
             (here = "rxintr" /\ dev # d /\ next = "txraise")
             \/ (here \in {"txdone", "wdintr"} /\ dev = d /\ next \in {"idle", "wdwake"})
      PROVE  SnSkbOf(e)'
  <2>1. /\ tx[d].pc = here /\ status' = [status EXCEPT ![dev] = {}]
        /\ skb' = IF "TX" \in status[dev]
                    THEN [skb EXCEPT ![dev] = IF @ = "held" THEN "freed" ELSE "twice"]
                    ELSE skb
    BY <1>9 DEF Interrupt, Cleared
  <2>2. tx' = [tx EXCEPT ![d].pc = "free", ![d].next = next, ![d].hand = Head(rxQueue[dev])] \/ TxTo(d, next)
    BY <1>9 DEF Interrupt
  <2>3. /\ tx'[d].pc = next \/ (tx'[d].pc = "free" /\ tx'[d].next = next)
        /\ \A o \in Devs : o # d => tx'[o] = tx[o]
    <3>1. CASE TxTo(d, next)
      BY <1>0, <3>1, SnTxGoes
    <3>2. CASE tx' = [tx EXCEPT ![d].pc = "free", ![d].next = next, ![d].hand = Head(rxQueue[dev])]
      BY <1>0, <3>2 DEF SnRecords
    <3>3. QED
      BY <2>2, <3>1, <3>2
  <2>4. Sending(e)' => Sending(e)
    <3>1. CASE e # d
      BY <1>3, <2>3, <3>1
    <3>2. CASE e = d /\ here = "rxintr"
      BY <2>1, <3>2 DEF Sending
    <3>3. CASE e = d /\ here # "rxintr"
      BY <1>9, <2>3, <3>3 DEF Sending
    <3>4. QED
      BY <3>1, <3>2, <3>3
  <2>5. CASE e # dev
    <3>1. skb'[e] = skb[e] /\ status'[e] = status[e]
      BY <1>d, <2>1, <2>5
    <3>2. QED
      BY <1>0, <2>4, <3>1, SnSkbQuiet
  <2>6. CASE e = dev /\ "TX" \notin status[dev]
    <3>1. skb' = skb /\ status'[e] = {}
      BY <1>d, <2>1, <2>6
    <3>2. QED
      BY <1>2, <2>4, <3>1
  <2>7. CASE e = dev /\ "TX" \in status[dev]
    <3>1. skb[e] = "held" /\ ~Sending(e)
      BY <1>0, <2>7 DEF SnSkbOf
    <3>2. skb'[e] = "freed" /\ status'[e] = {}
      BY <1>d, <2>1, <2>7, <3>1
    <3>3. QED
      BY <2>4, <3>1, <3>2 DEF SnSkbOf
  <2>8. QED
    BY <2>5, <2>6, <2>7
<1>10. CASE AfterInterrupt(d) /\ UNCHANGED <<status, skb>>
  <2>1. e # d => tx'[e] = tx[e]
    BY <1>d, <1>10 DEF AfterInterrupt, TxTo
  <2>2. Sending(d)' => Sending(d)
    <3>1. CASE tx[d].pc = "free" /\ TxTo(d, "wake")
      <4>1. tx'[d].pc = "wake" /\ tx'[d].next = tx[d].next
        BY <1>0, <3>1, SnTxGoes
      <4>2. QED
        BY <3>1, <4>1 DEF Sending
    <3>2. CASE /\ tx[d].pc = "wake"
               /\ tx' = [tx EXCEPT ![d].pc = tx[d].next, ![d].hand = NoPacket, ![d].next = "idle"]
      <4>1. tx[d].next \in {"idle", "txraise", "wdwake"}
        BY <1>0, <3>2 DEF SnRecords
      <4>2. tx'[d].pc = tx[d].next
        BY <1>0, <3>2 DEF SnRecords
      <4>3. QED
        BY <3>2, <4>1, <4>2 DEF Sending
    <3>3. QED
      BY <1>10, <3>1, <3>2 DEF AfterInterrupt
  <2>3. QED
    BY <1>2, <1>3, <1>10, <2>1, <2>2
<1>11. CASE Timeout(d) /\ skb' = skb
  <2>1. PICK pcTo \in {"wdintr", "idle"} : TxTo(d, pcTo)
    BY <1>11 DEF Timeout
  <2>2. tx'[d].pc = pcTo /\ (e # d => tx'[e] = tx[e])
    BY <1>0, <2>1, SnTxGoes
  <2>3. Sending(e)' => Sending(e)
    BY <2>2 DEF Sending
  <2>4. CASE status' = status
    BY <1>2, <1>11, <2>3, <2>4
  <2>5. CASE status' = [status EXCEPT ![d] = {"TX"}] /\ early' = (early \/ skb[d] # "held")
    <3>1. CASE e # d
      BY <1>2, <1>d, <1>11, <2>3, <2>5, <3>1
    <3>2. CASE e = d
      <4>1. skb'[e] = "held" /\ ~Sending(e)'
        BY <1>11, <2>2, <2>5, <3>2 DEF Sending
      <4>2. QED
        BY <4>1 DEF SnSkbOf
    <3>3. QED
      BY <3>1, <3>2
  <2>6. QED
    BY <1>11, <2>4, <2>5 DEF Timeout
<1>t. Twin(d) \in Devs /\ Twin(d) # d
  BY SnDevs
<1>12. QED
  BY <1>1, <1>4, <1>5, <1>6, <1>7, <1>8, <1>9, <1>10, <1>11, <1>t DEF Transmit

LEMMA SnTypedStep ==
    ASSUME SnInv, SnKept, SnNext
    PROVE  SnTyped'
<1>0. SnShape /\ SnRecords /\ SnHandsRight /\ SnTyped /\ SnReceives /\ load' = load
  BY DEF SnInv, SnPlaced, SnShape, SnKept, SnNext
<1>d. DOMAIN tx = Devs /\ DOMAIN status = Devs /\ DOMAIN skb = Devs /\ Packets' = Packets /\ load' \in Loads
  BY <1>0 DEF SnRecords, SnTyped, Packets
<1>1. PICK d \in Devs : Transmit(d) \/ Poll(d)
  BY DEF SnNext
<1>t. SnThread(d) = tx[d] /\ SnThread(2 + d) = poll[d] /\ d \in SnThreads /\ 2 + d \in SnThreads
      /\ Twin(d) \in Devs
  BY SnNames, SnDevs
<1>p. ASSUME NEW k \in SnThreads, SnThread(k).pc \in {"enqueue", "free", "wake"} PROVE SnThread(k).hand \in Packets
  BY <1>0, <1>p DEF SnHandsRight, SnHandRight
\* The bits of the states, and what was read of them.
<1>2. ASSUME NEW pcTo, tx' = tx \/ TxTo(d, pcTo), status' = status \/ status' = [status EXCEPT ![d] = {"TX"}]
      PROVE  \A e \in Devs : status'[e] \subseteq {"RX", "TX"} /\ tx'[e].seen \subseteq {"RX", "TX"}
  <2>1. \A e \in Devs : status'[e] \subseteq {"RX", "TX"}
    BY <1>0, <1>d, <1>2 DEF SnTyped
  <2>2. tx'[d].seen = tx[d].seen /\ \A e \in Devs : e # d => tx'[e] = tx[e]
    BY <1>0, <1>2, SnTxGoes
  <2>3. QED
    BY <1>0, <2>1, <2>2 DEF SnTyped
<1>3. ASSUME \A e \in Devs : status'[e] \subseteq {"RX", "TX"} /\ tx'[e].seen \subseteq {"RX", "TX"},
             DOMAIN skb' = Devs, UNCHANGED <<napi, rxInt, poll>>, stopped' \subseteq stopped \cup {d},
             bottom' = bottom \/ \E p \in Packets : bottom' = bottom \cup {p} \/ bottom' = bottom \ {p}
      PROVE  SnTyped'
  <2>1. bottom' \subseteq Packets /\ stopped' \subseteq Devs
    BY <1>0, <1>3 DEF SnTyped
  <2>2. ~napi' => rxInt' = Devs /\ \A e \in Devs : poll'[e] = Off
    BY <1>0, <1>3 DEF SnTyped
  <2>3. rxInt' \subseteq Devs
    BY <1>0, <1>3 DEF SnTyped
  <2>4. QED
    BY <1>d, <1>3, <2>1, <2>2, <2>3 DEF SnTyped
<1>4. CASE Poll(d)
  <2>1. napi /\ UNCHANGED <<napi, status, skb, tx>>
    BY <1>0, <1>4 DEF SnReceives, SnPlain, Poll, PollStart, PollTake, PollFree, PollEnd
  <2>2. bottom' \subseteq Packets
    <3>1. CASE PollFree(d)
      <4>1. poll[d].hand \in Packets
        BY <1>p, <1>t, <3>1 DEF PollFree
      <4>2. QED
        BY <1>0, <3>1, <4>1 DEF PollFree, GiveBack, Chained, SnTyped
    <3>2. CASE ~PollFree(d)
      BY <1>0, <1>4, <3>2 DEF Poll, PollStart, PollTake, PollEnd, SnTyped
    <3>3. QED
      BY <3>1, <3>2
  <2>3. rxInt' \subseteq Devs
    BY <1>0, <1>4 DEF Poll, PollStart, PollTake, PollFree, PollEnd, SnTyped
  <2>4. stopped' \subseteq Devs
    BY <1>0, <1>4 DEF Poll, PollStart, PollTake, PollFree, PollEnd, WakeUp, WakeIfFirst, SnTyped
  <2>5. QED
    BY <1>0, <1>d, <2>1, <2>2, <2>3, <2>4 DEF SnTyped
<1>5. CASE StartTx(d) \/ RxEnabled(d) \/ Lockup(d) \/ OpenRelease(d)
  <2>1. UNCHANGED <<napi, rxInt, poll, bottom, status>> /\ stopped' \subseteq stopped \cup {d}
    BY <1>5 DEF StartTx, RxEnabled, Lockup, OpenRelease
  <2>2. PICK pcTo : tx' = tx \/ TxTo(d, pcTo)
    BY <1>5 DEF StartTx, RxEnabled, Lockup, OpenRelease
  <2>3. DOMAIN skb' = Devs
    BY <1>d, <1>5 DEF StartTx, RxEnabled, Lockup, OpenRelease
  <2>4. QED
    BY <1>2, <1>3, <2>1, <2>2, <2>3
<1>6. CASE GetTxBuffer(d) \/ Enqueue(d)
  <2>1. UNCHANGED <<napi, rxInt, poll, status, skb>> /\ stopped' \subseteq stopped \cup {d}
    BY <1>6 DEF GetTxBuffer, StopIfEmpty, Enqueue
  <2>2. bottom' = bottom \/ \E p \in Packets : bottom' = bottom \cup {p} \/ bottom' = bottom \ {p}
    <3>1. CASE Enqueue(d)
      <4>1. tx[d].hand \in Packets
        BY <1>p, <1>t, <3>1 DEF Enqueue
      <4>2. QED
        BY <3>1, <4>1 DEF Enqueue, Chained
    <3>2. QED
      BY <1>6, <3>1 DEF GetTxBuffer
  <2>3. \A e \in Devs : tx'[e].seen = tx[e].seen
    BY SMTT(30), <1>0, <1>6 DEF GetTxBuffer, Enqueue, TxTo, SnRecords
  <2>4. QED
    BY <1>0, <1>3, <1>d, <2>1, <2>2, <2>3 DEF SnTyped
<1>7. ASSUME NEW here, NEW dev \in Devs, NEW bit \in {"RX", "TX"}, NEW there, Raise(d, here, dev, bit, there),
             UNCHANGED <<napi, rxInt, poll, bottom, stopped, skb>>
      PROVE  SnTyped'
  <2>1. \A e \in Devs : status'[e] \subseteq {"RX", "TX"}
    <3>1. status' = status \/ status' = [status EXCEPT ![dev] = tx[d].seen \cup {bit}]
      BY <1>7 DEF Raise
    <3>2. QED
      BY <1>0, <1>d, <3>1 DEF SnTyped
  <2>2. \A e \in Devs : tx'[e].seen \subseteq {"RX", "TX"}
    <3>1. CASE tx' = [tx EXCEPT ![d].seen = status[dev], ![d].next = here]
      <4>1. tx'[d].seen = status[dev] /\ \A e \in Devs : e # d => tx'[e] = tx[e]
        BY <1>0, <3>1 DEF SnRecords
      <4>2. QED
        BY <1>0, <4>1 DEF SnTyped
    <3>2. CASE tx' = [tx EXCEPT ![d].pc = there, ![d].seen = {}, ![d].next = "idle"]
      <4>1. tx'[d].seen = {} /\ \A e \in Devs : e # d => tx'[e] = tx[e]
        BY <1>0, <3>2 DEF SnRecords
      <4>2. QED
        BY <1>0, <4>1 DEF SnTyped
    <3>3. QED
      BY <1>7, <3>1, <3>2 DEF Raise
  <2>3. QED
    BY <1>3, <1>d, <1>7, <2>1, <2>2
<1>8. ASSUME NEW here, NEW dev \in Devs, NEW next, Interrupt(d, here, dev, next)
      PROVE  SnTyped'
  <2>1. UNCHANGED <<napi, bottom, stopped>> /\ status' = [status EXCEPT ![dev] = {}] /\ DOMAIN skb' = Devs
    BY <1>d, <1>8 DEF Interrupt, Cleared
  <2>2. \A e \in Devs : tx'[e].seen = tx[e].seen
    <3>1. tx' = [tx EXCEPT ![d].pc = "free", ![d].next = next, ![d].hand = Head(rxQueue[dev])] \/ TxTo(d, next)
      BY <1>8 DEF Interrupt
    <3>2. QED
      BY SMTT(30), <1>0, <3>1 DEF TxTo, SnRecords
  <2>3. \A e \in Devs : status'[e] \subseteq {"RX", "TX"}
    BY <1>0, <1>d, <2>1 DEF SnTyped
  <2>4. rxInt' \subseteq Devs /\ (~napi => UNCHANGED <<rxInt, poll>>)
    BY <1>0, <1>8 DEF Interrupt, SnTyped
  <2>5. QED
    BY <1>0, <1>d, <2>1, <2>2, <2>3, <2>4 DEF SnTyped
<1>9. CASE AfterInterrupt(d)
           /\ UNCHANGED <<napi, rxQueue, status, rxInt, up, skb, poll, torn, early, lockedUp, missed, deaf>>
  <2>1. tx[d].hand \in Packets
    BY <1>p, <1>t, <1>9 DEF AfterInterrupt
  <2>2. bottom' = bottom \/ \E p \in Packets : bottom' = bottom \cup {p} \/ bottom' = bottom \ {p}
    BY <1>9, <2>1 DEF AfterInterrupt, GiveBack, Chained
  <2>3. stopped' \subseteq stopped \cup {d}
    BY <1>9 DEF AfterInterrupt, WakeUp, WakeIfFirst
  <2>4. \A e \in Devs : tx'[e].seen = tx[e].seen
    BY <1>0, <1>9 DEF AfterInterrupt, TxTo, SnRecords
  <2>5. QED
    BY <1>0, <1>3, <1>d, <1>9, <2>2, <2>3, <2>4 DEF SnTyped
<1>10. CASE Timeout(d) /\ UNCHANGED <<napi, ppool, rxQueue, bottom, rxInt, up, skb, poll, missed, deaf>>
  <2>1. PICK pcTo : TxTo(d, pcTo)
    BY <1>10 DEF Timeout
  <2>2. status' = status \/ status' = [status EXCEPT ![d] = {"TX"}]
    BY <1>10 DEF Timeout
  <2>3. stopped' \subseteq stopped \cup {d}
    BY <1>10 DEF Timeout
  <2>4. QED
    BY <1>2, <1>3, <1>d, <1>10, <2>1, <2>2, <2>3
<1>11. QED
  BY <1>1, <1>t, <1>4, <1>5, <1>6, <1>7, <1>8, <1>9, <1>10 DEF Transmit

LEMMA SnKeptStep == SnInv /\ SnKept /\ [SnNext]_snVars => SnKept'
<1>1. ASSUME SnInv, SnKept, SnNext PROVE SnKept'
  BY <1>1, SnTypedStep, SnEmptyStep, SnSkbStep DEF SnKept
<1>2. ASSUME SnKept, UNCHANGED snVars PROVE SnKept'
  BY <1>2 DEF snVars, SnKept, SnTyped, Packets, SnEmptyStopped, SnPoolNotEmpty, SnSkbHeld, SnSkbOf, Sending
<1>3. QED
  BY <1>1, <1>2

\* Where a buffer is, counted.
LEMMA SnListed ==
    ASSUME NEW lists \in [Devs -> Seq(Packets)], NEW p
    PROVE  /\ (\A d \in Devs : p \notin ToSet(lists[d])) => InList(lists, p) = {}
           /\ \A d \in Devs : /\ p \in ToSet(lists[d]) /\ IsInjective(lists[d])
                              /\ \A e \in Devs : e # d => p \notin ToSet(lists[e])
                              => \E at : InList(lists, p) = {at}
<1>1. \A at \in InList(lists, p) : \E d \in Devs : \E i \in DOMAIN lists[d] : at = <<d, i>> /\ lists[d][i] = p
  BY DEF InList
<1>2. \A d \in Devs : \A i \in DOMAIN lists[d] : lists[d][i] = p => <<d, i>> \in InList(lists, p)
  <2>1. ASSUME NEW d \in Devs, NEW i \in DOMAIN lists[d], lists[d][i] = p PROVE <<d, i>> \in InList(lists, p)
    <3>1. PICK at : at = <<d, i>>
      OBVIOUS
    <3>2. at[1] = d /\ at[2] = i /\ at \in {d} \X DOMAIN lists[d]
      BY <3>1
    <3>3. at \in InList(lists, p)
      BY <2>1, <3>2 DEF InList
    <3>4. QED
      BY <3>1, <3>3
  <2>2. QED
    BY <2>1
<1>3. \A d \in Devs : ToSet(lists[d]) = {lists[d][i] : i \in DOMAIN lists[d]}
  BY DEF ToSet
<1>4. ASSUME \A d \in Devs : p \notin ToSet(lists[d]) PROVE InList(lists, p) = {}
  BY <1>1, <1>3, <1>4
<1>5. ASSUME NEW d \in Devs, p \in ToSet(lists[d]), IsInjective(lists[d]),
             \A e \in Devs : e # d => p \notin ToSet(lists[e])
      PROVE  \E at : InList(lists, p) = {at}
  <2>1. PICK i \in DOMAIN lists[d] : lists[d][i] = p
    BY <1>3, <1>5
  <2>2. \A j \in DOMAIN lists[d] : lists[d][j] = p => j = i
    BY <1>5, <2>1 DEF IsInjective
  <2>3. \A at \in InList(lists, p) : at = <<d, i>>
    BY <1>1, <1>3, <1>5, <2>2
  <2>4. <<d, i>> \in InList(lists, p)
    BY <1>2, <2>1
  <2>5. QED
    BY <2>3, <2>4
<1>6. QED
  BY <1>4, <1>5

LEMMA SnCounted == SnInv => SnBuffersConserved
<1> SUFFICES ASSUME SnInv, NEW p \in Packets
             PROVE  Cardinality(InHands(p)) + Cardinality(InList(ppool, p)) + Cardinality(InList(rxQueue, p)) = 1
  BY DEF SnBuffersConserved
<1>0. SnShape /\ SnApart /\ SnNoneTwice /\ SnEverywhere /\ SnHandsRight
  BY DEF SnInv, SnPlaced
<1>1. p # NoPacket
  <2>1. PICK d \in Devs, i \in 1 .. load[1] : p = <<d, i>>
    BY DEF Packets
  <2>2. QED
    BY <2>1 DEF NoPacket
<1>2. InHands(p) = {k \in SnThreads : p \in SnPlace(k)}
  <2>1. InHands(p) = {k \in SnThreads : SnThread(k).hand = p /\ SnThread(k).pc # "wake"}
    <3>1. \A d \in Devs : /\ d \in SnThreads /\ 2 + d \in SnThreads
                          /\ SnThread(d) = tx[d] /\ SnThread(2 + d) = poll[d]
      BY SnNames
    <3>2. \A k \in SnThreads : \E d \in Devs : k = d \/ k = 2 + d
      BY SnNames
    <3>3. \A k : k \in InHands(p) <=> \E d \in Devs : (k = d /\ tx[d].hand = p /\ tx[d].pc # "wake")
                                                      \/ (k = 2 + d /\ poll[d].hand = p /\ poll[d].pc # "wake")
      BY DEF InHands
    <3>4. QED
      BY <3>1, <3>2, <3>3
  <2>2. \A k \in SnThreads : SnThread(k).hand = p /\ SnThread(k).pc # "wake" <=> p \in SnPlace(k)
    <3>1. ASSUME NEW k \in SnThreads PROVE SnThread(k).hand = p /\ SnThread(k).pc # "wake" <=> p \in SnHeld(k)
      BY <1>0, <1>1 DEF SnHandsRight, SnHandRight, SnHeld
    <3>2. QED
      BY <3>1, SnNames
  <2>3. QED
    BY <2>1, <2>2
<1>3. PICK i \in 0 .. 7 : p \in SnPlace(i)
  BY <1>0 DEF SnEverywhere
<1>4. \A j \in 0 .. 7 : j # i => p \notin SnPlace(j)
  BY <1>0, <1>3 DEF SnApart
<1>5. /\ ppool \in [Devs -> Seq(Packets)] /\ rxQueue \in [Devs -> Seq(Packets)]
      /\ \A d \in Devs : IsInjective(ppool[d]) /\ IsInjective(rxQueue[d])
  BY <1>0 DEF SnShape, SnNoneTwice
<1>6. /\ \A d \in Devs : /\ SnPlace(4 + d) = ToSet(ppool[d]) /\ 4 + d \in 0 .. 7
                         /\ SnPlace(6 + d) = ToSet(rxQueue[d]) /\ 6 + d \in 0 .. 7
      /\ \A k \in SnThreads : k \in 0 .. 7
  BY SnNames
<1>7. \A d, e \in Devs : (4 + d = 4 + e => d = e) /\ (6 + d = 6 + e => d = e) /\ 4 + d # 6 + e
  BY DEF Devs
<1>8. \A k \in SnThreads, d \in Devs : k # 4 + d /\ k # 6 + d
  BY DEF Devs, SnThreads
<1>9. Cardinality({}) = 0 /\ \A x : Cardinality({x}) = 1
  BY FS_EmptySet, FS_Singleton
<1>10. CASE i \in SnThreads
  <2>1. InHands(p) = {i}
    BY <1>2, <1>3, <1>4, <1>6, <1>10
  <2>2. \A d \in Devs : p \notin ToSet(ppool[d]) /\ p \notin ToSet(rxQueue[d])
    BY <1>4, <1>6, <1>8, <1>10
  <2>3. InList(ppool, p) = {} /\ InList(rxQueue, p) = {}
    BY <1>5, <2>2, SnListed
  <2>4. Cardinality(InHands(p)) = 1
    BY <1>9, <2>1
  <2>5. Cardinality(InList(ppool, p)) = 0 /\ Cardinality(InList(rxQueue, p)) = 0
    BY <1>9, <2>3
  <2>6. QED
    BY <2>4, <2>5
<1>11. ASSUME NEW d \in Devs, i = 4 + d
       PROVE  Cardinality(InHands(p)) + Cardinality(InList(ppool, p)) + Cardinality(InList(rxQueue, p)) = 1
  <2>1. InHands(p) = {}
    BY <1>2, <1>4, <1>6, <1>8, <1>11
  <2>2. p \in ToSet(ppool[d]) /\ \A e \in Devs : e # d => p \notin ToSet(ppool[e])
    BY <1>3, <1>4, <1>6, <1>7, <1>11
  <2>3. \A e \in Devs : p \notin ToSet(rxQueue[e])
    BY <1>4, <1>6, <1>7, <1>11
  <2>4. InList(rxQueue, p) = {} /\ \E at : InList(ppool, p) = {at}
    BY <1>5, <2>2, <2>3, SnListed
  <2>5. Cardinality(InHands(p)) = 0 /\ Cardinality(InList(rxQueue, p)) = 0
    BY <1>9, <2>1, <2>4
  <2>6. Cardinality(InList(ppool, p)) = 1
    BY <1>9, <2>4
  <2>7. QED
    BY <2>5, <2>6
<1>12. ASSUME NEW d \in Devs, i = 6 + d
       PROVE  Cardinality(InHands(p)) + Cardinality(InList(ppool, p)) + Cardinality(InList(rxQueue, p)) = 1
  <2>1. InHands(p) = {}
    BY <1>2, <1>4, <1>6, <1>8, <1>12
  <2>2. p \in ToSet(rxQueue[d]) /\ \A e \in Devs : e # d => p \notin ToSet(rxQueue[e])
    BY <1>3, <1>4, <1>6, <1>7, <1>12
  <2>3. \A e \in Devs : p \notin ToSet(ppool[e])
    BY <1>4, <1>6, <1>7, <1>12
  <2>4. InList(ppool, p) = {} /\ \E at : InList(rxQueue, p) = {at}
    BY <1>5, <2>2, <2>3, SnListed
  <2>5. Cardinality(InHands(p)) = 0 /\ Cardinality(InList(ppool, p)) = 0
    BY <1>9, <2>1, <2>4
  <2>6. Cardinality(InList(rxQueue, p)) = 1
    BY <1>9, <2>4
  <2>7. QED
    BY <2>5, <2>6
<1>13. QED
  BY <1>10, <1>11, <1>12, SnNames

LEMMA SnKeptProperties == SnInv /\ SnKept => SnTypeOK /\ SnBuffersConserved /\ SnPoolNotEmpty /\ SnFreedOnce
<1> SUFFICES ASSUME SnInv, SnKept PROVE SnTypeOK /\ SnPoolNotEmpty /\ SnFreedOnce
  BY SnCounted
<1>0. SnShape /\ SnHandsRight /\ SnTyped /\ up \subseteq Devs
  BY DEF SnInv, SnPlaced, SnKept
<1>1. ASSUME NEW d \in Devs
      PROVE  /\ ToSet(ppool[d]) \subseteq {d} \X (1 .. load[1]) /\ ToSet(rxQueue[d]) \subseteq Packets
             /\ tx[d].hand \in Packets \cup {NoPacket} /\ poll[d].hand \in Packets \cup {NoPacket}
  <2>1. \A q \in ToSet(ppool[d]) \cup ToSet(rxQueue[d]) : q \in Packets
    <3>1. ppool[d] \in Seq(Packets) /\ rxQueue[d] \in Seq(Packets)
      BY <1>0 DEF SnShape
    <3>2. (\A i \in DOMAIN ppool[d] : ppool[d][i] \in Packets) /\ \A i \in DOMAIN rxQueue[d] : rxQueue[d][i] \in Packets
      BY <3>1
    <3>3. QED
      BY <3>2 DEF ToSet
  <2>2. ASSUME NEW q \in ToSet(ppool[d]) PROVE q \in {d} \X (1 .. load[1])
    <3>1. q \in Devs \X (1 .. load[1]) /\ q[1] = d
      BY <1>0, <2>1 DEF Packets, SnShape, Owner
    <3>2. QED
      BY <3>1
  <2>3. \A k \in SnThreads : SnThread(k).hand \in Packets \cup {NoPacket}
    BY <1>0 DEF SnHandsRight, SnHandRight
  <2>4. tx[d].hand \in Packets \cup {NoPacket} /\ poll[d].hand \in Packets \cup {NoPacket}
    BY <2>3, SnNames
  <2>5. QED
    BY <2>1, <2>2, <2>4
<1>2. SnTypeOK
  BY <1>0, <1>1 DEF SnTypeOK, SnTyped
<1>3. SnFreedOnce
  BY DEF SnFreedOnce, SnKept, SnSkbHeld, SnSkbOf
<1>4. QED
  BY <1>2, <1>3 DEF SnKept

LEMMA SnProperties == SnInv => SnPacketsAwaited /\ SnQueueNotForgotten
<1> SUFFICES ASSUME SnInv PROVE SnPacketsAwaited /\ SnQueueNotForgotten
  OBVIOUS
<1>0. SnShape /\ SnReceives /\ SnStoppedKnown /\ up \subseteq Devs
  BY DEF SnInv, SnPlaced
<1>1. SnPacketsAwaited
  BY <1>0 DEF SnReceives, SnAwaited, SnPacketsAwaited, Coming
<1>2. ASSUME NEW d \in up, SnWaker(d), ppool[d] # <<>>
      PROVE  \E e \in Devs : \E t \in {tx[e], poll[e]} : t.pc = "wake" /\ Owner(t.hand) = d
  <2>1. PICK k \in SnThreads : SnThread(k).pc = "wake" /\ SnThread(k).hand = Last(ppool[d])
    BY <1>2 DEF SnWaker
  <2>2. ppool[d] \in Seq(Packets)
    BY <1>0 DEF SnShape
  <2>3. Len(ppool[d]) \in DOMAIN ppool[d]
    BY <1>2, <2>2
  <2>4. Last(ppool[d]) \in ToSet(ppool[d])
    BY <2>3 DEF Last, ToSet
  <2>5. Owner(SnThread(k).hand) = d
    BY <1>0, <2>1, <2>4 DEF SnShape
  <2>6. PICK e \in Devs : SnThread(k) \in {tx[e], poll[e]}
    BY SnNames
  <2>7. QED
    BY <2>1, <2>5, <2>6
<1>3. SnQueueNotForgotten
  BY <1>0, <1>2 DEF SnQueueNotForgotten, SnStoppedKnown
<1>4. QED
  BY <1>1, <1>3

LEMMA ShProperties == ShInv => ShReadersNotForgotten
  BY DEF ShInv, ShReadersNotForgotten

-----------------------------------------------------------------------------
(* The four together.                                                      *)

DriversInv == SbInv /\ SpInv /\ SpRing /\ ShInv /\ ShKept /\ SnInv /\ SnKept

LEMMA DriversInvHolds == DriversSpec => []DriversInv
<1>1. DriversInit => DriversInv
  BY SbInitially, SpInitially, SpRingInitially, ShInitially, ShFlowInitially, SnInitially, SnKeptInitially
     DEF DriversInit, DriversInv
<1>2. DriversInv /\ [DriversNext]_driversVars => DriversInv'
  <2> SUFFICES ASSUME DriversInv, [DriversNext]_driversVars PROVE DriversInv'
    OBVIOUS
  <2>1. [SbNext]_sbVars
    BY DEF DriversNext, driversVars
  <2>2. [SpNext]_spVars
    BY DEF DriversNext, driversVars
  <2>3. [ShNext]_shVars
    BY DEF DriversNext, driversVars
  <2>4. [SnNext]_snVars
    BY DEF DriversNext, driversVars
  <2>5. QED
    BY <2>1, <2>2, <2>3, <2>4, SbStep, SpStep, SpRingStep, ShStep, ShKeptStep, SnStep, SnKeptStep
       DEF DriversInv
<1>3. QED
  BY <1>1, <1>2, PTL DEF DriversSpec

\* No buffer of snull is lost or in two places, none is taken from an empty
\* pool but after a forced start, and no skb is freed twice but after a torn
\* status or an early watchdog; head and tail of the rings of short and
\* shortprint stay in them (snull_release_buffer, short_incr_bp).
THEOREM BuffersConservedHolds == DriversSpec => []BuffersConserved
<1>1. DriversInv => BuffersConserved
  BY SnKeptProperties, ShKeptProperties, SpProperties DEF DriversInv, BuffersConserved
<1>2. QED
  BY <1>1, DriversInvHolds, PTL

\* The readers of short are given the times of the interrupts in their order,
\* each once and none left out; what its counts say more than came is what an
\* unlocked increment stored again after a reset (short.c:422, 436); the
\* printer is given the bytes in the order in which they were accepted
\* (short_bottom_half, short_i_read, shortp_do_write).
THEOREM LinesInOrderHolds == DriversSpec => []LinesInOrder
<1>1. DriversInv => LinesInOrder
  BY ShKeptProperties, SpProperties DEF DriversInv, LinesInOrder
<1>2. QED
  BY <1>1, DriversInvHolds, PTL

\* The disk keeps what its users write, but for the sectors of later segments
\* that are not as long as the first one of their bio (sbull.c:138-140); its
\* timer, and shortprint's, are added once and find nobody, but for the late
\* starts of sbull_release and of shortp_do_work and shortp_timeout.
THEOREM DiskKeptHolds == DriversSpec => []DiskKept
<1>1. DriversInv => DiskKept
  BY DEF DriversInv, DiskKept, SbInv, SbShape, SbIn, SbTypeOK, SpInv
<1>2. QED
  BY <1>1, DriversInvHolds, PTL

\* No queue of snull, no reader of short and no process of shortprint is left
\* asleep when it could go on, and whatever is under way has something coming
\* for it, but through the windows that the properties name, and but for an
\* interface whose receive interrupts were disabled while it was down
\* (snull.c:320, 405).
THEOREM DriverSleepersNotForgottenHolds == DriversSpec => []DriverSleepersNotForgotten
<1>1. DriversInv => DriverSleepersNotForgotten
  BY SnProperties, ShProperties DEF DriversInv, DriverSleepersNotForgotten, SpInv
<1>2. QED
  BY <1>1, DriversInvHolds, PTL

---------------------------------------------------------------------------
(* scullsingle.  The device goes to the process that brings the counter to *)
(* zero.  That this process is alone follows from the counter being exact: *)
(* it was 1, hence nobody was inside, not even someone about to back off.  *)
(* Mutual exclusion alone is not inductive, and neither is it enough to    *)
(* count those the device is granted to.                                   *)

Shape ==
    /\ scull_s_available \in Int
    /\ pc \in [Procs -> Control]

IInv == Shape /\ Conserved /\ SingleOpen

\* The processes inside are finitely many, and at most all of them.
LEMMA InsideFinite ==
    /\ IsFiniteSet(Inside)
    /\ Cardinality(Inside) \in Nat
    /\ Cardinality(Procs) \in Nat
    /\ Cardinality(Inside) <= Cardinality(Procs)
<1>1. Inside \in SUBSET Procs
  BY DEF Inside
<1>2. IsFiniteSet(Inside) /\ Cardinality(Inside) <= Cardinality(Procs)
  BY <1>1, ProcsAssumption, FS_Subset
<1>3. QED
  BY <1>2, ProcsAssumption, FS_CardinalityType

\* A process that comes in makes the number inside one larger.
LEMMA ComesIn ==
    ASSUME Shape, NEW p \in Procs, pc[p] = "closed",
           NEW next \in Control \ {"closed"}, pc' = [pc EXCEPT ![p] = next]
    PROVE  Cardinality(Inside') = Cardinality(Inside) + 1
<1>1. Inside' = Inside \cup {p}
  BY DEF Inside, Shape, Control
<1>2. p \notin Inside
  BY DEF Inside
<1>3. QED
  BY <1>1, <1>2, InsideFinite, FS_AddElement

\* One that leaves makes it one smaller.
LEMMA GoesOut ==
    ASSUME Shape, NEW p \in Procs, pc[p] # "closed",
           pc' = [pc EXCEPT ![p] = "closed"]
    PROVE  Cardinality(Inside') = Cardinality(Inside) - 1
<1>1. Inside' = Inside \ {p}
  BY DEF Inside, Shape, Control
<1>2. p \in Inside
  BY DEF Inside
<1>3. QED
  BY <1>1, <1>2, InsideFinite, FS_RemoveElement

LEMMA InitIInv == Init => IInv
<1> SUFFICES ASSUME Init PROVE IInv
  OBVIOUS
<1>1. Shape /\ SingleOpen
  <2>1. Shape
    <3>1. scull_s_available \in Int
      BY DEF Init
    <3>2. pc \in [Procs -> Control]
      BY DEF Init, Control
    <3>3. QED
      BY <3>1, <3>2 DEF Shape
  <2>2. \A p \in Procs : ~Granted(p)
    BY DEF Init, Granted
  <2>3. QED
    BY <2>1, <2>2 DEF SingleOpen
<1>2. Inside = {}
  BY DEF Init, Inside
<1>3. Conserved
  BY <1>2, FS_EmptySet DEF Init, Conserved
<1>4. QED
  BY <1>1, <1>3 DEF IInv

LEMMA NextIInv == IInv /\ [Next]_vars => IInv'
<1> SUFFICES ASSUME IInv, [Next]_vars PROVE IInv'
  OBVIOUS
<1>0. Shape /\ Conserved /\ SingleOpen
  BY DEF IInv
<1>1. ASSUME NEW p \in Procs, OpenGranted(p) PROVE IInv'
  <2>1. PICK next \in {"trim", "open"} : pc' = [pc EXCEPT ![p] = next]
    BY <1>1 DEF OpenGranted
  <2>2. pc[p] = "closed" /\ scull_s_available = 1 /\ scull_s_available' = 0
    BY <1>0, <1>1 DEF OpenGranted, TakesLast, Shape
  <2>3. Shape'
    BY <1>0, <1>1, <2>1, <2>2 DEF OpenGranted, Shape, Control
  <2>4. Conserved'
    <3>1. Cardinality(Inside') = Cardinality(Inside) + 1
      BY <1>0, <2>1, <2>2, ComesIn DEF Control
    <3>2. QED
      BY <1>0, <2>2, <3>1, InsideFinite DEF Conserved
  <2>5. SingleOpen'
    <3>1. Cardinality(Inside) = 0
      BY <1>0, <2>2, InsideFinite DEF Conserved
    <3>2. Inside = {}
      BY <3>1, InsideFinite, FS_EmptySet
    <3>3. \A q \in Procs : q # p => pc'[q] = "closed"
      BY <1>0, <2>1, <3>2 DEF Inside, Shape
    <3>4. QED
      BY <3>3 DEF SingleOpen, Granted
  <2>6. QED
    BY <2>3, <2>4, <2>5 DEF IInv
<1>2. ASSUME NEW p \in Procs, OpenRefused(p) PROVE IInv'
  <2>1. Shape'
    BY <1>0, <1>2 DEF OpenRefused, Shape, Control
  <2>2. Cardinality(Inside') = Cardinality(Inside) + 1
    BY <1>0, <1>2, ComesIn DEF OpenRefused, Control
  <2>3. Conserved'
    BY <1>0, <1>2, <2>2, InsideFinite DEF OpenRefused, Conserved, Shape
  <2>4. SingleOpen'
    BY <1>0, <1>2 DEF OpenRefused, SingleOpen, Granted, Shape
  <2>5. QED
    BY <2>1, <2>3, <2>4 DEF IInv
<1>3. ASSUME NEW p \in Procs, BackOff(p) PROVE IInv'
  <2>1. Shape'
    BY <1>0, <1>3 DEF BackOff, PutsBack, Shape, Control
  <2>2. Cardinality(Inside') = Cardinality(Inside) - 1
    BY <1>0, <1>3, GoesOut DEF BackOff
  <2>3. Conserved'
    BY <1>0, <1>3, <2>2, InsideFinite DEF BackOff, PutsBack, Conserved, Shape
  <2>4. SingleOpen'
    BY <1>0, <1>3 DEF BackOff, SingleOpen, Granted, Shape
  <2>5. QED
    BY <2>1, <2>3, <2>4 DEF IInv
<1>4. ASSUME NEW p \in Procs, TrimDone(p) PROVE IInv'
  <2>1. Shape'
    BY <1>0, <1>4 DEF TrimDone, Shape, Control
  <2>2. Inside' = Inside
    BY <1>0, <1>4 DEF TrimDone, Inside, Shape
  <2>3. Conserved'
    BY <1>0, <1>4, <2>2 DEF TrimDone, Conserved
  <2>4. SingleOpen'
    BY <1>0, <1>4 DEF TrimDone, SingleOpen, Granted, Shape
  <2>5. QED
    BY <2>1, <2>3, <2>4 DEF IInv
<1>5. ASSUME NEW p \in Procs, Release(p) PROVE IInv'
  <2>1. Shape'
    BY <1>0, <1>5 DEF Release, Shape, Control
  <2>2. Cardinality(Inside') = Cardinality(Inside) - 1
    BY <1>0, <1>5, GoesOut DEF Release
  <2>3. Conserved'
    BY <1>0, <1>5, <2>2, InsideFinite DEF Release, Conserved, Shape
  <2>4. SingleOpen'
    BY <1>0, <1>5 DEF Release, SingleOpen, Granted, Shape
  <2>5. QED
    BY <2>1, <2>3, <2>4 DEF IInv
<1>6. CASE UNCHANGED vars
  BY <1>0, <1>6 DEF vars, IInv, Shape, Conserved, SingleOpen, Inside, Granted
<1>7. QED
  BY <1>1, <1>2, <1>3, <1>4, <1>5, <1>6 DEF Next

\* The inductive invariant holds at every step, whoever opens and closes.
THEOREM Invariant == Spec => []IInv
<1>1. QED
  BY InitIInv, NextIInv, PTL DEF Spec

\* scullsingle is open at most once, for any number of processes
\* (scull_s_open's atomic_dec_and_test).
THEOREM SingleOpenHolds == Spec => []SingleOpen
<1>1. IInv => SingleOpen
  BY DEF IInv
<1>2. QED
  BY Invariant, <1>1, PTL

\* The counter is exact (scull_s_open, its way back, and scull_s_release).
THEOREM ConservedHolds == Spec => []Conserved
<1>1. IInv => Conserved
  BY DEF IInv
<1>2. QED
  BY Invariant, <1>1, PTL

\* The counter never leaves the range the number of processes gives it.
THEOREM TypeCorrect == Spec => []TypeOK
<1>1. IInv => TypeOK
  BY InsideFinite DEF IInv, Shape, Conserved, TypeOK
<1>2. QED
  BY Invariant, <1>1, PTL

---------------------------------------------------------------------------
(* sculluid and scullwuid.  Neither property is inductive alone.  That a   *)
(* new owner may be recorded when count is 0 is right because count is     *)
(* exact: then nobody has the device open who would not be allowed any     *)
(* more.  And the release that makes the device free sees count reach 0    *)
(* for the same reason; that it wakes somebody needs that only scullwuid   *)
(* has sleepers.                                                           *)

UserControl == {"closed", "test", "check", "asleep", "trim", "open", "inside", "wake"}

UserShape ==
    /\ count \in Int
    /\ userPc \in [Procs -> UserControl]

\* sculluid has no wait queue.
NoQueue == ~Waits => \A p \in Procs : userPc[p] \notin {"check", "asleep", "wake"}

Counted == count = Cardinality(User!Holders)

UserIInv == UserShape /\ NoQueue /\ Counted /\ HoldersAllowed /\ SleepersNotForgotten

\* The processes that hold the device are finitely many.
LEMMA HoldersFinite ==
    IsFiniteSet(User!Holders) /\ Cardinality(User!Holders) \in Nat
<1>1. User!Holders \in SUBSET Procs
  BY DEF User!Holders
<1>2. IsFiniteSet(User!Holders)
  BY <1>1, ProcsAssumption, FS_Subset
<1>3. QED
  BY <1>2, FS_CardinalityType

\* If count is 0, nobody holds the device; if somebody does, it is not.
LEMMA ZeroWhenFree ==
    ASSUME Counted
    PROVE  count \in Nat /\ (count = 0 <=> User!Holders = {})
<1>1. QED
  BY HoldersFinite, FS_EmptySet DEF Counted

\* A process that is granted the device makes the holders one more.
LEMMA UserComesIn ==
    ASSUME UserShape, NEW p \in Procs, ~User!Holds(p),
           NEW next \in {"trim", "open"}, userPc' = [userPc EXCEPT ![p] = next]
    PROVE  User!Holders' = User!Holders \cup {p} /\ Cardinality(User!Holders') = Cardinality(User!Holders) + 1
<1>1. User!Holders' = User!Holders \cup {p}
  BY DEF User!Holders, User!Holds, UserShape, UserControl
<1>2. p \notin User!Holders
  BY DEF User!Holders
<1>3. QED
  BY <1>1, <1>2, HoldersFinite, FS_AddElement

\* One that releases it makes them one less.
LEMMA UserGoesOut ==
    ASSUME UserShape, NEW p \in Procs, User!Holds(p),
           NEW next \in {"wake", "closed"}, userPc' = [userPc EXCEPT ![p] = next]
    PROVE  User!Holders' = User!Holders \ {p} /\ Cardinality(User!Holders') = Cardinality(User!Holders) - 1
<1>1. User!Holders' = User!Holders \ {p}
  BY DEF User!Holders, User!Holds, UserShape, UserControl
<1>2. p \in User!Holders
  BY DEF User!Holders
<1>3. QED
  BY <1>1, <1>2, HoldersFinite, FS_RemoveElement

LEMMA UserInitIInv == ASSUME User!Init PROVE UserIInv
<1>1. UserShape /\ NoQueue
  BY DEF User!Init, UserShape, NoQueue, UserControl
<1>2. User!Holders = {}
  BY DEF User!Init, User!Holders, User!Holds
<1>3. Counted
  BY <1>2, FS_EmptySet DEF User!Init, Counted
<1>4. HoldersAllowed
  BY <1>2 DEF HoldersAllowed, User!HoldersAllowed
<1>5. SleepersNotForgotten
  BY DEF User!Init, SleepersNotForgotten, User!SleepersNotForgotten
<1>6. QED
  BY <1>1, <1>3, <1>4, <1>5 DEF UserIInv

\* A step that changes the control of one process only, of which it makes or
\* unmakes no holder, and that puts to sleep only whom the device is closed
\* to, leaves the invariant alone.
LEMMA StaysOutside ==
    ASSUME UserIInv, NEW p \in Procs, NEW next \in UserControl,
           userPc' = [userPc EXCEPT ![p] = next], UNCHANGED <<count, owner>>,
           User!Holds(p) <=> next \in {"trim", "open", "inside"},
           next = "asleep" => ~User!Available(p),
           next \in {"check", "asleep", "wake"} => Waits,
           userPc[p] # "wake"
    PROVE  UserIInv'
<1>0. UserShape /\ NoQueue /\ Counted /\ HoldersAllowed /\ SleepersNotForgotten
  BY DEF UserIInv
<1>1. UserShape'
  BY <1>0 DEF UserShape
<1>2. NoQueue'
  BY <1>0 DEF NoQueue, UserShape
<1>3. User!Holders' = User!Holders
  BY <1>0 DEF User!Holders, User!Holds, UserShape
<1>4. Counted'
  BY <1>0, <1>3 DEF Counted
<1>5. \A q \in Procs : User!Allowed(q)' = User!Allowed(q) /\ User!Available(q)' = User!Available(q)
  BY DEF User!Allowed, User!Available
<1>6. HoldersAllowed'
  BY <1>0, <1>3, <1>5 DEF HoldersAllowed, User!HoldersAllowed, User!Holders
<1>7. SleepersNotForgotten'
  BY <1>0, <1>5 DEF SleepersNotForgotten, User!SleepersNotForgotten, UserShape
<1>8. QED
  BY <1>1, <1>2, <1>4, <1>6, <1>7 DEF UserIInv

LEMMA UserNextIInv ==
    ASSUME UserIInv, [AccessNext]_<<vars, userVars>>
    PROVE  UserIInv'
<1>0. UserShape /\ NoQueue /\ Counted /\ HoldersAllowed /\ SleepersNotForgotten
  BY DEF UserIInv
<1>1. ASSUME NEW p \in Procs, User!OpenStart(p) PROVE UserIInv'
  BY <1>1, StaysOutside DEF User!OpenStart, User!Goto, UserControl, User!Holds
<1>2. ASSUME NEW p \in Procs, User!OpenGranted(p) PROVE UserIInv'
  <2>1. PICK next \in {"trim", "open"} : userPc' = [userPc EXCEPT ![p] = next]
    BY <1>2 DEF User!OpenGranted, User!Goto
  <2>2. /\ ~User!Holds(p) /\ User!Available(p) /\ count' = count + 1
        /\ owner' = IF count = 0 THEN uid[p] ELSE owner
    BY <1>2 DEF User!OpenGranted, User!Holds, User!Grabs
  <2>3. User!Holders' = User!Holders \cup {p} /\ Cardinality(User!Holders') = Cardinality(User!Holders) + 1
    BY <1>0, <2>1, <2>2, UserComesIn
  <2>4. UserShape'
    BY <1>0, <2>1, <2>2 DEF UserShape, UserControl
  <2>5. NoQueue'
    BY <1>0, <2>1 DEF NoQueue, UserShape
  <2>6. Counted'
    BY <1>0, <2>2, <2>3 DEF Counted
  <2>7. HoldersAllowed'
    <3>1. CASE count = 0
      <4>1. User!Holders' = {p}
        BY <1>0, <2>3, <3>1, ZeroWhenFree
      <4>2. User!Allowed(p)'
        BY <2>2, <3>1 DEF User!Allowed
      <4>3. QED
        BY <4>1, <4>2 DEF HoldersAllowed, User!HoldersAllowed
    <3>2. CASE count # 0
      <4>1. owner' = owner /\ User!Allowed(p)
        BY <2>2, <3>2 DEF User!Available
      <4>2. \A q \in Procs : User!Allowed(q)' = User!Allowed(q)
        BY <4>1 DEF User!Allowed
      <4>3. QED
        BY <1>0, <2>3, <4>1, <4>2 DEF HoldersAllowed, User!HoldersAllowed, User!Holders
    <3>3. QED
      BY <3>1, <3>2
  <2>8. SleepersNotForgotten'
    <3>1. ASSUME NEW q \in Procs, userPc'[q] = "asleep", User!Available(q)'
          PROVE  User!Available(q) /\ userPc[q] = "asleep"
      <4>1. count \in Nat /\ count' # 0
        BY <1>0, <2>2, ZeroWhenFree
      <4>2. User!Allowed(q)'
        BY <3>1, <4>1 DEF User!Available
      <4>3. count # 0 => User!Allowed(q)
        BY <2>2, <4>2 DEF User!Allowed
      <4>4. QED
        BY <1>0, <2>1, <3>1, <4>3 DEF User!Available, UserShape
    <3>2. \A q \in Procs : userPc[q] = "wake" => userPc'[q] = "wake"
      BY <1>0, <1>2, <2>1 DEF User!OpenGranted, UserShape
    <3>3. QED
      BY <1>0, <3>1, <3>2 DEF SleepersNotForgotten, User!SleepersNotForgotten
  <2>9. QED
    BY <2>4, <2>5, <2>6, <2>7, <2>8 DEF UserIInv
<1>3. ASSUME NEW p \in Procs, User!OpenDenied(p) PROVE UserIInv'
  <2>1. CASE User!Goto(p, "closed")
    BY <1>3, <2>1, StaysOutside DEF User!OpenDenied, User!Goto, UserControl, User!Holds
  <2>2. CASE Waits /\ User!Goto(p, "check")
    BY <1>3, <2>2, StaysOutside DEF User!OpenDenied, User!Goto, UserControl, User!Holds
  <2>3. QED
    BY <1>3, <2>1, <2>2 DEF User!OpenDenied
<1>4. ASSUME NEW p \in Procs, User!Check(p) PROVE UserIInv'
  <2>1. Waits
    BY <1>0, <1>4 DEF User!Check, NoQueue
  <2>2. CASE User!Available(p)
    BY <1>4, <2>2, StaysOutside DEF User!Check, User!Goto, UserControl, User!Holds
  <2>3. CASE ~User!Available(p)
    BY <1>4, <2>1, <2>3, StaysOutside DEF User!Check, User!Goto, UserControl, User!Holds
  <2>4. QED
    BY <2>2, <2>3
<1>5. ASSUME NEW p \in Procs, User!Interrupted(p) PROVE UserIInv'
  BY <1>5, StaysOutside DEF User!Interrupted, User!Goto, UserControl, User!Holds
<1>6. ASSUME NEW p \in Procs, User!TrimDone(p) PROVE UserIInv'
  BY <1>6, StaysOutside DEF User!TrimDone, User!Goto, UserControl, User!Holds
<1>7. ASSUME NEW p \in Procs, User!Enter(p) PROVE UserIInv'
  BY <1>7, StaysOutside DEF User!Enter, User!Goto, UserControl, User!Holds
<1>8. ASSUME NEW p \in Procs, User!Leave(p) PROVE UserIInv'
  BY <1>8, StaysOutside DEF User!Leave, User!Goto, UserControl, User!Holds
<1>9. ASSUME NEW p \in Procs, User!Release(p) PROVE UserIInv'
  <2> DEFINE next == IF Waits /\ count' = 0 THEN "wake" ELSE "closed"
  <2>1. /\ userPc[p] = "open" /\ count' = count - 1 /\ owner' = owner
        /\ userPc' = [userPc EXCEPT ![p] = next]
    BY <1>9 DEF User!Release, User!Goto
  <2>2. User!Holders' = User!Holders \ {p} /\ Cardinality(User!Holders') = Cardinality(User!Holders) - 1
    BY <1>0, <2>1, UserGoesOut DEF User!Holds
  <2>3. UserShape'
    BY <1>0, <2>1 DEF UserShape, UserControl
  <2>4. NoQueue'
    BY <1>0, <2>1 DEF NoQueue, UserShape
  <2>5. Counted'
    BY <1>0, <2>1, <2>2, HoldersFinite DEF Counted
  <2>6. \A q \in Procs : User!Allowed(q)' = User!Allowed(q)
    BY <2>1 DEF User!Allowed
  <2>7. HoldersAllowed'
    BY <1>0, <2>2, <2>6 DEF HoldersAllowed, User!HoldersAllowed, User!Holders
  <2>8. SleepersNotForgotten'
    <3>1. CASE Waits /\ count' = 0
      <4>1. userPc'[p] = "wake"
        BY <1>0, <2>1, <3>1 DEF UserShape
      <4>2. QED
        BY <4>1 DEF SleepersNotForgotten, User!SleepersNotForgotten
    <3>2. CASE ~Waits
      <4>1. \A q \in Procs : userPc'[q] # "asleep"
        BY <2>4, <3>2 DEF NoQueue
      <4>2. QED
        BY <4>1 DEF SleepersNotForgotten, User!SleepersNotForgotten
    <3>3. CASE Waits /\ count' # 0
      <4>1. \A q \in Procs : User!Available(q)' => User!Available(q)
        BY <2>6, <3>3 DEF User!Available
      <4>2. \A q \in Procs : (userPc'[q] = "asleep" => userPc[q] = "asleep") /\ (userPc[q] = "wake" => userPc'[q] = "wake")
        BY <1>0, <2>1 DEF UserShape
      <4>3. QED
        BY <1>0, <4>1, <4>2 DEF SleepersNotForgotten, User!SleepersNotForgotten
    <3>4. QED
      BY <3>1, <3>2, <3>3
  <2>9. QED
    BY <2>3, <2>4, <2>5, <2>7, <2>8 DEF UserIInv
<1>10. ASSUME NEW p \in Procs, User!Wake(p) PROVE UserIInv'
  <2>1. /\ userPc[p] = "wake" /\ count' = count /\ owner' = owner
        /\ userPc' = [q \in Procs |-> IF q = p THEN "closed" ELSE User!Wakes(q)]
    BY <1>10 DEF User!Wake
  <2>2. \A q \in Procs : /\ User!Wakes(q) = IF userPc[q] = "asleep" THEN "check" ELSE userPc[q]
                         /\ User!Wakes(q) \in UserControl \ {"asleep"}
    BY <1>0 DEF User!Wakes, UserShape, UserControl
  <2>3. UserShape'
    BY <1>0, <2>1, <2>2 DEF UserShape, UserControl
  <2>4. NoQueue'
    BY <1>0, <2>1, <2>2 DEF NoQueue
  <2>5. User!Holders' = User!Holders
    BY <2>1, <2>2 DEF User!Holders, User!Holds
  <2>6. Counted'
    BY <1>0, <2>1, <2>5 DEF Counted
  <2>7. HoldersAllowed'
    BY <1>0, <2>1, <2>5 DEF HoldersAllowed, User!HoldersAllowed, User!Allowed
  <2>8. SleepersNotForgotten'
    <3>1. \A q \in Procs : userPc'[q] # "asleep"
      BY <2>1, <2>2
    <3>2. QED
      BY <3>1 DEF SleepersNotForgotten, User!SleepersNotForgotten
  <2>9. QED
    BY <2>3, <2>4, <2>6, <2>7, <2>8 DEF UserIInv
<1>11. CASE UNCHANGED User!vars
  BY <1>0, <1>11 DEF User!vars, UserIInv, UserShape, NoQueue, Counted, HoldersAllowed, User!HoldersAllowed, SleepersNotForgotten, User!SleepersNotForgotten,
     User!Holders, User!Holds, User!Allowed, User!Available
<1>12. CASE User!Next
  BY <1>1, <1>2, <1>3, <1>4, <1>5, <1>6, <1>7, <1>8, <1>9, <1>10, <1>12 DEF User!Next
<1>13. CASE UNCHANGED userVars
  BY <1>11, <1>13 DEF userVars, User!vars
<1>14. QED
  BY <1>12, <1>13 DEF AccessNext

\* The inductive invariant holds at every step of sculluid and of scullwuid.
THEOREM UserInvariant ==
    AccessSpec => []UserIInv
<1>1. AccessInit => UserIInv
  BY UserInitIInv DEF AccessInit
<1>2. UserIInv /\ [AccessNext]_<<vars, userVars>> => UserIInv'
  BY UserNextIInv
<1>3. QED
  BY <1>1, <1>2, PTL DEF AccessSpec

\* Whoever has the device open is its owner, did su to the owner, or is root,
\* for any number of processes and users (scull_u_open, scull_w_available).
THEOREM HoldersAllowedHolds ==
    AccessSpec => []HoldersAllowed
<1>1. UserIInv => HoldersAllowed
  BY DEF UserIInv
<1>2. QED
  BY UserInvariant, <1>1, PTL

\* User!Nobody sleeps in scull_w_open while it could have the device, unless
\* scull_w_release is about to wake it.
THEOREM SleepersNotForgottenHolds ==
    AccessSpec => []SleepersNotForgotten
<1>1. UserIInv => SleepersNotForgotten
  BY DEF UserIInv
<1>2. QED
  BY UserInvariant, <1>1, PTL

=============================================================================
