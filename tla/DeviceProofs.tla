---------------------------- MODULE DeviceProofs ----------------------------
(***************************************************************************)
(* What the run of MCDevices checks of globalfifo, scull_kfifo and ctest,  *)
(* for any tasks, bytes and sizes: nobody sleeps through what he waits     *)
(* for, bytes leave in order, and a call that moves nothing has a reason;  *)
(* of scull, for any geometries: its quanta are one file, until a call     *)
(* uses a geometry that was replaced; and of the scullp family, for any    *)
(* geometries, pages and mappings: a page is counted as often as somebody  *)
(* has it, and a mapping shows the device.  Each driver has an invariant   *)
(* of its own, which only its own steps change.  The three FIFOs come      *)
(* first, with a part that puts them together, then scull, then the        *)
(* scullp family.                                                          *)
(***************************************************************************)
EXTENDS MCDevices, SequenceTheorems, FiniteSetTheorems, TLAPS

-----------------------------------------------------------------------------
(* Sequences and minima.                                                   *)

\* The lesser of two numbers.
LEMMA MinOfTwo ==
    ASSUME NEW a \in Int, NEW b \in Int
    PROVE  Min({a, b}) = IF a <= b THEN a ELSE b
<1> DEFINE m == IF a <= b THEN a ELSE b
<1>1. m \in {a, b} /\ \A y \in {a, b} : m <= y
  OBVIOUS
<1>2. \A x \in {a, b} : (\A y \in {a, b} : x <= y) => x = m
  OBVIOUS
<1>3. QED
  BY <1>1, <1>2 DEF Min

LEMMA MinOfThree ==
    ASSUME NEW a \in Int, NEW b \in Int, NEW c \in Int
    PROVE  /\ Min({a, b, c}) \in {a, b, c}
           /\ Min({a, b, c}) <= a /\ Min({a, b, c}) <= b /\ Min({a, b, c}) <= c
<1> DEFINE m == IF a <= b /\ a <= c THEN a ELSE IF b <= c THEN b ELSE c
<1>1. m \in {a, b, c} /\ \A y \in {a, b, c} : m <= y
  OBVIOUS
<1>2. QED
  BY <1>1 DEF Min

\* Nothing taken from a sequence and nothing added to it.
LEMMA PrefixOfItself ==
    ASSUME NEW S, NEW s \in Seq(S)
    PROVE  IsPrefix(s, s)
BY DEF IsPrefix

LEMMA PrefixOfConcat ==
    ASSUME NEW S, NEW s \in Seq(S), NEW t \in Seq(S)
    PROVE  IsPrefix(s, s \o t)
<1>1. /\ s \o t \in Seq(S) /\ Len(s \o t) = Len(s) + Len(t)
      /\ \A i \in 1 .. Len(s) : (s \o t)[i] = s[i]
  BY ConcatProperties
<1>2. SubSeq(s, 1, Len(s)) = SubSeq(s \o t, 1, Len(s))
  BY <1>1
<1>3. QED
  BY <1>1, <1>2 DEF IsPrefix

\* What is left when the first n are taken away is a suffix.
LEMMA SuffixWhenTaken ==
    ASSUME NEW S, NEW s \in Seq(S), NEW n \in 0 .. Len(s), NEW t \in Seq(S),
           Len(t) = Len(s) - n, \A i \in 1 .. Len(t) : t[i] = s[i + n]
    PROVE  IsSuffix(t, s)
<1>1. /\ Reverse(s) \in Seq(S) /\ Len(Reverse(s)) = Len(s)
      /\ Reverse(t) \in Seq(S) /\ Len(Reverse(t)) = Len(t)
  BY DEF Reverse
<1>2. ASSUME NEW i \in 1 .. Len(t) PROVE Reverse(t)[i] = Reverse(s)[i]
  <2>1. /\ Reverse(t)[i] = t[Len(t) - i + 1] /\ Reverse(s)[i] = s[Len(s) - i + 1]
        /\ Len(t) - i + 1 \in 1 .. Len(t)
    BY DEF Reverse
  <2>2. t[Len(t) - i + 1] = s[Len(t) - i + 1 + n]
    BY <2>1
  <2>3. QED
    BY <2>1, <2>2
<1>3. SubSeq(Reverse(t), 1, Len(t)) = SubSeq(Reverse(s), 1, Len(t))
  BY <1>1, <1>2
<1>4. QED
  BY <1>1, <1>3 DEF IsSuffix, IsPrefix

-----------------------------------------------------------------------------
(* globalfifo.                                                             *)

\* A wait list's lock has one owner, which the semaphore does not see to:
\* r_wait is only worked on under the semaphore, w_wait also outside it.
GfLocks ==
    \A t, u \in GfTasks :
        t # u => /\ ~(gfPc[t] \in LockR /\ gfPc[u] \in LockR)
                 /\ ~(gfPc[t] \in LockW /\ gfPc[u] \in LockW)

\* Whoever will read, having been woken or having looked, finds something or
\* has been robbed, or woken by a write of 0 bytes.
GfRobbed ==
    /\ woken \subseteq {t \in GfTasks : gfPc[t] \in {"rsleep", "wsleep"}}
    /\ \A t \in GfTasks :
          gfPc[t] \in {"ragain", "rcopy"} \/ (t \in woken /\ gfPc[t] = "rsleep")
                => mem # <<>> \/ t \in excused

GfInv == GfTypeOK /\ GfLocks /\ GfSleepersNotForgotten /\ GfRobbed

LEMMA GfInitially == GfInit => GfInv
<1> SUFFICES ASSUME GfInit PROVE GfInv
  OBVIOUS
<1> USE GfAssumption DEF GfInit, Unlocked
<1>1. GfTypeOK
  BY DEF GfTypeOK, Held
<1>2. GfLocks
  BY DEF GfLocks, LockR, LockW
<1>3. GfSleepersNotForgotten /\ GfRobbed
  BY DEF GfSleepersNotForgotten, GfRobbed
<1>4. QED
  BY <1>1, <1>2, <1>3 DEF GfInv

\* What reading and writing leave.
LEMMA GfReadLeaves ==
    ASSUME GfTypeOK, NEW n \in Nat
    PROVE  /\ Readable(n) \in 0 .. Len(mem)
           /\ Readable(n) = 0 <=> mem = <<>> \/ n = 0
           /\ Moved(Readable(n)) \in Seq(GfBytes)
           /\ Len(Moved(Readable(n))) = Len(mem) - Readable(n)
           /\ \A i \in 1 .. Len(Moved(Readable(n))) :
                 Moved(Readable(n))[i] = mem[i + Readable(n)]
<1>1. mem \in Seq(GfBytes) /\ Len(mem) \in Nat /\ (Len(mem) = 0 <=> mem = <<>>)
  BY EmptySeq DEF GfTypeOK
<1>2. Readable(n) \in 0 .. Len(mem) /\ (Readable(n) = 0 <=> mem = <<>> \/ n = 0)
  BY <1>1 DEF Readable
<1>3. QED
  BY SMTT(30), <1>1, <1>2 DEF Moved

LEMMA GfWriteLeaves ==
    ASSUME GfTypeOK, NEW m \in Messages
    PROVE  LET new == SubSeq(m, 1, Writable(Len(m)))
           IN /\ new \in Seq(GfBytes)
              /\ mem \o new \in Seq(GfBytes)
              /\ Len(mem \o new) <= GfSize
              /\ Len(mem) = GfSize => mem \o new = mem
              /\ mem # <<>> => mem \o new # <<>>
<1> USE GfAssumption
<1>1. m \in Seq(GfBytes) /\ Len(m) \in Nat
  <2>1. CASE \E b \in GfBytes : m = <<b>>
    BY <2>1
  <2>2. CASE \E b, c \in GfBytes : m = <<b, c>>
    BY <2>2
  <2>3. CASE m = <<>>
    BY <2>3
  <2>4. QED
    BY <2>1, <2>2, <2>3 DEF Messages
<1>2. mem \in Seq(GfBytes) /\ Len(mem) \in Nat /\ Len(mem) <= GfSize /\ GfSize \in Nat \ {0}
  BY DEF GfTypeOK
<1>3. /\ Writable(Len(m)) \in 0 .. Len(m)
      /\ Len(mem) + Writable(Len(m)) <= GfSize
      /\ Len(mem) = GfSize => Writable(Len(m)) = 0
  <2>1. Len(m) \in Nat /\ GfSize > 0
    BY <1>1
  <2>2. Writable(Len(m)) = IF Len(m) > GfSize - Len(mem) THEN GfSize - Len(mem) ELSE Len(m)
    BY DEF Writable
  <2>3. QED
    BY <1>2, <2>1, <2>2
<1> DEFINE new == SubSeq(m, 1, Writable(Len(m)))
<1>4. new \in Seq(GfBytes) /\ Len(new) = Writable(Len(m))
  BY <1>1, <1>3
<1> HIDE DEF new
<1>5. mem \o new \in Seq(GfBytes) /\ Len(mem \o new) = Len(mem) + Len(new)
  BY <1>2, <1>4, ConcatProperties
<1>6. mem # <<>> => mem \o new # <<>>
  BY <1>2, <1>3, <1>4, <1>5, EmptySeq
<1>7. ASSUME Len(mem) = GfSize PROVE mem \o new = mem
  <2>1. Len(new) = 0
    BY <1>3, <1>4, <1>7
  <2>2. new = <<>>
    BY <1>4, <2>1, EmptySeq
  <2>3. QED
    BY <1>2, <2>2
<1>8. QED
  BY <1>2, <1>3, <1>4, <1>5, <1>6, <1>7 DEF new

\* Every step keeps the invariant: under each action, the four parts of it.
LEMMA GfStep ==
    ASSUME GfInv, [GfNext]_gfVars
    PROVE  GfInv'
<1> USE GfAssumption DEF Move, Take, Give, Quiet
<1>1. ASSUME NEW t \in GfTasks, GfStart(t) PROVE GfInv'
  <2>1. GfTypeOK'
    BY <1>1 DEF GfInv, GfStart, GfTypeOK, Held
  <2>2. GfLocks'
    BY <1>1 DEF GfInv, GfStart, GfTypeOK, GfLocks, LockR, LockW
  <2>3. GfSleepersNotForgotten'
    BY <1>1 DEF GfInv, GfStart, GfTypeOK, GfSleepersNotForgotten
  <2>4. GfRobbed'
    BY <1>1 DEF GfInv, GfStart, GfTypeOK, GfRobbed, Held
  <2>5. QED
    BY <2>1, <2>2, <2>3, <2>4 DEF GfInv
<1>2. ASSUME NEW t \in GfTasks, GfDown(t) PROVE GfInv'
  <2>1. GfTypeOK'
    BY <1>2 DEF GfInv, GfDown, GfTypeOK, Held
  <2>2. GfLocks'
    BY <1>2 DEF GfInv, GfDown, GfTypeOK, GfLocks, LockR, LockW
  <2>3. GfSleepersNotForgotten'
    BY <1>2 DEF GfInv, GfDown, GfTypeOK, GfSleepersNotForgotten
  <2>4. GfRobbed'
    BY <1>2 DEF GfInv, GfDown, GfTypeOK, GfRobbed, Held
  <2>5. QED
    BY <2>1, <2>2, <2>3, <2>4 DEF GfInv
<1>3. ASSUME NEW t \in GfTasks, GfJoined(t) PROVE GfInv'
  <2>1. GfTypeOK'
    BY <1>3 DEF GfInv, GfJoined, GfTypeOK, Held
  <2>2. GfLocks'
    BY <1>3 DEF GfInv, GfJoined, GfTypeOK, GfLocks, LockR, LockW
  <2>3. GfSleepersNotForgotten'
    BY <1>3 DEF GfInv, GfJoined, GfTypeOK, GfSleepersNotForgotten
  <2>4. GfRobbed'
    BY <1>3 DEF GfInv, GfJoined, GfTypeOK, GfRobbed, Held
  <2>5. QED
    BY <2>1, <2>2, <2>3, <2>4 DEF GfInv
<1>4. ASSUME NEW t \in GfTasks, GfRuns(t) PROVE GfInv'
  <2>1. GfTypeOK'
    BY <1>4 DEF GfInv, GfRuns, GfTypeOK, Held
  <2>2. GfLocks'
    BY <1>4 DEF GfInv, GfRuns, GfTypeOK, GfLocks, LockR, LockW
  <2>3. GfSleepersNotForgotten'
    BY <1>4 DEF GfInv, GfRuns, GfTypeOK, GfSleepersNotForgotten
  <2>4. GfRobbed'
    BY <1>4 DEF GfInv, GfRuns, GfTypeOK, GfRobbed, Held
  <2>5. QED
    BY <2>1, <2>2, <2>3, <2>4 DEF GfInv
<1>5. ASSUME NEW t \in GfTasks, GfAgain(t) PROVE GfInv'
  <2>1. GfTypeOK'
    BY <1>5 DEF GfInv, GfAgain, GfTypeOK, Held
  <2>2. GfLocks'
    BY <1>5 DEF GfInv, GfAgain, GfTypeOK, GfLocks, LockR, LockW
  <2>3. GfSleepersNotForgotten'
    BY <1>5 DEF GfInv, GfAgain, GfTypeOK, GfSleepersNotForgotten
  <2>4. GfRobbed'
    BY <1>5 DEF GfInv, GfAgain, GfTypeOK, GfRobbed, Held
  <2>5. QED
    BY <2>1, <2>2, <2>3, <2>4 DEF GfInv
<1>6. ASSUME NEW t \in GfTasks, GfFault(t) PROVE GfInv'
  <2>1. GfTypeOK'
    BY <1>6 DEF GfInv, GfFault, GfTypeOK, Held
  <2>2. GfLocks'
    BY <1>6 DEF GfInv, GfFault, GfTypeOK, GfLocks, LockR, LockW
  <2>3. GfSleepersNotForgotten'
    BY <1>6 DEF GfInv, GfFault, GfTypeOK, GfSleepersNotForgotten
  <2>4. GfRobbed'
    BY <1>6 DEF GfInv, GfFault, GfTypeOK, GfRobbed, Held
  <2>5. QED
    BY <2>1, <2>2, <2>3, <2>4 DEF GfInv
<1>7. ASSUME NEW t \in GfTasks, GfWake(t) PROVE GfInv'
  <2>1. GfTypeOK'
    BY <1>7 DEF GfInv, GfWake, GfTypeOK, Held, Wakes
  <2>2. GfLocks'
    BY <1>7 DEF GfInv, GfWake, GfTypeOK, GfLocks, LockR, LockW, Wakes
  <2>3. GfSleepersNotForgotten'
    BY <1>7 DEF GfInv, GfWake, GfTypeOK, GfSleepersNotForgotten, Wakes
  <2>4. GfRobbed'
    BY <1>7 DEF GfInv, GfWake, GfTypeOK, GfRobbed, Held, Wakes
  <2>5. QED
    BY <2>1, <2>2, <2>3, <2>4 DEF GfInv
<1>8. ASSUME NEW t \in GfTasks, GfLeave(t) PROVE GfInv'
  <2>1. GfTypeOK'
    BY <1>8 DEF GfInv, GfLeave, GfTypeOK, Held
  <2>2. GfLocks'
    BY <1>8 DEF GfInv, GfLeave, GfTypeOK, GfLocks, LockR, LockW
  <2>3. GfSleepersNotForgotten'
    BY <1>8 DEF GfInv, GfLeave, GfTypeOK, GfSleepersNotForgotten
  <2>4. GfRobbed'
    BY <1>8 DEF GfInv, GfLeave, GfTypeOK, GfRobbed, Held
  <2>5. QED
    BY <2>1, <2>2, <2>3, <2>4 DEF GfInv
<1>9. ASSUME NEW t \in GfTasks, GfClear(t) PROVE GfInv'
  <2>1. GfTypeOK'
    BY <1>9 DEF GfInv, GfClear, GfTypeOK, Held, Gone
  <2>2. GfLocks'
    BY <1>9 DEF GfInv, GfClear, GfTypeOK, GfLocks, LockR, LockW, Gone
  <2>3. GfSleepersNotForgotten'
    BY <1>9 DEF GfInv, GfClear, GfTypeOK, GfSleepersNotForgotten, Gone
  <2>4. GfRobbed'
    BY <1>9 DEF GfInv, GfClear, GfTypeOK, GfRobbed, Held, Gone
  <2>5. QED
    BY <2>1, <2>2, <2>3, <2>4 DEF GfInv
<1>10. ASSUME NEW t \in GfTasks, NEW n \in 0 .. GfSize, GfRead(t, n) PROVE GfInv'
  <2>0. /\ mem' = Moved(Readable(n)) /\ mem' \in Seq(GfBytes) /\ Len(mem') <= Len(mem)
        /\ mem = <<>> => mem' = <<>>
    <3>1. n \in Nat /\ GfTypeOK
      BY DEF GfInv
    <3>2. mem' = Moved(Readable(n)) /\ mem' \in Seq(GfBytes) /\ Len(mem') <= Len(mem)
      BY SMTT(30), <1>10, <3>1, GfReadLeaves DEF GfRead, GfTypeOK
    <3>3. ASSUME mem = <<>> PROVE mem' = <<>>
      BY <3>2, <3>3, EmptySeq
    <3>4. QED
      BY <3>2, <3>3
  <2>1. GfTypeOK'
    BY <1>10, <2>0 DEF GfInv, GfRead, GfTypeOK, Held
  <2>2. GfLocks'
    BY <1>10 DEF GfInv, GfRead, GfTypeOK, GfLocks, LockR, LockW
  <2>3. GfSleepersNotForgotten'
    BY <1>10, <2>0 DEF GfInv, GfRead, GfTypeOK, GfSleepersNotForgotten
  <2>4. GfRobbed'
    BY <1>10 DEF GfInv, GfRead, GfTypeOK, GfRobbed, Gone, Held
  <2>5. QED
    BY <2>1, <2>2, <2>3, <2>4 DEF GfInv
<1>11. ASSUME NEW t \in GfTasks, NEW m \in Messages, GfWrite(t, m) PROVE GfInv'
  <2>0. /\ mem' \in Seq(GfBytes) /\ Len(mem') <= GfSize
        /\ mem # <<>> => mem' # <<>>
        /\ Len(mem) = GfSize => mem' = mem
    BY <1>11, GfWriteLeaves DEF GfWrite, GfInv
  <2>1. GfTypeOK'
    BY <1>11, <2>0 DEF GfInv, GfWrite, GfTypeOK, Held
  <2>2. GfLocks'
    BY <1>11 DEF GfInv, GfWrite, GfTypeOK, GfLocks, LockR, LockW
  <2>3. GfSleepersNotForgotten'
    BY <1>11, <2>0 DEF GfInv, GfWrite, GfTypeOK, GfSleepersNotForgotten
  <2>4. GfRobbed'
    BY <1>11, <2>0 DEF GfInv, GfWrite, GfTypeOK, GfRobbed, Held
  <2>5. QED
    BY <2>1, <2>2, <2>3, <2>4 DEF GfInv
<1>12. CASE UNCHANGED gfVars
  BY <1>12 DEF gfVars, GfInv, GfTypeOK, GfLocks, GfSleepersNotForgotten, GfRobbed
<1>13. QED
  BY <1>1, <1>2, <1>3, <1>4, <1>5, <1>6, <1>7, <1>8, <1>9, <1>10, <1>11, <1>12 DEF GfNext, GfTask

\* A step adds at the end, takes from the head, or clears.
LEMMA GfOrder ==
    ASSUME GfInv, [GfNext]_gfVars
    PROVE  GfStepInOrder
<1>0. GfTypeOK /\ mem \in Seq(GfBytes)
  BY DEF GfInv, GfTypeOK
<1>1. CASE mem' = mem
  BY <1>0, <1>1, PrefixOfItself DEF GfStepInOrder
<1>2. ASSUME NEW t \in GfTasks, NEW n \in 0 .. GfSize, GfRead(t, n) PROVE GfStepInOrder
  <2>1. n \in Nat /\ mem' = Moved(Readable(n)) /\ gfPc[t] = "rcopy" /\ gfPc'[t] = "rwake"
    BY <1>0, <1>2, GfAssumption DEF GfRead, GfTypeOK, Move
  <2>2. IsSuffix(mem', mem)
    BY <1>0, <2>1, GfReadLeaves, SuffixWhenTaken
  <2>3. QED
    BY <2>1, <2>2 DEF GfStepInOrder
<1>3. ASSUME NEW t \in GfTasks, NEW m \in Messages, GfWrite(t, m) PROVE GfStepInOrder
  <2> DEFINE new == SubSeq(m, 1, Writable(Len(m)))
  <2>1. mem' = mem \o new /\ new \in Seq(GfBytes)
    BY <1>0, <1>3, GfWriteLeaves DEF GfWrite
  <2> HIDE DEF new
  <2>2. IsPrefix(mem, mem')
    BY <1>0, <2>1, PrefixOfConcat
  <2>3. QED
    BY <2>2 DEF GfStepInOrder
<1>4. ASSUME NEW t \in GfTasks, GfClear(t) PROVE GfStepInOrder
  BY <1>4 DEF GfStepInOrder
<1>5. QED
  BY <1>1, <1>2, <1>3, <1>4
     DEF GfNext, GfTask, GfStart, GfDown, GfJoined, GfRuns, GfAgain, GfFault, GfWake, GfLeave, gfVars

\* Only a read sets nothing, and only a robbed reader finds nothing.
LEMMA GfNothing ==
    ASSUME GfInv, GfNext
    PROVE  GfEmptyReadExplained
<1>0. GfTypeOK /\ GfRobbed
  BY DEF GfInv
<1>1. CASE nothing' = FALSE
  BY <1>1 DEF GfEmptyReadExplained
<1>2. ASSUME NEW t \in GfTasks, NEW n \in 0 .. GfSize, GfRead(t, n) PROVE GfEmptyReadExplained
  <2>1. /\ n \in Nat /\ gfPc[t] = "rcopy" /\ gfPc'[t] = "rwake"
        /\ nothing' = (n > 0 /\ Readable(n) = 0)
    BY <1>0, <1>2, GfAssumption DEF GfRead, GfTypeOK, Move
  <2>2. n > 0 /\ Readable(n) = 0 => mem = <<>>
    BY <1>0, <2>1, GfReadLeaves
  <2>3. mem = <<>> => t \in excused
    BY <1>0, <2>1 DEF GfRobbed
  <2>4. QED
    BY <2>1, <2>2, <2>3 DEF GfEmptyReadExplained
<1>3. QED
  BY <1>1, <1>2
     DEF GfNext, GfTask, GfStart, GfDown, GfJoined, GfRuns, GfAgain, GfWrite, GfFault, GfWake,
         GfLeave, GfClear

\* The lists are worked on by one task at a time, readers that leave apart.
LEMMA GfAlone == GfInv => GfListsAlone
BY DEF GfInv, GfTypeOK, GfLocks, GfListsAlone, ListR, ListW, LockR, LockW, Held

-----------------------------------------------------------------------------
(* scull_kfifo.                                                            *)

\* The bounce buffer is empty unless its owner is copying, and who is about
\* to get has seen something, unless a reset came in between.
KfBounce ==
    /\ bounce # <<>> => \E t \in KfTasks : kfPc[t] = "rcopy"
    /\ \A t \in KfTasks : kfPc[t] = "rget" => kfifo # <<>> \/ kfHit

KfInv == KfTypeOK /\ KfSleepersNotForgotten /\ KfBounce

LEMMA KfInitially == KfInit => KfInv
BY KfAssumption DEF KfInit, KfInv, KfTypeOK, KfSleepersNotForgotten, KfBounce, KfHeld, KfSleepers

\* What a get moves, and what a put stores.
LEMMA KfGetMoves ==
    ASSUME KfTypeOK, NEW n \in Nat \ {0}
    PROVE  LET k == Available(n)
               out == SubSeq(kfifo, 1, k)
               left == SubSeq(kfifo, k + 1, Len(kfifo))
           IN /\ k \in 0 .. Len(kfifo)
              /\ out \in Seq(KfBytes) /\ Len(out) = k
              /\ left \in Seq(KfBytes) /\ Len(left) = Len(kfifo) - k
              /\ kfifo # <<>> => out # <<>>
              /\ kfifo = <<>> => left = <<>>
              /\ kfifo = out \o left
<1>1. kfifo \in Seq(KfBytes) /\ Len(kfifo) \in Nat
  BY DEF KfTypeOK
<1>2. /\ Available(n) \in 0 .. Len(kfifo)
      /\ Available(n) = 0 => Len(kfifo) = 0
  BY <1>1, MinOfTwo DEF Available
<1>3. kfifo # <<>> => Len(kfifo) # 0
  BY <1>1, EmptySeq
<1> DEFINE k == Available(n)
           out == SubSeq(kfifo, 1, k)
           left == SubSeq(kfifo, k + 1, Len(kfifo))
<1> HIDE DEF k
<1>4. k \in 0 .. Len(kfifo) /\ (k = 0 => Len(kfifo) = 0)
  BY <1>2 DEF k
<1>5. out \in Seq(KfBytes) /\ Len(out) = k /\ \A i \in 1 .. k : out[i] = kfifo[i]
  BY <1>1, <1>4
<1>6. /\ left \in Seq(KfBytes) /\ Len(left) = Len(kfifo) - k
      /\ \A i \in 1 .. Len(left) : left[i] = kfifo[i + k]
  BY <1>1, <1>4
<1>7. kfifo # <<>> => out # <<>>
  BY <1>3, <1>4, <1>5
<1>8. kfifo = <<>> => left = <<>>
  <2>1. kfifo = <<>> => Len(left) = 0
    BY <1>4, <1>6
  <2>2. QED
    BY <1>6, <2>1, EmptySeq
<1> HIDE DEF out, left
<1>9. /\ out \o left \in Seq(KfBytes) /\ Len(out \o left) = Len(kfifo)
      /\ \A i \in 1 .. Len(kfifo) : (out \o left)[i] = IF i <= k THEN out[i] ELSE left[i - k]
  BY SMTT(30), <1>1, <1>4, <1>5, <1>6, ConcatProperties
<1>10. \A i \in 1 .. Len(kfifo) : (out \o left)[i] = kfifo[i]
  BY <1>1, <1>4, <1>5, <1>6, <1>9
<1>11. kfifo = out \o left
  BY <1>1, <1>9, <1>10, SeqEqual
<1>12. QED
  BY <1>4, <1>5, <1>6, <1>7, <1>8, <1>11 DEF k, out, left

LEMMA KfPutStores ==
    ASSUME KfTypeOK, NEW m \in KfMessages
    PROVE  /\ Room(m) \in Seq(KfBytes)
           /\ kfifo \o Room(m) \in Seq(KfBytes)
           /\ Len(kfifo \o Room(m)) <= KfSize
           /\ kfifo # <<>> => kfifo \o Room(m) # <<>>
<1> USE KfAssumption
<1>1. m \in Seq(KfBytes) /\ Len(m) \in Nat
  <2>1. CASE \E b \in KfBytes : m = <<b>>
    BY <2>1
  <2>2. CASE \E b, c \in KfBytes : m = <<b, c>>
    BY <2>2
  <2>3. CASE m = <<>>
    BY <2>3
  <2>4. QED
    BY <2>1, <2>2, <2>3 DEF KfMessages
<1>2. kfifo \in Seq(KfBytes) /\ Len(kfifo) \in Nat /\ Len(kfifo) <= KfSize /\ KfSize \in Nat
  BY DEF KfTypeOK
<1> DEFINE n == Min({Len(m), KfSize - Len(kfifo)})
<1>3. n \in 0 .. Len(m) /\ Len(kfifo) + n <= KfSize
  BY SMTT(30), <1>1, <1>2, MinOfTwo
<1> HIDE DEF n
<1>4. Room(m) = [i \in 1 .. n |-> m[i]]
  BY DEF Room, n
<1>5. Room(m) \in Seq(KfBytes) /\ Len(Room(m)) = n
  BY <1>1, <1>3, <1>4
<1>6. /\ kfifo \o Room(m) \in Seq(KfBytes)
      /\ Len(kfifo \o Room(m)) = Len(kfifo) + n
  BY <1>2, <1>5, ConcatProperties
<1>7. kfifo # <<>> => kfifo \o Room(m) # <<>>
  BY <1>2, <1>3, <1>6, EmptySeq
<1>8. QED
  BY <1>2, <1>3, <1>5, <1>6, <1>7

LEMMA KfStep ==
    ASSUME KfInv, [KfNext]_kfVars
    PROVE  KfInv'
<1> USE KfAssumption DEF KfGo, KfHeld
<1>1. ASSUME NEW t \in KfTasks, KfStart(t) PROVE KfInv'
  <2>1. KfTypeOK'
    BY <1>1 DEF KfInv, KfStart, KfTypeOK
  <2>2. KfSleepersNotForgotten'
    BY <1>1 DEF KfInv, KfStart, KfTypeOK, KfSleepersNotForgotten, KfSleepers
  <2>3. KfBounce'
    BY <1>1 DEF KfInv, KfStart, KfTypeOK, KfBounce
  <2>4. QED
    BY <2>1, <2>2, <2>3 DEF KfInv
<1>2. ASSUME NEW t \in KfTasks, KfDown(t) PROVE KfInv'
  <2>1. KfTypeOK'
    BY <1>2 DEF KfInv, KfDown, KfTypeOK
  <2>2. KfSleepersNotForgotten'
    BY <1>2 DEF KfInv, KfDown, KfTypeOK, KfSleepersNotForgotten, KfSleepers
  <2>3. KfBounce'
    BY <1>2 DEF KfInv, KfDown, KfTypeOK, KfBounce
  <2>4. QED
    BY <2>1, <2>2, <2>3 DEF KfInv
<1>3. ASSUME NEW t \in KfTasks, KfEmpty(t) PROVE KfInv'
  <2>1. KfTypeOK'
    BY <1>3 DEF KfInv, KfEmpty, KfTypeOK
  <2>2. KfSleepersNotForgotten'
    BY <1>3 DEF KfInv, KfEmpty, KfTypeOK, KfSleepersNotForgotten, KfSleepers
  <2>3. KfBounce'
    BY <1>3 DEF KfInv, KfEmpty, KfTypeOK, KfBounce
  <2>4. QED
    BY <2>1, <2>2, <2>3 DEF KfInv
<1>4. ASSUME NEW t \in KfTasks, KfWait(t) PROVE KfInv'
  <2>1. KfTypeOK'
    BY <1>4 DEF KfInv, KfWait, KfTypeOK
  <2>2. KfSleepersNotForgotten'
    BY <1>4 DEF KfInv, KfWait, KfTypeOK, KfSleepersNotForgotten, KfSleepers
  <2>3. KfBounce'
    BY <1>4 DEF KfInv, KfWait, KfTypeOK, KfBounce
  <2>4. QED
    BY <2>1, <2>2, <2>3 DEF KfInv
<1>5. ASSUME NEW t \in KfTasks, KfLook(t) PROVE KfInv'
  <2>1. KfTypeOK'
    BY <1>5 DEF KfInv, KfLook, KfTypeOK
  <2>2. KfSleepersNotForgotten'
    BY <1>5 DEF KfInv, KfLook, KfTypeOK, KfSleepersNotForgotten, KfSleepers
  <2>3. KfBounce'
    BY <1>5 DEF KfInv, KfLook, KfTypeOK, KfBounce
  <2>4. QED
    BY <2>1, <2>2, <2>3 DEF KfInv
<1>6. ASSUME NEW t \in KfTasks, KfCopied(t) PROVE KfInv'
  <2>1. KfTypeOK'
    BY <1>6 DEF KfInv, KfCopied, KfTypeOK
  <2>2. KfSleepersNotForgotten'
    BY <1>6 DEF KfInv, KfCopied, KfTypeOK, KfSleepersNotForgotten, KfSleepers
  <2>3. KfBounce'
    BY <1>6 DEF KfInv, KfCopied, KfTypeOK, KfBounce
  <2>4. QED
    BY <2>1, <2>2, <2>3 DEF KfInv
<1>7. ASSUME NEW t \in KfTasks, KfCopyFault(t) PROVE KfInv'
  <2>1. KfTypeOK'
    BY <1>7 DEF KfInv, KfCopyFault, KfTypeOK
  <2>2. KfSleepersNotForgotten'
    BY <1>7 DEF KfInv, KfCopyFault, KfTypeOK, KfSleepersNotForgotten, KfSleepers
  <2>3. KfBounce'
    BY <1>7 DEF KfInv, KfCopyFault, KfTypeOK, KfBounce
  <2>4. QED
    BY <2>1, <2>2, <2>3 DEF KfInv
<1>8. ASSUME NEW t \in KfTasks, KfWake(t) PROVE KfInv'
  <2>1. KfTypeOK'
    BY <1>8 DEF KfInv, KfWake, KfWakes, KfTypeOK
  <2>2. KfSleepersNotForgotten'
    BY <1>8 DEF KfInv, KfWake, KfWakes, KfTypeOK, KfSleepersNotForgotten, KfSleepers
  <2>3. KfBounce'
    BY <1>8 DEF KfInv, KfWake, KfWakes, KfTypeOK, KfBounce
  <2>4. QED
    BY <2>1, <2>2, <2>3 DEF KfInv
<1>9. ASSUME NEW t \in KfTasks, NEW n \in 1 .. KfSize, KfGet(t, n) PROVE KfInv'
  <2>0. /\ bounce' \in Seq(KfBytes) /\ Len(bounce') <= KfSize
        /\ kfifo' \in Seq(KfBytes) /\ Len(kfifo') <= KfSize
        /\ kfifo = <<>> => kfifo' = <<>>
        /\ kfSem' = kfSem
    <3>1. n \in Nat \ {0} /\ KfTypeOK
      BY DEF KfInv
    <3>2. /\ bounce' = SubSeq(kfifo, 1, Available(n))
          /\ kfifo' = SubSeq(kfifo, Available(n) + 1, Len(kfifo))
          /\ kfSem' = kfSem
      BY <1>9 DEF KfGet, DuringCopy
    <3>3. /\ Available(n) \in 0 .. Len(kfifo)
          /\ bounce' \in Seq(KfBytes) /\ Len(bounce') = Available(n)
          /\ kfifo' \in Seq(KfBytes) /\ Len(kfifo') = Len(kfifo) - Available(n)
          /\ kfifo = <<>> => kfifo' = <<>>
      BY <3>1, <3>2, KfGetMoves
    <3>4. Len(kfifo) \in Nat /\ Len(kfifo) <= KfSize /\ KfSize \in Nat
      BY <3>1 DEF KfTypeOK
    <3>5. Len(bounce') <= KfSize /\ Len(kfifo') <= KfSize
      <4> DEFINE k == Available(n)
      <4>1. k \in Int /\ 0 <= k /\ k <= Len(kfifo) /\ Len(bounce') = k /\ Len(kfifo') = Len(kfifo) - k
        BY <3>3, <3>4
      <4> HIDE DEF k
      <4>2. QED
        BY <3>4, <4>1
    <3>6. QED
      BY <3>2, <3>3, <3>5
  <2>1. KfTypeOK'
    BY <1>9, <2>0 DEF KfInv, KfGet, KfTypeOK
  <2>2. KfSleepersNotForgotten'
    BY <1>9, <2>0 DEF KfInv, KfGet, KfTypeOK, KfSleepersNotForgotten, KfSleepers
  <2>3. KfBounce'
    BY <1>9, <2>0 DEF KfInv, KfGet, KfTypeOK, KfBounce
  <2>4. QED
    BY <2>1, <2>2, <2>3 DEF KfInv
<1>10. ASSUME NEW t \in KfTasks, NEW m \in KfMessages, KfPut(t, m) PROVE KfInv'
  <2>0. /\ bounce' = <<>> /\ bounce' \in Seq(KfBytes) /\ Len(bounce') <= KfSize
        /\ kfifo' \in Seq(KfBytes) /\ Len(kfifo') <= KfSize
        /\ kfifo # <<>> => kfifo' # <<>>
    <3>1. KfTypeOK /\ bounce' = <<>> /\ kfifo' \in {kfifo \o Room(m), kfifo}
      BY <1>10 DEF KfPut, KfInv
    <3>2. kfifo' \in Seq(KfBytes) /\ Len(kfifo') <= KfSize /\ (kfifo # <<>> => kfifo' # <<>>)
      <4>1. CASE kfifo' = kfifo \o Room(m)
        BY <3>1, <4>1, KfPutStores
      <4>2. CASE kfifo' = kfifo
        BY <3>1, <4>2 DEF KfTypeOK
      <4>3. QED
        BY <3>1, <4>1, <4>2
    <3>3. QED
      BY <3>1, <3>2
  <2>1. KfTypeOK'
    BY <1>10, <2>0 DEF KfInv, KfPut, KfTypeOK
  <2>2. KfSleepersNotForgotten'
    BY <1>10, <2>0 DEF KfInv, KfPut, KfTypeOK, KfSleepersNotForgotten, KfSleepers
  <2>3. KfBounce'
    BY <1>10, <2>0 DEF KfInv, KfPut, KfTypeOK, KfBounce
  <2>4. QED
    BY <2>1, <2>2, <2>3 DEF KfInv
<1>11. CASE KfReset
  <2>1. KfTypeOK'
    BY <1>11 DEF KfInv, KfReset, KfTypeOK
  <2>2. KfSleepersNotForgotten'
    BY <1>11 DEF KfInv, KfReset, KfTypeOK, KfSleepersNotForgotten, KfSleepers
  <2>3. KfBounce'
    BY <1>11 DEF KfInv, KfReset, KfTypeOK, KfBounce
  <2>4. QED
    BY <2>1, <2>2, <2>3 DEF KfInv
<1>12. CASE UNCHANGED kfVars
  BY <1>12 DEF kfVars, KfInv, KfTypeOK, KfSleepersNotForgotten, KfSleepers, KfBounce
<1>13. QED
  BY <1>1, <1>2, <1>3, <1>4, <1>5, <1>6, <1>7, <1>8, <1>9, <1>10, <1>11, <1>12 DEF KfNext, KfTask

\* A step leaves what is in transit, adds to its end, or gives its head to the
\* user; a reset and a copy that fails drop bytes.
LEMMA KfOrder ==
    ASSUME KfInv, KfNext
    PROVE  KfStepInOrder
<1> USE KfAssumption DEF KfGo, KfHeld
<1>0. /\ KfTypeOK /\ KfBounce /\ kfifo \in Seq(KfBytes) /\ bounce \in Seq(KfBytes)
      /\ InTransit \in Seq(KfBytes)
  BY DEF KfInv, KfTypeOK, InTransit
<1>1. CASE UNCHANGED <<kfifo, bounce>> /\ kfGot' = <<>>
  BY <1>0, <1>1, PrefixOfItself DEF KfStepInOrder, InTransit
<1>2. ASSUME NEW t \in KfTasks, NEW n \in 1 .. KfSize, KfGet(t, n) PROVE KfStepInOrder
  <2>1. n \in Nat \ {0} /\ bounce = <<>> /\ kfGot' = <<>>
    BY <1>0, <1>2 DEF KfGet, KfTypeOK, KfBounce
  <2>2. kfifo = bounce' \o kfifo'
    BY <1>0, <1>2, <2>1, KfGetMoves DEF KfGet
  <2>3. InTransit' = InTransit
    BY <1>0, <2>1, <2>2 DEF InTransit
  <2>4. QED
    BY <1>0, <2>1, <2>3, PrefixOfItself DEF KfStepInOrder
<1>3. ASSUME NEW t \in KfTasks, KfCopied(t) PROVE KfStepInOrder
  BY <1>0, <1>3 DEF KfCopied, KfStepInOrder, InTransit
<1>4. ASSUME NEW t \in KfTasks, NEW m \in KfMessages, KfPut(t, m) PROVE KfStepInOrder
  <2>1. bounce = <<>> /\ bounce' = <<>> /\ kfGot' = <<>>
    BY <1>0, <1>4 DEF KfPut, KfTypeOK, KfBounce
  <2>2. InTransit = kfifo /\ InTransit' = kfifo'
    <3>1. kfifo' \in Seq(KfBytes)
      BY <1>0, <1>4, KfPutStores DEF KfPut
    <3>2. QED
      BY <1>0, <2>1, <3>1 DEF InTransit
  <2>3. IsPrefix(kfifo, kfifo')
    <3>1. kfifo' = kfifo \o Room(m) \/ kfifo' = kfifo
      BY <1>4 DEF KfPut
    <3>2. Room(m) \in Seq(KfBytes)
      BY <1>0, KfPutStores
    <3>3. QED
      BY <1>0, <3>1, <3>2, PrefixOfItself, PrefixOfConcat
  <2>4. QED
    BY <2>1, <2>2, <2>3 DEF KfStepInOrder
<1>5. ASSUME NEW t \in KfTasks, KfCopyFault(t) PROVE KfStepInOrder
  BY <1>5 DEF KfStepInOrder
<1>6. CASE KfReset
  BY <1>6 DEF KfStepInOrder
<1>7. QED
  BY <1>1, <1>2, <1>3, <1>4, <1>5, <1>6
     DEF KfNext, KfTask, KfStart, KfDown, KfEmpty, KfWait, KfLook, KfWake

\* Who gets has looked: only a reset can have emptied the kfifo since.
LEMMA KfNothing ==
    ASSUME KfInv, [KfNext]_kfVars
    PROVE  KfEmptyReadExplained
<1>0. KfTypeOK /\ KfBounce
  BY DEF KfInv
<1> SUFFICES ASSUME NEW t \in KfTasks, kfPc[t] = "rget", kfPc'[t] = "rcopy", bounce' = <<>>
             PROVE  kfHit
  BY DEF KfEmptyReadExplained
<1>1. PICK u \in KfTasks, n \in 1 .. KfSize : KfGet(u, n)
  BY <1>0 DEF KfNext, KfTask, KfStart, KfDown, KfEmpty, KfWait, KfLook, KfCopied, KfCopyFault,
              KfPut, KfWake, KfReset, KfGo, KfTypeOK, kfVars
<1>2. n \in Nat \ {0}
  BY KfAssumption
<1>3. kfifo = <<>>
  BY <1>0, <1>1, <1>2, KfGetMoves DEF KfGet
<1>4. QED
  BY <1>0, <1>3 DEF KfBounce

-----------------------------------------------------------------------------
(* ctest.                                                                  *)

\* Once around the ring, either way.
LEMMA CtAround ==
    ASSUME NEW r \in 0 .. CtSize - 1
    PROVE  r % CtSize = r /\ (r + CtSize) % CtSize = r /\ (r - CtSize) % CtSize = r
BY CtAssumption

\* How many bytes the ring holds from r to w, and where the i-th of them is.
CtCount(r, w) == IF r <= w THEN w - r ELSE w - r + CtSize
CtPlace(r, i) == IF r + i - 1 < CtSize THEN r + i - 1 ELSE r + i - 1 - CtSize

LEMMA CtRing ==
    ASSUME NEW r \in 0 .. CtSize - 1, NEW w \in 0 .. CtSize - 1
    PROVE  /\ CtCount(r, w) \in 0 .. CtSize - 1
           /\ (w - r) % CtSize = CtCount(r, w)
           /\ \A i \in 1 .. CtSize :
                 /\ CtPlace(r, i) \in 0 .. CtSize - 1
                 /\ (r + i - 1) % CtSize = CtPlace(r, i)
<1> USE CtAssumption
<1>1. CtCount(r, w) \in 0 .. CtSize - 1
  BY DEF CtCount
<1>2. (w - r) % CtSize = CtCount(r, w)
  <2>1. CASE r <= w
    BY <1>1, <2>1, CtAround DEF CtCount
  <2>2. CASE ~(r <= w)
    <3>1. CtCount(r, w) = w - r + CtSize /\ CtCount(r, w) - CtSize = w - r
      BY <2>2 DEF CtCount
    <3>2. (CtCount(r, w) - CtSize) % CtSize = CtCount(r, w)
      BY <1>1, CtAround
    <3>3. QED
      BY <3>1, <3>2
  <2>3. QED
    BY <2>1, <2>2
<1>3. ASSUME NEW i \in 1 .. CtSize
      PROVE  CtPlace(r, i) \in 0 .. CtSize - 1 /\ (r + i - 1) % CtSize = CtPlace(r, i)
  <2>1. CtPlace(r, i) \in 0 .. CtSize - 1
    BY DEF CtPlace
  <2>2. CASE r + i - 1 < CtSize
    BY <2>1, <2>2, CtAround DEF CtPlace
  <2>3. CASE ~(r + i - 1 < CtSize)
    <3>1. CtPlace(r, i) + CtSize = r + i - 1
      BY <2>3 DEF CtPlace
    <3>2. (CtPlace(r, i) + CtSize) % CtSize = CtPlace(r, i)
      BY <2>1, CtAround
    <3>3. QED
      BY <2>1, <3>1, <3>2
  <2>4. QED
    BY <2>1, <2>2, <2>3
<1>4. QED
  BY <1>1, <1>2, <1>3

\* Empty and full, in bytes.
LEMMA CtExtremes ==
    ASSUME NEW r \in 0 .. CtSize - 1, NEW w \in 0 .. CtSize - 1
    PROVE  /\ CtCount(r, w) = 0 <=> r = w
           /\ CtCount(r, w) = CtSize - 1 <=> (w + 1 = r \/ w - r = CtSize - 1)
<1>1. CtSize \in Nat /\ CtSize > 1
  BY CtAssumption
<1>2. CASE r <= w
  BY <1>1, <1>2 DEF CtCount
<1>3. CASE ~(r <= w)
  BY <1>1, <1>3 DEF CtCount
<1>4. QED
  BY <1>2, <1>3

LEMMA CtEnds ==
    ASSUME CtTypeOK
    PROVE  /\ ctR \in 0 .. CtSize - 1 /\ ctW \in 0 .. CtSize - 1
           /\ CtEmpty <=> CtCount(ctR, ctW) = 0
           /\ CtFull <=> CtCount(ctR, ctW) = CtSize - 1
           /\ ~(CtEmpty /\ CtFull)
<1> USE CtAssumption
<1>1. ctR \in 0 .. CtSize - 1 /\ ctW \in 0 .. CtSize - 1
  BY DEF CtTypeOK
<1>2. CtEmpty <=> CtCount(ctR, ctW) = 0
  BY <1>1, CtExtremes DEF CtEmpty
<1>3. CtFull <=> CtCount(ctR, ctW) = CtSize - 1
  BY <1>1, CtExtremes DEF CtFull
<1>4. QED
  BY <1>1, <1>2, <1>3

\* A read moves as much as there is up to the end of the memory, and r_index
\* by as much.
LEMMA CtReadMoves ==
    ASSUME CtTypeOK, NEW n \in 0 .. CtSize
    PROVE  LET c == CtCount(ctR, ctW)
               m == CtReadable(n)
           IN /\ m \in 0 .. c
              /\ m = 0 <=> CtEmpty \/ n = 0
              /\ (ctR + m) % CtSize \in 0 .. CtSize - 1
              /\ CtCount((ctR + m) % CtSize, ctW) = c - m
              /\ \A i \in 1 .. c - m : CtPlace((ctR + m) % CtSize, i) = CtPlace(ctR, i + m)
<1> USE CtAssumption
<1> DEFINE c == CtCount(ctR, ctW)
           m == CtReadable(n)
           have == (ctW - ctR) + (IF ctW < ctR THEN CtSize ELSE 0)
<1>1. ctR \in 0 .. CtSize - 1 /\ ctW \in 0 .. CtSize - 1
  BY DEF CtTypeOK
<1>2. have = c /\ c \in 0 .. CtSize - 1
  BY <1>1 DEF CtCount
<1>3. m = Min({n, c, CtSize - ctR})
  BY <1>2 DEF CtReadable
<1>4. m \in {n, c, CtSize - ctR} /\ m <= n /\ m <= c /\ m <= CtSize - ctR
  <2> DEFINE e == CtSize - ctR
  <2>1. n \in Int /\ c \in Int /\ e \in Int
    BY <1>1, <1>2
  <2> HIDE DEF c, m, e
  <2>2. m = Min({n, c, e})
    BY <1>3 DEF e
  <2>3. m \in {n, c, e} /\ m <= n /\ m <= c /\ m <= e
    BY <2>1, <2>2, MinOfThree
  <2>4. QED
    BY <2>3 DEF e
<1> HIDE DEF m, have
<1>5. m \in 0 .. c /\ (m = 0 <=> c = 0 \/ n = 0) /\ ctR + m <= CtSize
  <2>1. n \in Int /\ n >= 0 /\ c \in Int /\ c >= 0 /\ ctR \in Int /\ CtSize - ctR > 0
    BY <1>1, <1>2
  <2>2. m = n \/ m = c \/ m = CtSize - ctR
    BY <1>4
  <2>3. m \in Int /\ 0 <= m
    BY <2>1, <2>2
  <2>4. QED
    BY <1>4, <2>1, <2>2, <2>3
<1>6. (ctR + m) % CtSize = IF ctR + m < CtSize THEN ctR + m ELSE 0
  <2>1. CASE ctR + m < CtSize
    BY <1>1, <1>2, <1>5, <2>1, CtAround
  <2>2. CASE ctR + m = CtSize
    BY <1>1, <1>2, <1>5, <2>2
  <2>3. QED
    BY <1>1, <1>2, <1>5, <2>1, <2>2
<1> DEFINE r == (ctR + m) % CtSize
<1>7. r \in 0 .. CtSize - 1
  BY <1>1, <1>2, <1>5, <1>6
<1>8. CtCount(r, ctW) = c - m
  <2>1. CASE ctR + m < CtSize
    BY <1>1, <1>2, <1>5, <1>6, <2>1 DEF CtCount
  <2>2. CASE ctR + m = CtSize
    BY <1>1, <1>2, <1>5, <1>6, <2>2 DEF CtCount
  <2>3. QED
    BY <1>1, <1>2, <1>5, <2>1, <2>2
<1>9. ASSUME NEW i \in 1 .. c - m PROVE CtPlace(r, i) = CtPlace(ctR, i + m)
  BY <1>1, <1>2, <1>5, <1>6 DEF CtPlace
<1>10. m = 0 <=> CtEmpty \/ n = 0
  BY <1>5, CtEnds
<1>11. QED
  BY <1>5, <1>7, <1>8, <1>9, <1>10 DEF m

\* A write, likewise; the places it fills are the next ones.
LEMMA CtWriteMoves ==
    ASSUME CtTypeOK, NEW n \in Nat
    PROVE  LET c == CtCount(ctR, ctW)
               m == CtWritable(n)
           IN /\ m \in 0 .. CtSize - 1 - c /\ m <= n
              /\ m = 0 <=> CtFull \/ n = 0
              /\ ctW + m <= CtSize
              /\ (ctW + m) % CtSize \in 0 .. CtSize - 1
              /\ CtCount(ctR, (ctW + m) % CtSize) = c + m
              /\ \A i \in 1 .. c : CtPlace(ctR, i) \notin ctW .. ctW + m - 1
<1> USE CtAssumption
<1> DEFINE c == CtCount(ctR, ctW)
           m == CtWritable(n)
           room == (ctR - ctW) + (IF ctR <= ctW THEN CtSize - 1 ELSE -1)
<1>1. ctR \in 0 .. CtSize - 1 /\ ctW \in 0 .. CtSize - 1
  BY DEF CtTypeOK
<1>2. room = CtSize - 1 - c /\ c \in 0 .. CtSize - 1
  BY <1>1 DEF CtCount
<1>3. m = Min({n, CtSize - 1 - c, CtSize - ctW})
  BY <1>2 DEF CtWritable
<1>4. /\ m \in {n, CtSize - 1 - c, CtSize - ctW}
      /\ m <= n /\ m <= CtSize - 1 - c /\ m <= CtSize - ctW
  <2> DEFINE d == CtSize - 1 - c
             e == CtSize - ctW
  <2>1. n \in Int /\ d \in Int /\ e \in Int
    BY <1>1, <1>2
  <2> HIDE DEF m, d, e
  <2>2. m = Min({n, d, e})
    BY <1>3 DEF d, e
  <2>3. m \in {n, d, e} /\ m <= n /\ m <= d /\ m <= e
    BY <2>1, <2>2, MinOfThree
  <2>4. QED
    BY <2>3 DEF d, e
<1> HIDE DEF m, room
<1>5. m \in 0 .. CtSize - 1 - c /\ (m = 0 <=> c = CtSize - 1 \/ n = 0) /\ ctW + m <= CtSize
  <2>1. n \in Int /\ n >= 0 /\ c \in Int /\ c <= CtSize - 1 /\ ctW \in Int /\ CtSize - ctW > 0
    BY <1>1, <1>2
  <2>2. m = n \/ m = CtSize - 1 - c \/ m = CtSize - ctW
    BY <1>4
  <2>3. m \in Int /\ 0 <= m
    BY <2>1, <2>2
  <2>4. QED
    BY <1>4, <2>1, <2>2, <2>3
<1>6. (ctW + m) % CtSize = IF ctW + m < CtSize THEN ctW + m ELSE 0
  <2>1. CASE ctW + m < CtSize
    BY <1>1, <1>2, <1>5, <2>1, CtAround
  <2>2. CASE ctW + m = CtSize
    BY <1>1, <1>2, <1>5, <2>2
  <2>3. QED
    BY <1>1, <1>2, <1>5, <2>1, <2>2
<1> DEFINE w == (ctW + m) % CtSize
<1>7. w \in 0 .. CtSize - 1
  BY <1>1, <1>2, <1>5, <1>6
<1>8. CtCount(ctR, w) = c + m
  <2>1. CASE ctW + m < CtSize
    BY <1>1, <1>2, <1>5, <1>6, <2>1 DEF CtCount
  <2>2. CASE ctW + m = CtSize
    BY <1>1, <1>2, <1>5, <1>6, <2>2 DEF CtCount
  <2>3. QED
    BY <1>1, <1>2, <1>5, <2>1, <2>2
<1>9. ASSUME NEW i \in 1 .. c PROVE CtPlace(ctR, i) \notin ctW .. ctW + m - 1
  BY <1>1, <1>2, <1>5 DEF CtPlace, CtCount
<1>10. m = 0 <=> CtFull \/ n = 0
  BY <1>5, CtEnds
<1>11. QED
  BY <1>4, <1>5, <1>7, <1>8, <1>9, <1>10 DEF m

\* A wait list's lock has one owner.
CtLocks ==
    \A t, u \in CtTasks :
        t # u => /\ ~(ctPc[t] \in CtLockR /\ ctPc[u] \in CtLockR)
                 /\ ~(ctPc[t] \in CtLockW /\ ctPc[u] \in CtLockW)

\* Who will copy, having been woken or having looked, finds what he waited for or
\* has an excuse; who found nothing, or no room, still does.
CtRobbed ==
    \A t \in CtTasks :
        /\ ctPc[t] = "rcopy" \/ (t \in ctWoken /\ ctPc[t] = "rsleep")
              => ~CtEmpty \/ t \in ctExcused
        /\ ctPc[t] = "wcopy" \/ (t \in ctWoken /\ ctPc[t] = "wsleep")
              => ~CtFull \/ t \in ctExcused
        /\ ctPc[t] = "rnone" => CtEmpty
        /\ ctPc[t] = "wnone" => CtFull

CtInv == CtTypeOK /\ CtLocks /\ CtSleepersNotForgotten /\ CtRobbed

LEMMA CtInitially == CtInit => CtInv
<1> SUFFICES ASSUME CtInit PROVE CtInv
  OBVIOUS
<1> USE CtAssumption DEF CtInit
<1>1. CtTypeOK
  BY DEF CtTypeOK, CtInside, Unlocked
<1>2. CtLocks
  BY DEF CtLocks, CtLockR, CtLockW
<1>3. CtSleepersNotForgotten /\ CtRobbed
  BY DEF CtSleepersNotForgotten, CtRobbed
<1>4. QED
  BY <1>1, <1>2, <1>3 DEF CtInv

LEMMA CtMessageLength ==
    ASSUME NEW m \in CtMessages
    PROVE  m \in Seq(CtBytes) /\ Len(m) \in Nat
<1>1. CASE \E b \in CtBytes : m = <<b>>
  BY <1>1
<1>2. CASE \E b, c \in CtBytes : m = <<b, c>>
  BY <1>2
<1>3. CASE m = <<>>
  BY <1>3
<1>4. QED
  BY <1>1, <1>2, <1>3 DEF CtMessages

\* After a read the ring is empty if it was, and full only if it was; after a
\* write it is the other way round.
LEMMA CtOutEnds ==
    ASSUME CtTypeOK, NEW t \in CtTasks, NEW n \in 0 .. CtSize, CtCopyOut(t, n)
    PROVE  /\ ctR' \in 0 .. CtSize - 1 /\ ctW' \in 0 .. CtSize - 1
           /\ CtFull' => CtFull
           /\ CtEmpty => CtEmpty'
           /\ ctMoved' = 0 => CtEmpty
<1> USE CtAssumption
<1> DEFINE c == CtCount(ctR, ctW)
           m == CtReadable(n)
<1>1. ctR' = (ctR + m) % CtSize /\ ctW' = ctW /\ (ctMoved' = IF n = 0 THEN -1 ELSE m)
  BY DEF CtCopyOut, CtMoves
<1>2. /\ ctR \in 0 .. CtSize - 1 /\ ctW \in 0 .. CtSize - 1
      /\ CtEmpty <=> c = 0
      /\ CtFull <=> c = CtSize - 1
  BY CtEnds
<1>3. /\ m \in 0 .. c /\ (m = 0 <=> CtEmpty \/ n = 0)
      /\ ctR' \in 0 .. CtSize - 1 /\ CtCount(ctR', ctW) = c - m
  BY <1>1, CtReadMoves
<1>4. c \in 0 .. CtSize - 1
  BY <1>2, CtRing
<1>5. /\ CtEmpty' <=> CtCount(ctR', ctW') = 0
      /\ CtFull' <=> CtCount(ctR', ctW') = CtSize - 1
  <2>1. ctR' \in 0 .. CtSize - 1 /\ ctW' \in 0 .. CtSize - 1
    BY <1>1, <1>2, <1>3
  <2> HIDE DEF c, m
  <2>2. CtEmpty' <=> CtCount(ctR', ctW') = 0
    BY <2>1, CtExtremes DEF CtEmpty
  <2>3. CtFull' <=> CtCount(ctR', ctW') = CtSize - 1
    BY <2>1, CtExtremes DEF CtFull
  <2>4. QED
    BY <2>2, <2>3
<1> HIDE DEF c, m
<1>6. QED
  BY <1>1, <1>2, <1>3, <1>4, <1>5

LEMMA CtInEnds ==
    ASSUME CtTypeOK, NEW t \in CtTasks, NEW bytes \in CtMessages, CtCopyIn(t, bytes)
    PROVE  /\ ctR' \in 0 .. CtSize - 1 /\ ctW' \in 0 .. CtSize - 1
           /\ ctMem' \in [0 .. CtSize - 1 -> CtBytes]
           /\ CtEmpty' => CtEmpty
           /\ CtFull => CtFull'
           /\ ctMoved' = 0 => CtFull
<1> USE CtAssumption
<1> DEFINE c == CtCount(ctR, ctW)
           m == CtWritable(Len(bytes))
<1>0. bytes \in Seq(CtBytes) /\ Len(bytes) \in Nat
  BY CtMessageLength
<1>1. /\ ctW' = (ctW + m) % CtSize /\ ctR' = ctR
      /\ ctMoved' = IF Len(bytes) = 0 THEN -1 ELSE m
  BY DEF CtCopyIn, CtMoves
<1>2. /\ ctR \in 0 .. CtSize - 1 /\ ctW \in 0 .. CtSize - 1
      /\ CtEmpty <=> c = 0
      /\ CtFull <=> c = CtSize - 1
  BY CtEnds
<1>3. /\ m \in 0 .. CtSize - 1 - c /\ m <= Len(bytes) /\ (m = 0 <=> CtFull \/ Len(bytes) = 0)
      /\ ctW' \in 0 .. CtSize - 1 /\ CtCount(ctR, ctW') = c + m
  BY <1>0, <1>1, CtWriteMoves
<1>4. c \in 0 .. CtSize - 1
  BY <1>2, CtRing
<1>5. /\ CtEmpty' <=> CtCount(ctR', ctW') = 0
      /\ CtFull' <=> CtCount(ctR', ctW') = CtSize - 1
  <2>1. ctR' \in 0 .. CtSize - 1 /\ ctW' \in 0 .. CtSize - 1
    BY <1>1, <1>2, <1>3
  <2> HIDE DEF c, m
  <2>2. CtEmpty' <=> CtCount(ctR', ctW') = 0
    BY <2>1, CtExtremes DEF CtEmpty
  <2>3. CtFull' <=> CtCount(ctR', ctW') = CtSize - 1
    BY <2>1, CtExtremes DEF CtFull
  <2>4. QED
    BY <2>2, <2>3
<1> HIDE DEF c, m
<1>6. ctMem' \in [0 .. CtSize - 1 -> CtBytes]
  <2>1. CASE ctMem' = ctMem
    BY <2>1 DEF CtTypeOK
  <2>2. CASE ctMem' = [i \in DOMAIN ctMem |-> IF i \in ctW .. ctW + m - 1
                                               THEN bytes[i - ctW + 1] ELSE ctMem[i]]
    <3>1. DOMAIN ctMem = 0 .. CtSize - 1 /\ \A i \in 0 .. CtSize - 1 : ctMem[i] \in CtBytes
      BY DEF CtTypeOK
    <3>2. ASSUME NEW i \in ctW .. ctW + m - 1 PROVE bytes[i - ctW + 1] \in CtBytes
      <4>1. i - ctW + 1 \in 1 .. Len(bytes)
        BY <1>0, <1>2, <1>3, <1>4
      <4>2. QED
        BY <1>0, <4>1
    <3>3. QED
      BY <2>2, <3>1, <3>2
  <2>3. QED
    BY <2>1, <2>2 DEF CtCopyIn, m
<1>7. QED
  BY <1>0, <1>1, <1>2, <1>3, <1>4, <1>5, <1>6

\* Every step keeps the invariant: under each action, the four parts of it.
LEMMA CtStep ==
    ASSUME CtInv, [CtNext]_ctVars
    PROVE  CtInv'
<1> USE CtAssumption DEF CtGo, CtTake, CtGive, CtQuiet
<1>0. CtTypeOK /\ CtLocks /\ CtSleepersNotForgotten /\ CtRobbed
  BY DEF CtInv
<1>1. ASSUME NEW t \in CtTasks, CtStart(t) PROVE CtInv'
  <2>a. /\ ctMem' = ctMem /\ ctR' = ctR /\ ctW' = ctW
        /\ ctWoken' = ctWoken /\ ctExcused' = ctExcused /\ ctCleared' = ctCleared
    BY <1>1 DEF CtStart, CtBuffer
  <2>0. (CtEmpty' <=> CtEmpty) /\ (CtFull' <=> CtFull) /\ ~(CtEmpty /\ CtFull)
    <3>1. (CtEmpty' <=> CtEmpty) /\ (CtFull' <=> CtFull)
      BY <1>1 DEF CtStart, CtBuffer, CtEmpty, CtFull
    <3>2. QED
      BY <1>0, <3>1, CtEnds
  <2>1. CtTypeOK'
    BY <1>0, <1>1, <2>a DEF CtStart, CtTypeOK, CtInside, CtWakes
  <2>2. CtLocks'
    BY <1>0, <1>1 DEF CtStart, CtTypeOK, CtInside, CtLocks, CtLockR, CtLockW
  <2>3. CtSleepersNotForgotten'
    BY <1>0, <1>1, <2>0 DEF CtStart, CtTypeOK, CtInside, CtSleepersNotForgotten, CtRobbed, CtWakes
  <2>4. CtRobbed'
    BY <1>0, <1>1, <2>0 DEF CtStart, CtTypeOK, CtInside, CtRobbed, CtWakes, CtGone
  <2>5. QED
    BY <2>1, <2>2, <2>3, <2>4 DEF CtInv
<1>2. ASSUME NEW t \in CtTasks, CtJoined(t) PROVE CtInv'
  <2>a. /\ ctMem' = ctMem /\ ctR' = ctR /\ ctW' = ctW
        /\ ctSem' = ctSem /\ ctWoken' = ctWoken /\ ctExcused' = ctExcused /\ ctCleared' = ctCleared
    BY <1>2 DEF CtJoined, CtBuffer
  <2>0. (CtEmpty' <=> CtEmpty) /\ (CtFull' <=> CtFull) /\ ~(CtEmpty /\ CtFull)
    <3>1. (CtEmpty' <=> CtEmpty) /\ (CtFull' <=> CtFull)
      BY <1>2 DEF CtJoined, CtBuffer, CtEmpty, CtFull
    <3>2. QED
      BY <1>0, <3>1, CtEnds
  <2>1. CtTypeOK'
    BY <1>0, <1>2, <2>a DEF CtJoined, CtTypeOK, CtInside, CtWakes
  <2>2. CtLocks'
    BY <1>0, <1>2 DEF CtJoined, CtTypeOK, CtInside, CtLocks, CtLockR, CtLockW
  <2>3. CtSleepersNotForgotten'
    BY <1>0, <1>2, <2>0 DEF CtJoined, CtTypeOK, CtInside, CtSleepersNotForgotten, CtRobbed, CtWakes
  <2>4. CtRobbed'
    BY <1>0, <1>2, <2>0 DEF CtJoined, CtTypeOK, CtInside, CtRobbed, CtWakes, CtGone
  <2>5. QED
    BY <2>1, <2>2, <2>3, <2>4 DEF CtInv
<1>3. ASSUME NEW t \in CtTasks, CtNone(t) PROVE CtInv'
  <2>a. /\ ctMem' = ctMem /\ ctR' = ctR /\ ctW' = ctW
        /\ ctExcused' = ctExcused
    BY <1>3 DEF CtNone, CtBuffer
  <2>0. (CtEmpty' <=> CtEmpty) /\ (CtFull' <=> CtFull) /\ ~(CtEmpty /\ CtFull)
    <3>1. (CtEmpty' <=> CtEmpty) /\ (CtFull' <=> CtFull)
      BY <1>3 DEF CtNone, CtBuffer, CtEmpty, CtFull
    <3>2. QED
      BY <1>0, <3>1, CtEnds
  <2>1. CtTypeOK'
    BY <1>0, <1>3, <2>a DEF CtNone, CtTypeOK, CtInside, CtWakes
  <2>2. CtLocks'
    BY <1>0, <1>3 DEF CtNone, CtTypeOK, CtInside, CtLocks, CtLockR, CtLockW
  <2>3. CtSleepersNotForgotten'
    BY <1>0, <1>3, <2>0 DEF CtNone, CtTypeOK, CtInside, CtSleepersNotForgotten, CtRobbed, CtWakes
  <2>4. CtRobbed'
    BY <1>0, <1>3, <2>0 DEF CtNone, CtTypeOK, CtInside, CtRobbed, CtWakes, CtGone
  <2>5. QED
    BY <2>1, <2>2, <2>3, <2>4 DEF CtInv
<1>4. ASSUME NEW t \in CtTasks, CtRuns(t) PROVE CtInv'
  <2>a. /\ ctMem' = ctMem /\ ctR' = ctR /\ ctW' = ctW
        /\ ctCleared' = ctCleared
    BY <1>4 DEF CtRuns, CtBuffer
  <2>0. (CtEmpty' <=> CtEmpty) /\ (CtFull' <=> CtFull) /\ ~(CtEmpty /\ CtFull)
    <3>1. (CtEmpty' <=> CtEmpty) /\ (CtFull' <=> CtFull)
      BY <1>4 DEF CtRuns, CtBuffer, CtEmpty, CtFull
    <3>2. QED
      BY <1>0, <3>1, CtEnds
  <2>1. CtTypeOK'
    BY <1>0, <1>4, <2>a DEF CtRuns, CtTypeOK, CtInside, CtWakes
  <2>2. CtLocks'
    BY <1>0, <1>4 DEF CtRuns, CtTypeOK, CtInside, CtLocks, CtLockR, CtLockW
  <2>3. CtSleepersNotForgotten'
    BY <1>0, <1>4, <2>0 DEF CtRuns, CtTypeOK, CtInside, CtSleepersNotForgotten, CtRobbed, CtWakes
  <2>4. CtRobbed'
    BY <1>0, <1>4, <2>0 DEF CtRuns, CtTypeOK, CtInside, CtRobbed, CtWakes, CtGone
  <2>5. QED
    BY <2>1, <2>2, <2>3, <2>4 DEF CtInv
<1>5. ASSUME NEW t \in CtTasks, CtWake(t) PROVE CtInv'
  <2>a. /\ ctMem' = ctMem /\ ctR' = ctR /\ ctW' = ctW
    BY <1>5 DEF CtWake, CtBuffer
  <2>0. (CtEmpty' <=> CtEmpty) /\ (CtFull' <=> CtFull) /\ ~(CtEmpty /\ CtFull)
    <3>1. (CtEmpty' <=> CtEmpty) /\ (CtFull' <=> CtFull)
      BY <1>5 DEF CtWake, CtBuffer, CtEmpty, CtFull
    <3>2. QED
      BY <1>0, <3>1, CtEnds
  <2>1. CtTypeOK'
    BY <1>0, <1>5, <2>a DEF CtWake, CtTypeOK, CtInside, CtWakes
  <2>2. CtLocks'
    BY <1>0, <1>5 DEF CtWake, CtTypeOK, CtInside, CtLocks, CtLockR, CtLockW
  <2>3. CtSleepersNotForgotten'
    BY <1>0, <1>5, <2>0 DEF CtWake, CtTypeOK, CtInside, CtSleepersNotForgotten, CtRobbed, CtWakes
  <2>4. CtRobbed'
    BY <1>0, <1>5, <2>0 DEF CtWake, CtTypeOK, CtInside, CtRobbed, CtWakes, CtGone
  <2>5. QED
    BY <2>1, <2>2, <2>3, <2>4 DEF CtInv
<1>6. ASSUME NEW t \in CtTasks, CtLeave(t) PROVE CtInv'
  <2>a. /\ ctMem' = ctMem /\ ctR' = ctR /\ ctW' = ctW
        /\ ctSem' = ctSem /\ ctWoken' = ctWoken /\ ctExcused' = ctExcused /\ ctCleared' = ctCleared
    BY <1>6 DEF CtLeave, CtBuffer
  <2>0. (CtEmpty' <=> CtEmpty) /\ (CtFull' <=> CtFull) /\ ~(CtEmpty /\ CtFull)
    <3>1. (CtEmpty' <=> CtEmpty) /\ (CtFull' <=> CtFull)
      BY <1>6 DEF CtLeave, CtBuffer, CtEmpty, CtFull
    <3>2. QED
      BY <1>0, <3>1, CtEnds
  <2>1. CtTypeOK'
    BY <1>0, <1>6, <2>a DEF CtLeave, CtTypeOK, CtInside, CtWakes
  <2>2. CtLocks'
    BY <1>0, <1>6 DEF CtLeave, CtTypeOK, CtInside, CtLocks, CtLockR, CtLockW
  <2>3. CtSleepersNotForgotten'
    BY <1>0, <1>6, <2>0 DEF CtLeave, CtTypeOK, CtInside, CtSleepersNotForgotten, CtRobbed, CtWakes
  <2>4. CtRobbed'
    BY <1>0, <1>6, <2>0 DEF CtLeave, CtTypeOK, CtInside, CtRobbed, CtWakes, CtGone
  <2>5. QED
    BY <2>1, <2>2, <2>3, <2>4 DEF CtInv
<1>7. ASSUME NEW t \in CtTasks, CtClear(t) PROVE CtInv'
  <2>0. CtEmpty' /\ ~CtFull'
    BY <1>7 DEF CtClear, CtEmpty, CtFull
  <2>1. CtTypeOK'
    BY <1>0, <1>7, <2>0 DEF CtClear, CtTypeOK, CtInside, CtBuffer, CtWakes
  <2>2. CtLocks'
    BY <1>0, <1>7 DEF CtClear, CtTypeOK, CtInside, CtLocks, CtLockR, CtLockW
  <2>3. CtSleepersNotForgotten'
    BY <1>0, <1>7, <2>0 DEF CtClear, CtTypeOK, CtInside, CtSleepersNotForgotten, CtRobbed, CtWakes
  <2>4. CtRobbed'
    BY <1>0, <1>7, <2>0 DEF CtClear, CtTypeOK, CtInside, CtRobbed, CtWakes, CtGone
  <2>5. QED
    BY <2>1, <2>2, <2>3, <2>4 DEF CtInv
<1>8. ASSUME NEW t \in CtTasks, NEW n \in 0 .. CtSize, CtCopyOut(t, n) PROVE CtInv'
  <2>0. /\ ctR' \in 0 .. CtSize - 1 /\ ctW' \in 0 .. CtSize - 1
        /\ CtFull' => CtFull
        /\ CtEmpty => CtEmpty'
    BY <1>0, <1>8, CtOutEnds
  <2>1. CtTypeOK'
    BY <1>0, <1>8, <2>0 DEF CtCopyOut, CtTypeOK, CtInside, CtBuffer, CtWakes
  <2>2. CtLocks'
    BY <1>0, <1>8 DEF CtCopyOut, CtTypeOK, CtInside, CtLocks, CtLockR, CtLockW
  <2>3. CtSleepersNotForgotten'
    BY <1>0, <1>8, <2>0 DEF CtCopyOut, CtTypeOK, CtInside, CtSleepersNotForgotten, CtRobbed, CtWakes
  <2>4. CtRobbed'
    BY <1>0, <1>8, <2>0 DEF CtCopyOut, CtTypeOK, CtInside, CtRobbed, CtWakes, CtGone
  <2>5. QED
    BY <2>1, <2>2, <2>3, <2>4 DEF CtInv
<1>9. ASSUME NEW t \in CtTasks, NEW m \in CtMessages, CtCopyIn(t, m) PROVE CtInv'
  <2>0. /\ ctR' \in 0 .. CtSize - 1 /\ ctW' \in 0 .. CtSize - 1
        /\ ctMem' \in [0 .. CtSize - 1 -> CtBytes]
        /\ CtEmpty' => CtEmpty
        /\ CtFull => CtFull'
    BY <1>0, <1>9, CtInEnds
  <2>1. CtTypeOK'
    BY <1>0, <1>9, <2>0 DEF CtCopyIn, CtTypeOK, CtInside, CtBuffer, CtWakes
  <2>2. CtLocks'
    BY <1>0, <1>9 DEF CtCopyIn, CtTypeOK, CtInside, CtLocks, CtLockR, CtLockW
  <2>3. CtSleepersNotForgotten'
    BY <1>0, <1>9, <2>0 DEF CtCopyIn, CtTypeOK, CtInside, CtSleepersNotForgotten, CtRobbed, CtWakes
  <2>4. CtRobbed'
    BY <1>0, <1>9, <2>0 DEF CtCopyIn, CtTypeOK, CtInside, CtRobbed, CtWakes, CtGone
  <2>5. QED
    BY <2>1, <2>2, <2>3, <2>4 DEF CtInv
<1>10. CASE UNCHANGED ctVars
  BY <1>0, <1>10
     DEF ctVars, CtInv, CtTypeOK, CtLocks, CtSleepersNotForgotten, CtRobbed, CtEmpty, CtFull
<1>11. QED
  BY <1>1, <1>2, <1>3, <1>4, <1>5, <1>6, <1>7, <1>8, <1>9, <1>10 DEF CtNext, CtTask

\* What the ring holds, place by place.
LEMMA CtHolds ==
    ASSUME NEW r \in 0 .. CtSize - 1, NEW w \in 0 .. CtSize - 1,
           NEW b \in [0 .. CtSize - 1 -> CtBytes]
    PROVE  LET h == [k \in 1 .. (w - r) % CtSize |-> b[(r + k - 1) % CtSize]]
           IN /\ h \in Seq(CtBytes) /\ Len(h) = CtCount(r, w)
              /\ \A k \in 1 .. CtCount(r, w) : h[k] = b[CtPlace(r, k)]
<1> USE CtAssumption
<1> DEFINE c == CtCount(r, w)
           h == [k \in 1 .. (w - r) % CtSize |-> b[(r + k - 1) % CtSize]]
<1>1. c \in 0 .. CtSize - 1 /\ (w - r) % CtSize = c
  BY CtRing
<1>2. \A k \in 1 .. CtSize : CtPlace(r, k) \in 0 .. CtSize - 1 /\ (r + k - 1) % CtSize = CtPlace(r, k)
  BY CtRing
<1> HIDE DEF c
<1>3. h = [k \in 1 .. c |-> b[(r + k - 1) % CtSize]]
  BY <1>1
<1>4. \A k \in 1 .. c : k \in 1 .. CtSize
  BY <1>1
<1>5. h = [k \in 1 .. c |-> b[CtPlace(r, k)]]
  BY <1>2, <1>3, <1>4
<1> HIDE DEF h
<1>6. \A k \in 1 .. c : b[CtPlace(r, k)] \in CtBytes
  BY <1>2, <1>4
<1>7. h \in Seq(CtBytes) /\ Len(h) = c
  BY <1>1, <1>5, <1>6
<1>8. QED
  BY <1>5, <1>7 DEF c, h

\* A step adds at the end, takes from the head, or clears.
LEMMA CtOrder ==
    ASSUME CtInv, [CtNext]_ctVars
    PROVE  CtStepInOrder
<1> USE CtAssumption
<1> DEFINE c == CtCount(ctR, ctW)
<1>0. /\ CtTypeOK /\ c \in 0 .. CtSize - 1
      /\ ctR \in 0 .. CtSize - 1 /\ ctW \in 0 .. CtSize - 1
      /\ ctMem \in [0 .. CtSize - 1 -> CtBytes]
      /\ \A k \in 1 .. CtSize : CtPlace(ctR, k) \in 0 .. CtSize - 1
  BY CtRing DEF CtInv, CtTypeOK
<1>1. /\ CtHeld \in Seq(CtBytes) /\ Len(CtHeld) = c
      /\ \A k \in 1 .. c : CtHeld[k] = ctMem[CtPlace(ctR, k)]
  BY <1>0, CtHolds DEF CtHeld
<1>2. CASE UNCHANGED <<ctMem, ctR, ctW>>
  BY <1>1, <1>2, PrefixOfItself DEF CtStepInOrder, CtHeld
<1>3. ASSUME NEW t \in CtTasks, NEW n \in 0 .. CtSize, CtCopyOut(t, n) PROVE CtStepInOrder
  <2> DEFINE m == CtReadable(n)
  <2>1. ctR' = (ctR + m) % CtSize /\ ctW' = ctW /\ ctMem' = ctMem
    BY <1>3 DEF CtCopyOut
  <2>2. /\ m \in 0 .. c /\ ctR' \in 0 .. CtSize - 1 /\ CtCount(ctR', ctW) = c - m
        /\ \A i \in 1 .. c - m : CtPlace(ctR', i) = CtPlace(ctR, i + m)
    BY <1>0, <2>1, CtReadMoves
  <2> HIDE DEF c, m
  <2>3. /\ CtHeld' \in Seq(CtBytes) /\ Len(CtHeld') = c - m
        /\ \A k \in 1 .. c - m : CtHeld'[k] = ctMem[CtPlace(ctR', k)]
    <3>1. ctW' \in 0 .. CtSize - 1 /\ ctMem' \in [0 .. CtSize - 1 -> CtBytes]
      BY <1>0, <2>1
    <3>2. /\ CtHeld' \in Seq(CtBytes) /\ Len(CtHeld') = CtCount(ctR', ctW')
          /\ \A k \in 1 .. CtCount(ctR', ctW') : CtHeld'[k] = ctMem'[CtPlace(ctR', k)]
      BY <2>2, <3>1, CtHolds DEF CtHeld
    <3>3. QED
      BY <2>1, <2>2, <3>2
  <2>4. ASSUME NEW i \in 1 .. c - m PROVE CtHeld'[i] = CtHeld[i + m]
    BY <1>0, <1>1, <2>2, <2>3
  <2>5. IsSuffix(CtHeld', CtHeld)
    <3>1. PICK before \in Seq(CtBytes), after \in Seq(CtBytes) : before = CtHeld /\ after = CtHeld'
      BY <1>1, <2>3
    <3>2. Len(before) = c /\ Len(after) = c - m /\ c \in Nat
      BY <1>0, <1>1, <2>3, <3>1
    <3>3. m \in 0 .. Len(before) /\ Len(after) = Len(before) - m
      BY <2>2, <3>2
    <3>4. \A i \in 1 .. Len(after) : after[i] = before[i + m]
      BY <2>4, <3>1, <3>2
    <3>5. IsSuffix(after, before)
      BY <3>3, <3>4, SuffixWhenTaken
    <3>6. QED
      BY <3>1, <3>5
  <2>6. QED
    BY <2>1, <2>5 DEF CtStepInOrder
<1>4. ASSUME NEW t \in CtTasks, NEW bytes \in CtMessages, CtCopyIn(t, bytes) PROVE CtStepInOrder
  <2> DEFINE m == CtWritable(Len(bytes))
  <2>1. /\ ctW' = (ctW + m) % CtSize /\ ctR' = ctR
        /\ \/ ctMem' = ctMem
           \/ ctMem' = [i \in DOMAIN ctMem |-> IF i \in ctW .. ctW + m - 1
                                                THEN bytes[i - ctW + 1] ELSE ctMem[i]]
    BY <1>4 DEF CtCopyIn
  <2>2. /\ m \in 0 .. CtSize - 1 - c /\ ctW' \in 0 .. CtSize - 1 /\ CtCount(ctR, ctW') = c + m
        /\ \A i \in 1 .. c : CtPlace(ctR, i) \notin ctW .. ctW + m - 1
    BY <1>0, <2>1, CtWriteMoves, CtMessageLength
  <2>3. ctMem' \in [0 .. CtSize - 1 -> CtBytes]
    BY <1>0, <1>4, CtInEnds
  <2> HIDE DEF c, m
  <2>4. /\ CtHeld' \in Seq(CtBytes) /\ Len(CtHeld') = c + m
        /\ \A k \in 1 .. c + m : CtHeld'[k] = ctMem'[CtPlace(ctR, k)]
    BY SMTT(30), <1>0, <2>1, <2>2, <2>3, CtHolds DEF CtHeld
  <2>5. ASSUME NEW i \in 1 .. c PROVE CtHeld'[i] = CtHeld[i]
    <3>1. i \in 1 .. CtSize /\ i \in 1 .. c + m
      BY <1>0, <2>2
    <3>2. CtPlace(ctR, i) \in 0 .. CtSize - 1 /\ CtPlace(ctR, i) \notin ctW .. ctW + m - 1
      BY <1>0, <2>2, <3>1
    <3>3. ctMem'[CtPlace(ctR, i)] = ctMem[CtPlace(ctR, i)]
      BY <1>0, <2>1, <3>2
    <3>4. QED
      BY <1>1, <2>4, <3>1, <3>3
  <2>6. SubSeq(CtHeld, 1, c) = SubSeq(CtHeld', 1, c)
    BY <1>0, <1>1, <2>2, <2>4, <2>5
  <2>7. IsPrefix(CtHeld, CtHeld')
    BY <1>0, <1>1, <2>2, <2>4, <2>6 DEF IsPrefix
  <2>8. QED
    BY <2>7 DEF CtStepInOrder
<1>5. ASSUME NEW t \in CtTasks, CtClear(t) PROVE CtStepInOrder
  BY <1>5 DEF CtStepInOrder
<1>6. QED
  BY <1>2, <1>3, <1>4, <1>5
     DEF CtNext, CtTask, CtStart, CtJoined, CtNone, CtRuns, CtWake, CtLeave, CtBuffer, ctVars

\* A call that is to move something and moves nothing has an excuse.
LEMMA CtNothing ==
    ASSUME CtInv, CtNext
    PROVE  CtNothingExplained
<1> USE CtAssumption
<1>0. CtTypeOK /\ CtRobbed
  BY DEF CtInv
<1>1. CASE ctMoved' = -1
  BY <1>1 DEF CtNothingExplained
<1>2. ASSUME NEW t \in CtTasks, NEW n \in 0 .. CtSize, CtCopyOut(t, n) PROVE CtNothingExplained
  <2>1. ctMoved' = 0 => CtEmpty
    BY <1>0, <1>2, CtOutEnds
  <2>2. ctPc[t] = "rcopy" /\ ctPc'[t] = "rwake"
    BY <1>0, <1>2 DEF CtCopyOut, CtGo, CtTypeOK
  <2>3. QED
    BY <1>0, <2>1, <2>2 DEF CtNothingExplained, CtRobbed
<1>3. ASSUME NEW t \in CtTasks, NEW m \in CtMessages, CtCopyIn(t, m) PROVE CtNothingExplained
  <2>1. ctMoved' = 0 => CtFull
    BY <1>0, <1>3, CtInEnds
  <2>2. ctPc[t] = "wcopy" /\ ctPc'[t] = "wwake"
    BY <1>0, <1>3 DEF CtCopyIn, CtGo, CtTypeOK
  <2>3. QED
    BY <1>0, <2>1, <2>2 DEF CtNothingExplained, CtRobbed
<1>4. QED
  BY <1>1, <1>2, <1>3
     DEF CtNext, CtTask, CtStart, CtJoined, CtNone, CtRuns, CtWake, CtLeave, CtClear

\* The lists are worked on by one task at a time, readers that leave apart.
LEMMA CtAlone == CtInv => CtListsAlone
BY DEF CtInv, CtLocks, CtListsAlone, CtListR, CtListW, CtLockR, CtLockW

-----------------------------------------------------------------------------
(* The three together: a behaviour steps one of them, and the others stay  *)
(* as they were initially.                                                 *)

\* What a driver that is not stepped would have to explain, it has not done.
OthersIdle ==
    /\ device # "globalfifo" => nothing = FALSE
    /\ device # "ctest" => ctMoved = -1

FifosInv == GfInv /\ KfInv /\ CtInv /\ OthersIdle

LEMMA FifosInitially == DevicesInit => FifosInv
BY GfInitially, KfInitially, CtInitially
   DEF DevicesInit, FifosInv, OthersIdle, GfInit, CtInit

LEMMA DeviceSteps ==
    ASSUME [DevicesNext]_devicesVars
    PROVE  /\ [GfNext]_gfVars /\ [KfNext]_kfVars /\ [CtNext]_ctVars
           /\ device' = device
           /\ device # "globalfifo" => UNCHANGED gfVars
           /\ device # "scull_kfifo" => UNCHANGED kfVars
           /\ device # "ctest" => UNCHANGED ctVars
BY DEF DevicesNext, devicesVars

LEMMA FifosStep ==
    ASSUME FifosInv, [DevicesNext]_devicesVars
    PROVE  FifosInv'
<1>1. GfInv' /\ KfInv' /\ CtInv'
  BY DeviceSteps, GfStep, KfStep, CtStep DEF FifosInv
<1>2. OthersIdle'
  BY DeviceSteps DEF FifosInv, OthersIdle, gfVars, ctVars
<1>3. QED
  BY <1>1, <1>2 DEF FifosInv

THEOREM FifosInvariant == DevicesSpec => []FifosInv
<1>1. FifosInv /\ [DevicesNext]_devicesVars => FifosInv'
  BY FifosStep
<1>2. QED
  BY <1>1, FifosInitially, PTL DEF DevicesSpec

\* What the three drivers keep stays of its type -- no index leaves its buffer,
\* no semaphore is held twice -- and ctest_poll says in every state what
\* ctest_read and ctest_write would do, but for the full ring it has forgotten
\* (globalfifo.c, scull_kfifo.c, ctest.c:121).
THEOREM TypesKeptHold == DevicesSpec => [](GfTypeOK /\ KfTypeOK /\ CtTypeOK /\ CtPollHonest)
<1>1. CtTypeOK => CtPollHonest
  BY CtAssumption DEF CtTypeOK, CtPollHonest, CtPollIn, CtPollOut, CtEmpty, CtFull
<1>2. FifosInv => GfTypeOK /\ KfTypeOK /\ CtTypeOK /\ CtPollHonest
  BY <1>1 DEF FifosInv, GfInv, KfInv, CtInv
<1>3. QED
  BY <1>2, FifosInvariant, PTL

\* Nobody in the wait queues of globalfifo, scull_kfifo and ctest sleeps through
\* what he waits for, for any number of tasks and any size, and the wait lists
\* are worked on by one task at a time but for the readers that leave
\* (globalfifo.c:164, ctest.c:161 and 213).
THEOREM SleepersNotForgottenHolds == DevicesSpec => []SleepersNotForgotten
<1>1. FifosInv => SleepersNotForgotten
  BY GfAlone, CtAlone DEF FifosInv, GfInv, KfInv, CtInv, SleepersNotForgotten
<1>2. QED
  BY <1>1, FifosInvariant, PTL

\* Bytes leave each of the three from the head, in order, each once, but for a
\* clear, a reset and a copy to the user that fails (scull_kfifo.c:92).
THEOREM FifosInOrderHolds == DevicesSpec => FifosInOrder
<1> DEFINE Order == /\ device = "globalfifo" => GfStepInOrder
                    /\ device = "scull_kfifo" => KfStepInOrder
                    /\ device = "ctest" => CtStepInOrder
<1>1. ASSUME FifosInv, [DevicesNext]_devicesVars
      PROVE  [Order]_<<mem, kfifo, bounce, kfGot, ctMem, ctR, ctW>>
  <2>1. GfStepInOrder /\ CtStepInOrder
    BY <1>1, DeviceSteps, GfOrder, CtOrder DEF FifosInv
  <2>2. KfStepInOrder \/ UNCHANGED kfVars
    BY <1>1, DeviceSteps, KfOrder DEF FifosInv
  <2>3. CASE device = "scull_kfifo" /\ UNCHANGED kfVars
    BY <1>1, <2>3, DeviceSteps DEF gfVars, kfVars, ctVars
  <2>4. QED
    BY <2>1, <2>2, <2>3
<1>2. FifosInv /\ [DevicesNext]_devicesVars
        => [Order]_<<mem, kfifo, bounce, kfGot, ctMem, ctR, ctW>>
  BY <1>1
<1>3. QED
  BY <1>2, FifosInvariant, PTL DEF DevicesSpec, FifosInOrder

\* A read of 0 bytes (in ctest, a call that moves nothing) has the explanation
\* the code allows: others were faster after the wake-up, a clear, a wake-up by a
\* call that had nothing to move, a reset during the read, or a signal in ctest
\* (globalfifo.c:121, scull_kfifo.c:171, ctest.c:168).
THEOREM EmptyReadsExplainedHolds == DevicesSpec => EmptyReadsExplained
<1> DEFINE Explained == GfEmptyReadExplained /\ KfEmptyReadExplained /\ CtNothingExplained
<1>1. ASSUME FifosInv, DevicesNext PROVE Explained
  <2>1. CASE device = "globalfifo"
    <3>1. GfNext /\ UNCHANGED ctVars
      BY <1>1, <2>1 DEF DevicesNext
    <3>2. ctMoved' = -1
      BY <1>1, <2>1, <3>1 DEF FifosInv, OthersIdle, ctVars
    <3>3. KfEmptyReadExplained
      BY <1>1, DeviceSteps, KfNothing DEF FifosInv
    <3>4. QED
      BY <1>1, <3>1, <3>2, <3>3, GfNothing DEF FifosInv, CtNothingExplained
  <2>2. CASE device = "ctest"
    <3>1. CtNext /\ UNCHANGED gfVars
      BY <1>1, <2>2 DEF DevicesNext
    <3>2. nothing' = FALSE
      BY <1>1, <2>2, <3>1 DEF FifosInv, OthersIdle, gfVars
    <3>3. KfEmptyReadExplained
      BY <1>1, DeviceSteps, KfNothing DEF FifosInv
    <3>4. QED
      BY <1>1, <3>1, <3>2, <3>3, CtNothing DEF FifosInv, GfEmptyReadExplained
  <2>3. CASE device \notin {"globalfifo", "ctest"}
    <3>1. nothing' = FALSE /\ ctMoved' = -1
      BY <1>1, <2>3, DeviceSteps DEF FifosInv, OthersIdle, gfVars, ctVars
    <3>2. KfEmptyReadExplained
      BY <1>1, DeviceSteps, KfNothing DEF FifosInv
    <3>3. QED
      BY <3>1, <3>2 DEF GfEmptyReadExplained, CtNothingExplained
  <2>4. QED
    BY <2>1, <2>2, <2>3
<1>2. FifosInv /\ [DevicesNext]_devicesVars => [Explained]_devicesVars
  BY <1>1
<1>3. QED
  BY <1>2, FifosInvariant, PTL DEF DevicesSpec, EmptyReadsExplained

-----------------------------------------------------------------------------
(* scull: numbers.  A position is three digits: item, slot and offset.     *)

\* Products and quotients, named so that a step can speak of them without
\* having them worked out.
Times(a, b) == a * b
Quot(n, d) == n \div d
Rest(n, d) == n % d

LEMMA TimesNatural ==
    ASSUME NEW a \in Nat, NEW b \in Nat
    PROVE  Times(a, b) \in Nat
BY DEF Times

LEMMA Division ==
    ASSUME NEW n \in Nat, NEW d \in Nat \ {0}
    PROVE  Quot(n, d) \in Nat /\ Rest(n, d) \in 0 .. d - 1 /\ n = Times(d, Quot(n, d)) + Rest(n, d)
BY DEF Times, Quot, Rest

LEMMA DivisionIs ==
    ASSUME NEW d \in Nat \ {0}, NEW q \in Nat, NEW r \in 0 .. d - 1, NEW n, n = Times(d, q) + r
    PROVE  Quot(n, d) = q /\ Rest(n, d) = r
BY DEF Times, Quot, Rest

LEMMA TimesMonotone ==
    ASSUME NEW a \in Nat, NEW b \in Nat, NEW c \in Nat, b <= c
    PROVE  Times(a, b) <= Times(a, c)
BY DEF Times

LEMMA Regroup ==
    ASSUME NEW a \in Nat, NEW b \in Nat, NEW q \in Nat, NEW k \in Nat
    PROVE  Times(Times(a, b), q) + Times(a, k) = Times(a, Times(b, q) + k)
BY DEF Times

LEMMA Digits ==
    ASSUME NEW a \in Nat \ {0}, NEW b \in Nat \ {0}, NEW n \in Nat
    PROVE  /\ Quot(n, Times(a, b)) = Quot(Quot(n, a), b)
           /\ Quot(Rest(n, Times(a, b)), a) = Rest(Quot(n, a), b)
<1>1. PICK c \in Nat, o \in 0 .. a - 1 : c = Quot(n, a) /\ n = Times(a, c) + o
  BY Division
<1>2. PICK q \in Nat, k \in 0 .. b - 1 : q = Quot(c, b) /\ k = Rest(c, b) /\ c = Times(b, q) + k
  BY Division
<1>3. PICK r \in Nat : r = Times(a, k) + o
  BY TimesNatural
<1>4. PICK big \in Nat : big = Times(a, b)
  BY TimesNatural
<1>5. r < big
  <2>1. Times(a, k) + a = Times(a, k + 1)
    BY DEF Times
  <2>2. Times(a, k + 1) <= Times(a, b)
    BY TimesMonotone
  <2>3. QED
    BY <1>3, <1>4, <2>1, <2>2, TimesNatural
<1>6. n = Times(big, q) + r
  <2>1. Times(big, q) + Times(a, k) = Times(a, c)
    BY <1>2, <1>4, Regroup
  <2>2. Times(big, q) \in Nat
    BY TimesNatural
  <2>3. Times(a, k) \in Nat
    BY TimesNatural
  <2>4. QED
    BY <1>1, <1>3, <2>1, <2>2, <2>3
<1>7. Quot(n, big) = q /\ Rest(n, big) = r
  BY <1>5, <1>6, DivisionIs
<1>8. Quot(r, a) = k
  BY <1>3, DivisionIs
<1>9. QED
  BY <1>1, <1>2, <1>4, <1>7, <1>8

Content == Byte \cup {Junk}
Pairs == (Nat \ {0}) \X (Nat \ {0})

LEMMA PairOf ==
    ASSUME NEW g \in Pairs
    PROVE  g[1] \in Nat \ {0} /\ g[2] \in Nat \ {0}
BY DEF Pairs

\* Where a position is: the item and the slot are the number of the quantum in
\* two digits.
LEMMA PlaceIs ==
    ASSUME NEW g \in Pairs, NEW pos \in Nat
    PROVE  /\ Item(pos, g) = Quot(Quot(pos, g[1]), g[2]) + 1
           /\ Slot(pos, g) = Rest(Quot(pos, g[1]), g[2]) + 1
           /\ Offset(pos, g) = Rest(pos, g[1])
<1>1. /\ Item(pos, g) = Quot(pos, Times(g[1], g[2])) + 1
      /\ Slot(pos, g) = Quot(Rest(pos, Times(g[1], g[2])), g[1]) + 1
      /\ Offset(pos, g) = Rest(pos, g[1])
  BY DEF Item, Slot, Offset, Quot, Rest, Times
<1>2. QED
  BY <1>1, PairOf, Digits

LEMMA PlaceOf ==
    ASSUME NEW g \in Pairs, NEW pos \in Nat
    PROVE  /\ Item(pos, g) \in Nat \ {0} /\ Slot(pos, g) \in 1 .. g[2]
           /\ Offset(pos, g) \in 0 .. g[1] - 1
<1>1. PICK c \in Nat : c = Quot(pos, g[1]) /\ Rest(pos, g[1]) \in 0 .. g[1] - 1
  BY PairOf, Division
<1>2. Quot(c, g[2]) \in Nat /\ Rest(c, g[2]) \in 0 .. g[2] - 1
  BY PairOf, Division
<1>3. QED
  BY <1>1, <1>2, PlaceIs, PairOf

LEMMA PlacePositive ==
    ASSUME NEW g \in Pairs, NEW pos \in Nat
    PROVE  Item(pos, g) \in Nat \ {0} /\ Slot(pos, g) \in Nat \ {0}
<1>1. g[2] \in Nat
  BY PairOf
<1>2. QED
  BY <1>1, PlaceOf

\* Two positions in the same quantum.
LEMMA SameQuantum ==
    ASSUME NEW g \in Pairs, NEW p \in Nat, NEW q \in Nat,
           Item(p, g) = Item(q, g), Slot(p, g) = Slot(q, g)
    PROVE  p - q = Offset(p, g) - Offset(q, g)
<1>1. PICK a \in Nat \ {0}, b \in Nat \ {0} : a = g[1] /\ b = g[2]
  BY PairOf
<1>2. PICK c \in Nat, x \in Nat : c = Quot(p, a) /\ x = Rest(p, a) /\ p = Times(a, c) + x
  BY Division
<1>3. PICK d \in Nat, y \in Nat : d = Quot(q, a) /\ y = Rest(q, a) /\ q = Times(a, d) + y
  BY Division
<1>4. PICK i \in Nat, k \in Nat : i = Quot(c, b) /\ k = Rest(c, b) /\ c = Times(b, i) + k
  BY Division
<1>5. PICK j \in Nat, l \in Nat : j = Quot(d, b) /\ l = Rest(d, b) /\ d = Times(b, j) + l
  BY Division
<1>6. /\ Item(p, g) = i + 1 /\ Slot(p, g) = k + 1 /\ Offset(p, g) = x
      /\ Item(q, g) = j + 1 /\ Slot(q, g) = l + 1 /\ Offset(q, g) = y
  <2>1. Item(p, g) = i + 1 /\ Slot(p, g) = k + 1 /\ Offset(p, g) = x
    BY <1>1, <1>2, <1>4, PlaceIs
  <2>2. Item(q, g) = j + 1 /\ Slot(q, g) = l + 1 /\ Offset(q, g) = y
    BY <1>1, <1>3, <1>5, PlaceIs
  <2>3. QED
    BY <2>1, <2>2
<1>7. i + 1 = j + 1 /\ k + 1 = l + 1
  BY <1>6
<1>8. i = j /\ k = l
  BY <1>7
<1>9. c = d
  BY <1>4, <1>5, <1>8
<1>10. Times(a, c) \in Nat
  BY TimesNatural
<1>11. QED
  BY <1>2, <1>3, <1>6, <1>9, <1>10

\* The positions that follow, up to the end of the quantum, are in it.
LEMMA NextInQuantum ==
    ASSUME NEW g \in Pairs, NEW p \in Nat, NEW q \in Nat,
           p - q + Offset(q, g) \in 0 .. g[1] - 1
    PROVE  /\ Item(p, g) = Item(q, g) /\ Slot(p, g) = Slot(q, g)
           /\ Offset(p, g) = p - q + Offset(q, g)
<1>1. PICK a \in Nat \ {0} : a = g[1]
  BY PairOf
<1>2. PICK c \in Nat, o \in 0 .. a - 1 :
        c = Quot(q, a) /\ o = Rest(q, a) /\ q = Times(a, c) + o
  BY Division
<1>3. PICK r \in 0 .. a - 1 : r = p - q + o
  BY <1>1, <1>2, PlaceIs
<1>4. PICK m \in Nat : m = Times(a, c)
  BY TimesNatural
<1>5. r \in Nat /\ o \in Nat
  OBVIOUS
<1>6. p = m + r
  <2>1. q = m + o
    BY <1>2, <1>4
  <2>2. QED
    BY <1>3, <1>5, <2>1
<1>7. Quot(p, a) = c /\ Rest(p, a) = r
  BY <1>3, <1>4, <1>6, DivisionIs
<1>8. Item(p, g) = Item(q, g) /\ Slot(p, g) = Slot(q, g)
  BY <1>1, <1>2, <1>7, PlaceIs
<1>9. Offset(p, g) = r /\ Offset(q, g) = o
  BY <1>1, <1>2, <1>7, PlaceIs
<1>10. QED
  BY <1>3, <1>8, <1>9

\* A call that stays in its quantum ends inside the items up to its own.
LEMMA EndCovered ==
    ASSUME NEW g \in Pairs, NEW pos \in Nat, NEW n \in Nat, Offset(pos, g) + n <= g[1],
           NEW len \in Nat, Item(pos, g) <= len
    PROVE  pos + n <= len * g[1] * g[2]
<1>1. PICK a \in Nat \ {0}, b \in Nat \ {0} : a = g[1] /\ b = g[2]
  BY PairOf
<1>2. PICK c \in Nat, o \in Nat : c = Quot(pos, a) /\ o = Rest(pos, a) /\ pos = Times(a, c) + o
  BY Division
<1>3. PICK i \in Nat, k \in 0 .. b - 1 : i = Quot(c, b) /\ c = Times(b, i) + k
  <2>1. Quot(c, b) \in Nat /\ Rest(c, b) \in 0 .. b - 1 /\ c = Times(b, Quot(c, b)) + Rest(c, b)
    BY Division
  <2>2. QED
    BY <2>1
<1>4. Item(pos, g) = i + 1 /\ Offset(pos, g) = o
  BY <1>1, <1>2, <1>3, PlaceIs
<1>5. Times(b, i) + b = Times(b, i + 1)
  BY DEF Times
<1>6. Times(b, i + 1) <= Times(b, len)
  BY <1>4, TimesMonotone
<1>7. PICK m \in Nat : m = Times(b, i)
  BY TimesNatural
<1>8. PICK all \in Nat : all = Times(b, len)
  BY TimesNatural
<1>9. c + 1 <= all
  BY <1>3, <1>5, <1>6, <1>7, <1>8
<1>10. Times(a, c + 1) <= Times(a, all)
  BY <1>9, TimesMonotone
<1>11. Times(a, c + 1) = Times(a, c) + a
  BY DEF Times
<1>12. Times(a, all) = len * a * b
  BY <1>8 DEF Times
<1>13. o + n <= a
  BY <1>1, <1>4
<1>14. PICK x \in Nat : x = Times(a, c)
  BY TimesNatural
<1>15. PICK y \in Nat : y = Times(a, all)
  BY TimesNatural
<1>16. pos + n <= y
  BY <1>2, <1>10, <1>11, <1>13, <1>14, <1>15
<1>17. QED
  BY <1>1, <1>12, <1>15, <1>16

-----------------------------------------------------------------------------
(* scull: the list.                                                        *)

Sets == Seq(Seq(Content))
Lists == Seq(Sets)

\* What is allocated has the size that the geometry says.
SetShaped(set, g) ==
    Len(set) = g[2] /\ \A s \in 1 .. Len(set) : set[s] # <<>> => Len(set[s]) = g[1]
Shaped(list, g) == \A i \in 1 .. Len(list) : list[i] # NoSet => SetShaped(list[i], g)

\* What is seen of a list at a position.
Seen(list, g, p) ==
    IF Item(p, g) > Len(list) \/ Slot(p, g) > Len(list[Item(p, g)]) THEN Hole
    ELSE IF list[Item(p, g)][Slot(p, g)] = <<>> THEN Hole
    ELSE list[Item(p, g)][Slot(p, g)][Offset(p, g) + 1]

LEMMA FlatIs == Flat = [p \in 0 .. MaxPos - 1 |-> Seen(data, geo, p)]
BY DEF Flat, Seen

LEMMA FlatNext == Flat' = [p \in 0 .. MaxPos - 1 |-> Seen(data', geo', p)]
BY DEF Flat, Seen

LEMMA FollowedIs ==
    ASSUME data \in Lists, NEW m \in Nat
    PROVE  /\ Followed(m) \in Lists
           /\ Len(Followed(m)) = IF m < Len(data) THEN Len(data) ELSE m
           /\ \A i \in 1 .. Len(Followed(m)) :
                 Followed(m)[i] = IF i <= Len(data) THEN data[i] ELSE NoSet
<1>1. Len(data) \in Nat /\ \A i \in 1 .. Len(data) : data[i] \in Sets
  BY DEF Lists
<1>2. NoSet \in Sets
  BY DEF Sets, NoSet
<1> DEFINE n == IF m < Len(data) THEN Len(data) ELSE m
<1>3. n \in Nat
  BY <1>1
<1>4. Followed(m) = [i \in 1 .. n |-> IF i <= Len(data) THEN data[i] ELSE NoSet]
  BY DEF Followed
<1> HIDE DEF n
<1>5. \A i \in 1 .. n : (IF i <= Len(data) THEN data[i] ELSE NoSet) \in Sets
  BY <1>1, <1>2, <1>3
<1>6. Followed(m) \in [1 .. n -> Sets]
  BY <1>4, <1>5
<1>7. Followed(m) \in Lists /\ Len(Followed(m)) = n
  BY <1>3, <1>6 DEF Lists
<1>8. QED
  BY <1>4, <1>7 DEF n

\* The items that are added hold nothing.
LEMMA FollowedSeen ==
    ASSUME data \in Lists, NEW m \in Nat, NEW g \in Pairs
    PROVE  /\ \A p \in Nat : Seen(Followed(m), g, p) = Seen(data, g, p)
           /\ Shaped(data, g) => Shaped(Followed(m), g)
<1>1. Len(data) \in Nat /\ Len(Followed(m)) \in Nat /\ Len(data) <= Len(Followed(m))
  BY FollowedIs DEF Lists
<1>2. ASSUME NEW p \in Nat PROVE Seen(Followed(m), g, p) = Seen(data, g, p)
  <2>1. PICK i \in Nat \ {0}, k \in Nat \ {0} : i = Item(p, g) /\ k = Slot(p, g)
    BY PlacePositive
  <2>2. CASE i <= Len(data)
    <3>1. Followed(m)[i] = data[i]
      BY <1>1, <2>2, FollowedIs
    <3>2. QED
      BY <1>1, <2>1, <2>2, <3>1 DEF Seen
  <2>3. CASE i > Len(data) /\ i <= Len(Followed(m))
    <3>1. Followed(m)[i] = <<>>
      BY <1>1, <2>3, FollowedIs DEF NoSet
    <3>2. k > Len(Followed(m)[i])
      BY <3>1
    <3>3. QED
      BY <2>1, <2>3, <3>2 DEF Seen
  <2>4. CASE i > Len(Followed(m))
    BY <1>1, <2>1, <2>4 DEF Seen
  <2>5. QED
    BY <1>1, <2>2, <2>3, <2>4
<1>3. Shaped(data, g) => Shaped(Followed(m), g)
  BY <1>1, FollowedIs DEF Shaped, NoSet
<1>4. QED
  BY <1>2, <1>3

\* The list and the set that a write works on.
SetAt(i, g) ==
    IF Followed(i)[i] = NoSet THEN [s \in 1 .. g[2] |-> <<>>] ELSE Followed(i)[i]

LEMMA SetAtIs ==
    ASSUME data \in Lists, NEW i \in Nat \ {0}, NEW g \in Pairs
    PROVE  /\ i \in 1 .. Len(Followed(i)) /\ SetAt(i, g) \in Sets
           /\ Shaped(data, g) => SetShaped(SetAt(i, g), g)
<1>1. Followed(i) \in Lists /\ i \in 1 .. Len(Followed(i))
  BY FollowedIs DEF Lists
<1>2. Followed(i)[i] \in Sets
  BY <1>1 DEF Lists
<1>3. g[2] \in Nat \ {0}
  BY PairOf
<1> DEFINE new == [s \in 1 .. g[2] |-> <<>>]
<1>4. new \in Sets /\ Len(new) = g[2] /\ \A s \in 1 .. Len(new) : new[s] = <<>>
  <2>1. <<>> \in Seq(Content)
    OBVIOUS
  <2>2. new \in [1 .. g[2] -> Seq(Content)]
    BY <2>1
  <2> HIDE DEF new
  <2>3. new \in Sets
    BY <1>3, <2>2 DEF Sets
  <2>4. QED
    BY <1>3, <2>3 DEF new
<1>5. SetShaped(new, g)
  BY <1>4 DEF SetShaped
<1>6. Shaped(data, g) => Followed(i)[i] = NoSet \/ SetShaped(Followed(i)[i], g)
  BY <1>1, FollowedSeen DEF Shaped
<1>7. QED
  BY <1>1, <1>2, <1>4, <1>5, <1>6 DEF SetAt

\* One item of the list is replaced by what differs from it in one quantum.
Put(i, s, g, q) == [Followed(i) EXCEPT ![i] = [SetAt(i, g) EXCEPT ![s] = q]]

\* A list shows what data does, but for the one quantum.
OnlyAt(list, g, i, s, q) ==
    \A p \in Nat :
        IF Item(p, g) = i /\ Slot(p, g) = s
          THEN Seen(list, g, p) = IF q = <<>> THEN Hole ELSE q[Offset(p, g) + 1]
          ELSE Seen(list, g, p) = Seen(data, g, p)

LEMMA Written ==
    ASSUME data \in Lists, NEW g \in Pairs, NEW i \in Nat \ {0}, NEW s \in 1 .. Len(SetAt(i, g)),
           NEW q \in Seq(Content), NEW list, list = Put(i, s, g, q)
    PROVE  /\ list \in Lists /\ Len(data) <= Len(list) /\ i <= Len(list)
           /\ Shaped(data, g) /\ (q # <<>> => Len(q) = g[1]) => Shaped(list, g)
           /\ OnlyAt(list, g, i, s, q)
<1> DEFINE old == SetAt(i, g)
           long == Followed(i)
           set == [old EXCEPT ![s] = q]
<1>0. list = [long EXCEPT ![i] = set]
  BY DEF Put
<1>1. /\ long \in Lists /\ i \in 1 .. Len(long) /\ old \in Sets
      /\ Len(data) \in Nat /\ Len(long) \in Nat /\ Len(data) <= Len(long)
  <2>1. Len(data) \in Nat
    BY DEF Lists
  <2>2. long \in Lists /\ Len(long) = IF i < Len(data) THEN Len(data) ELSE i
    BY FollowedIs
  <2>3. i \in 1 .. Len(long) /\ old \in Sets
    BY SetAtIs
  <2>4. QED
    BY <2>1, <2>2, <2>3
<1>2. /\ set \in Sets /\ Len(set) = Len(old) /\ Len(old) \in Nat /\ set[s] = q
      /\ \A x \in 1 .. Len(old) : x # s => set[x] = old[x]
  BY <1>1 DEF Sets
<1> HIDE DEF set
<1>3. /\ list \in Lists /\ Len(list) = Len(long) /\ list[i] = set
      /\ \A x \in 1 .. Len(long) : x # i => list[x] = long[x]
  BY <1>0, <1>1, <1>2 DEF Lists
<1>4. ASSUME Shaped(data, g), q # <<>> => Len(q) = g[1] PROVE Shaped(list, g)
  <2>1. SetShaped(old, g) /\ Shaped(long, g)
    BY <1>4, SetAtIs, FollowedSeen
  <2>2. SetShaped(set, g)
    BY <1>2, <1>4, <2>1 DEF SetShaped
  <2>3. QED
    BY <1>3, <2>1, <2>2 DEF Shaped
<1>5. ASSUME NEW p \in Nat, Item(p, g) = i, Slot(p, g) = s
      PROVE  Seen(list, g, p) = IF q = <<>> THEN Hole ELSE q[Offset(p, g) + 1]
  BY <1>1, <1>2, <1>3, <1>5 DEF Seen
<1>6. ASSUME NEW p \in Nat, ~(Item(p, g) = i /\ Slot(p, g) = s)
      PROVE  Seen(list, g, p) = Seen(data, g, p)
  <2>1. PICK j \in Nat \ {0}, k \in Nat \ {0} : j = Item(p, g) /\ k = Slot(p, g)
    BY PlacePositive
  <2>2. Seen(long, g, p) = Seen(data, g, p)
    BY FollowedSeen
  <2>3. CASE j # i
    <3>1. Len(list) = Len(long) /\ Len(long) \in Nat
      BY <1>1, <1>3 DEF Lists
    <3>2. j <= Len(long) => list[j] = long[j]
      BY <1>3, <2>3, <3>1
    <3>3. Seen(list, g, p) = Seen(long, g, p)
      BY <2>1, <3>1, <3>2 DEF Seen
    <3>4. QED
      BY <2>2, <3>3
  <2>4. CASE j = i /\ long[i] # NoSet
    <3>1. old = long[i] /\ k # s
      BY <1>6, <2>1, <2>4 DEF SetAt
    <3>2. QED
      BY <1>1, <1>2, <1>3, <2>1, <2>2, <2>4, <3>1 DEF Seen
  <2>5. CASE j = i /\ long[i] = NoSet
    <3>1. Seen(long, g, p) = Hole
      BY <1>1, <2>1, <2>5 DEF Seen, NoSet
    <3>2. k # s /\ old = [x \in 1 .. g[2] |-> <<>>]
      BY <1>6, <2>1, <2>5 DEF SetAt
    <3>3. k <= Len(set) => set[k] = <<>>
      <4>1. \A x \in DOMAIN old : old[x] = <<>>
        BY <3>2
      <4>2. DOMAIN old = 1 .. Len(old)
        BY <1>1 DEF Sets
      <4>3. k <= Len(set) => k \in DOMAIN old
        BY <1>2, <2>1, <4>2
      <4>4. QED
        BY <1>2, <3>2, <4>1, <4>2, <4>3
    <3>4. Seen(list, g, p) = Hole
      BY <1>1, <1>2, <1>3, <2>1, <2>5, <3>3 DEF Seen
    <3>5. QED
      BY <2>2, <3>1, <3>4
  <2>6. QED
    BY <2>3, <2>4, <2>5
<1>7. list \in Lists /\ Len(data) <= Len(list) /\ i <= Len(list)
  BY <1>1, <1>3
<1>8. OnlyAt(list, g, i, s, q)
  BY <1>5, <1>6 DEF OnlyAt
<1>9. QED
  BY <1>4, <1>7, <1>8

\* What is seen of the set that a write works on.
LEMMA SeenBefore ==
    ASSUME data \in Lists, NEW g \in Pairs, NEW p \in Nat,
           NEW i, NEW s, i = Item(p, g), s = Slot(p, g), s <= Len(SetAt(i, g))
    PROVE  Seen(data, g, p) = IF SetAt(i, g)[s] = <<>> THEN Hole ELSE SetAt(i, g)[s][Offset(p, g) + 1]
<1>1. i \in Nat \ {0} /\ s \in Nat \ {0}
  BY PlacePositive
<1>2. Seen(Followed(i), g, p) = Seen(data, g, p)
  BY <1>1, FollowedSeen
<1>3. i \in 1 .. Len(Followed(i)) /\ Len(Followed(i)) \in Nat
  <2>1. Followed(i) \in Lists
    BY <1>1, FollowedIs
  <2>2. QED
    BY <1>1, <2>1, SetAtIs DEF Lists
<1>4. CASE Followed(i)[i] = NoSet
  <2>1. Seen(Followed(i), g, p) = Hole
    BY <1>1, <1>3, <1>4 DEF Seen, NoSet
  <2>2. g[2] \in Nat
    BY PairOf
  <2>3. SetAt(i, g)[s] = <<>>
    BY <1>1, <1>4, <2>2 DEF SetAt
  <2>4. QED
    BY <1>2, <2>1, <2>3
<1>5. CASE Followed(i)[i] # NoSet
  <2>1. SetAt(i, g) = Followed(i)[i]
    BY <1>5 DEF SetAt
  <2>2. SetAt(i, g) \in Sets
    BY <1>1, SetAtIs
  <2>3. Len(SetAt(i, g)) \in Nat
    BY <2>2 DEF Sets
  <2>4. QED
    BY <1>1, <1>2, <1>3, <2>1, <2>3 DEF Seen
<1>6. QED
  BY <1>4, <1>5

-----------------------------------------------------------------------------
(* scull: what a call does, by cases.                                      *)

\* The quantum that a write finds, and what it makes of it.
Before(i, s, g) ==
    IF SetAt(i, g)[s] = <<>> THEN [x \in 1 .. g[1] |-> Junk] ELSE SetAt(i, g)[s]
After(old, off, n, k, b, c) ==
    [x \in DOMAIN old |-> CASE x - off \in 1 .. k -> b
                            [] x - off \in k + 1 .. n -> c
                            [] OTHER -> old[x]]

Failing(t) == got' = <<>> /\ Return(t, 0) /\ UNCHANGED <<size, wild>>

WriteGoes(t, g, pos, i, s, off, n, b) ==
    \/ \E m \in Len(data) .. i - 1 : data' = Followed(m) /\ Failing(t)
    \/ data' = Followed(i) /\ Failing(t)
    \/ s > Len(SetAt(i, g)) /\ Astray(t)
    \/ /\ s <= Len(SetAt(i, g))
       /\ \/ /\ SetAt(i, g)[s] = <<>>
             /\ data' = [Followed(i) EXCEPT ![i] = SetAt(i, g)] /\ Failing(t)
          \/ ~Holds(Before(i, s, g), off, n) /\ Astray(t)
          \/ /\ Holds(Before(i, s, g), off, n)
             /\ \/ /\ data' = Put(i, s, g, After(Before(i, s, g), off, n, n, b, b))
                   /\ size' = NewSize(pos + n) /\ Return(t, n)
                   /\ UNCHANGED wild /\ got' = <<>>
                \/ \E k \in 0 .. n - 1 :
                      /\ data' = Put(i, s, g, After(Before(i, s, g), off, n, k, b, Junk))
                      /\ Failing(t)

LEMMA WriteIs ==
    ASSUME NEW t, NEW count, NEW b, WriteSome(t, count, b)
    PROVE  LET g == file[t].copy
               pos == file[t].pos
               off == Offset(pos, g)
           IN  /\ Inside(t)
               /\ WriteGoes(t, g, pos, Item(pos, g), Slot(pos, g), off, Least(count, g[1] - off), b)
BY DEF WriteSome, WriteGoes, SetAt, Before, After, Put, Failing

LEMMA ReadIs ==
    ASSUME NEW t, NEW count, ReadSome(t, count),
           NEW g, g = file[t].copy, NEW pos, pos = file[t].pos,
           NEW i, i = Item(pos, g), NEW s, s = Slot(pos, g), NEW off, off = Offset(pos, g),
           NEW n, n = Least(Least(count, size - pos), g[1] - off)
    PROVE  /\ Inside(t)
           /\ \/ data' = data /\ Failing(t)
              \/ \E m \in Len(data) .. i - 1 : data' = Followed(m) /\ Failing(t)
              \/ data' = Followed(i) /\ Failing(t)
              \/ /\ pos < size /\ i <= Len(data) /\ data[i] # NoSet
                 /\ \/ s > Len(data[i]) /\ Astray(t)
                    \/ /\ s <= Len(data[i]) /\ data[i][s] # <<>>
                       /\ \/ ~Holds(data[i][s], off, n) /\ Astray(t)
                          \/ /\ Holds(data[i][s], off, n)
                             /\ got' = SubSeq(data[i][s], off + 1, off + n)
                             /\ Return(t, n) /\ UNCHANGED <<data, size, wild>>
BY DEF ReadSome, Failing

-----------------------------------------------------------------------------
(* scull: the invariant.                                                   *)

Geos == Quanta \X Qsets
Files == [pc : {"closed", "trim", "idle", "begun", "called"}, mode : {"w", "rw"},
          pos : 0 .. MaxPos, copy : Nat \X Nat]

\* The copies of a call are of some geometry as soon as they are made.
ScullTypes ==
    /\ data \in Lists /\ size \in 0 .. MaxPos
    /\ geo \in Geos /\ param \in Geos
    /\ semaphore \in Tasks \cup {Free}
    /\ file \in [Tasks -> Files]
    /\ \A t \in Tasks :
          /\ file[t].pc = "trim" <=> semaphore = t
          /\ file[t].pc = "begun" => file[t].copy[1] \in Quanta
          /\ file[t].pc = "called" => file[t].copy \in Geos
    /\ stale \in BOOLEAN /\ wild \in BOOLEAN

\* What is allocated has the geometry of the device, as long as no call had
\* another one; during a trim nothing is allocated.
ScullShaped ==
    /\ semaphore # Free => data = <<>> /\ size = 0
    /\ ~stale => Shaped(data, geo)

ScullInv == ScullTypes /\ ScullShaped /\ ScullWithinBounds /\ ScullSizeCovered

LEMMA GeosArePairs == Geos \subseteq Pairs
BY ScullDevAssumption DEF Geos, Pairs, Quanta, Qsets

LEMMA ScullInitially == ScullInit => ScullInv
<1> SUFFICES ASSUME ScullInit PROVE ScullInv
  OBVIOUS
<1>1. param \in Geometries /\ geo = param
  BY ScullDevAssumption DEF ScullInit
<1>2. param \in Geos /\ geo \in Geos
  <2>1. param \in Pairs
    BY <1>1, ScullDevAssumption DEF Pairs
  <2>2. param = <<param[1], param[2]>>
    BY <2>1 DEF Pairs
  <2>3. param[1] \in Quanta /\ param[2] \in Qsets
    BY <1>1 DEF Quanta, Qsets
  <2>4. QED
    BY <1>1, <2>2, <2>3 DEF Geos
<1>3. data = <<>> /\ size = 0 /\ data \in Lists
  BY DEF ScullInit, Lists
<1>4. file \in [Tasks -> Files] /\ \A t \in Tasks : file[t].pc = "closed"
  BY ScullDevAssumption DEF ScullInit, Files, Closed
<1>5. ScullTypes
  <2>1. semaphore = Free /\ stale = FALSE /\ wild = FALSE
    BY DEF ScullInit
  <2>2. size \in 0 .. MaxPos
    BY <1>3, ScullDevAssumption
  <2>3. \A t \in Tasks : file[t].pc # "trim" /\ file[t].pc # "begun" /\ file[t].pc # "called" /\ semaphore # t
    BY <1>4, <2>1, ScullDevAssumption
  <2>4. QED
    BY <1>2, <1>3, <1>4, <2>1, <2>2, <2>3 DEF ScullTypes
<1>6. ScullShaped
  BY <1>3 DEF ScullShaped, Shaped
<1>7. ScullWithinBounds
  BY DEF ScullInit, ScullWithinBounds
<1>8. ScullSizeCovered
  <2>1. geo \in Pairs
    BY <1>2, GeosArePairs
  <2>2. Len(data) = 0
    BY <1>3
  <2>3. Len(data) * geo[1] * geo[2] = 0
    BY <2>1, <2>2, PairOf
  <2>4. QED
    BY <1>3, <2>3 DEF ScullSizeCovered
<1>9. QED
  BY <1>5, <1>6, <1>7, <1>8 DEF ScullInv

\* What a call with the semaphore computes with.

LEMMA CallIs ==
    ASSUME ScullTypes, NEW t \in Tasks, Inside(t),
           NEW count \in Counts(file[t].pos)
    PROVE  LET g == file[t].copy
               pos == file[t].pos
               off == Offset(pos, g)
               n == Least(count, g[1] - off)
           IN  /\ g \in Pairs /\ pos \in Nat /\ pos < MaxPos /\ MaxPos \in Nat
               /\ Item(pos, g) \in Nat \ {0} /\ Slot(pos, g) \in Nat \ {0}
               /\ Slot(pos, g) <= g[2] /\ g[1] \in Nat \ {0} /\ g[2] \in Nat \ {0}
               /\ off \in 0 .. g[1] - 1 /\ n \in 0 .. count /\ off + n <= g[1]
               /\ pos + n <= MaxPos
               /\ (~stale' => ~stale /\ g = geo)
<1> DEFINE g == file[t].copy
           pos == file[t].pos
<1>1. g \in Geos /\ pos \in 0 .. MaxPos /\ MaxPos \in Nat /\ count \in Nat
      /\ pos < MaxPos /\ pos + count <= MaxPos
  BY ScullDevAssumption DEF ScullTypes, Inside, Files, Counts
<1>2. g \in Pairs
  BY <1>1, GeosArePairs
<1>3. ~stale' => ~stale /\ g = geo
  BY DEF Inside
<1> HIDE DEF g, pos
<1>4. pos \in Nat /\ pos < MaxPos
  BY <1>1
<1>5. PICK off \in Nat : off = Offset(pos, g) /\ off \in 0 .. g[1] - 1
  BY <1>2, <1>4, PlaceOf, PairOf
<1>6. g[1] \in Nat \ {0} /\ g[2] \in Nat \ {0}
  BY <1>2, PairOf
<1>7. Least(count, g[1] - off) \in 0 .. count /\ off + Least(count, g[1] - off) <= g[1]
  BY <1>1, <1>5, <1>6 DEF Least
<1>8. pos + Least(count, g[1] - off) <= MaxPos
  BY <1>1, <1>4, <1>7
<1>9. Item(pos, g) \in Nat \ {0} /\ Slot(pos, g) \in Nat \ {0} /\ Slot(pos, g) \in 1 .. g[2]
  BY <1>2, <1>4, PlacePositive, PlaceOf
<1>10. QED
  BY <1>1, <1>2, <1>3, <1>4, <1>5, <1>6, <1>7, <1>8, <1>9 DEF g, pos

\* The part of the types that a call with the semaphore cannot disturb follows
\* from what it does to the four that it writes.
LEMMA ReturnTypes ==
    ASSUME ScullTypes, NEW t \in Tasks, Inside(t), NEW n \in Nat, Return(t, n),
           file[t].pos + n <= MaxPos, data' \in Lists, size' \in 0 .. MaxPos, wild' \in BOOLEAN
    PROVE  ScullTypes'
<1>1. /\ file' \in [Tasks -> Files]
      /\ \A u \in Tasks : IF u = t THEN file'[u].pc = "idle" ELSE file'[u] = file[u]
  <2>1. file[t] \in Files /\ file[t].pos + n \in 0 .. MaxPos
    BY ScullDevAssumption DEF ScullTypes, Files
  <2>2. file' = [file EXCEPT ![t] = [file[t] EXCEPT !.pc = "idle", !.copy = <<0, 0>>, !.pos = file[t].pos + n]]
    BY DEF Return, ScullTypes
  <2>3. [file[t] EXCEPT !.pc = "idle", !.copy = <<0, 0>>, !.pos = file[t].pos + n] \in Files
    BY <2>1 DEF Files
  <2>4. QED
    BY <2>1, <2>2, <2>3 DEF ScullTypes, Files
<1>2. \A u \in Tasks : file[u].pc # "trim" /\ semaphore # u
  BY ScullDevAssumption DEF ScullTypes, Inside
<1>3. stale' \in BOOLEAN
  BY DEF Inside, ScullTypes
<1>4. QED
  BY <1>1, <1>2, <1>3 DEF ScullTypes, Inside

\* With more items, more is covered.
LEMMA CoverGrows ==
    ASSUME NEW g \in Pairs, NEW m \in Nat, NEW n \in Nat, m <= n, NEW x \in Nat, x <= m * g[1] * g[2]
    PROVE  x <= n * g[1] * g[2]
<1>1. PICK a \in Nat \ {0}, b \in Nat \ {0} : a = g[1] /\ b = g[2]
  BY PairOf
<1>2. Times(Times(a, b), m) <= Times(Times(a, b), n)
  BY TimesMonotone, TimesNatural
<1>3. Times(Times(a, b), m) = m * a * b /\ Times(Times(a, b), n) = n * a * b
  BY DEF Times
<1>4. m * a * b \in Nat /\ n * a * b \in Nat
  OBVIOUS
<1>5. m * a * b <= n * a * b
  BY <1>2, <1>3
<1>6. QED
  BY <1>1, <1>4, <1>5

\* A call that has computed with another geometry is excused from the rest.
LEMMA StaleCall ==
    ASSUME ScullTypes', semaphore' = Free, stale'
    PROVE  ScullInv'
BY DEF ScullInv, ScullShaped, ScullWithinBounds, ScullSizeCovered

LEMMA AstrayCall ==
    ASSUME ScullInv, NEW t \in Tasks, Inside(t), Astray(t), stale'
    PROVE  ScullInv'
<1>1. data' \in Lists /\ size' \in 0 .. MaxPos /\ wild' \in BOOLEAN /\ file[t].pos + 0 <= MaxPos
  BY ScullDevAssumption DEF Astray, ScullInv, ScullTypes, Files
<1>2. ScullTypes'
  BY <1>1, ReturnTypes DEF Astray, ScullInv
<1>3. QED
  BY <1>2, StaleCall DEF Inside

\* A call that only makes the list longer.
LEMMA QuietCall ==
    ASSUME ScullInv, ~wild, NEW t \in Tasks, Inside(t), Failing(t),
           data' = data \/ \E m \in Nat : data' = Followed(m)
    PROVE  ScullInv' /\ (~stale /\ ~stale' => File!Next)
<1>1. ScullTypes /\ data \in Lists /\ geo \in Pairs /\ geo' = geo /\ Len(data) \in Nat
  BY GeosArePairs DEF ScullInv, ScullTypes, Inside, Lists
<1>2. /\ data' \in Lists /\ Len(data') \in Nat /\ Len(data) <= Len(data')
      /\ \A p \in Nat : Seen(data', geo, p) = Seen(data, geo, p)
      /\ Shaped(data, geo) => Shaped(data', geo)
  <2>1. ASSUME NEW m \in Nat, data' = Followed(m)
        PROVE  /\ data' \in Lists /\ Len(data) <= Len(data')
               /\ \A p \in Nat : Seen(data', geo, p) = Seen(data, geo, p)
               /\ Shaped(data, geo) => Shaped(data', geo)
    BY <1>1, <2>1, FollowedIs, FollowedSeen
  <2>2. data' \in Lists
    BY <1>1, <2>1
  <2>3. Len(data') \in Nat
    BY <2>2 DEF Lists
  <2>4. QED
    BY <1>1, <2>1, <2>2, <2>3
<1>3. ScullTypes'
  <2>1. size' \in 0 .. MaxPos /\ wild' \in BOOLEAN /\ file[t].pos + 0 <= MaxPos
    BY <1>1, ScullDevAssumption DEF Failing, ScullTypes, Files
  <2>2. QED
    BY <1>1, <1>2, <2>1, ReturnTypes DEF Failing
<1>4. ASSUME ~stale' PROVE ~stale /\ Shaped(data', geo)
  BY <1>2, <1>4 DEF Inside, ScullInv, ScullShaped
<1>5. ASSUME ~stale' PROVE ScullInv'
  <2>1. ScullShaped'
    BY <1>1, <1>4, <1>5 DEF ScullShaped, Inside
  <2>2. ScullWithinBounds'
    BY DEF Failing, ScullWithinBounds
  <2>3. ScullSizeCovered'
    <3>1. size \in Nat /\ size <= Len(data) * geo[1] * geo[2]
      BY <1>1, <1>4, <1>5, ScullDevAssumption DEF ScullInv, ScullSizeCovered, ScullTypes
    <3>2. size <= Len(data') * geo[1] * geo[2]
      BY <1>1, <1>2, <3>1, CoverGrows
    <3>3. QED
      BY <1>1, <3>2 DEF ScullSizeCovered, Failing
  <2>4. QED
    BY <1>3, <2>1, <2>2, <2>3 DEF ScullInv
<1>6. ScullInv'
  BY <1>3, <1>5, StaleCall DEF Inside
<1>7. File!Next
  <2>1. Flat' = Flat
    <3>1. \A p \in 0 .. MaxPos - 1 : Seen(data', geo', p) = Seen(data, geo, p)
      BY <1>1, <1>2, ScullDevAssumption
    <3>2. QED
      BY <3>1, FlatIs, FlatNext
  <2>2. QED
    BY <2>1 DEF File!Next, File!Other, Failing
<1>8. QED
  BY <1>6, <1>7

\* What a write has made of a quantum, byte by byte.
Became(q, old, off, n, k, b, c) ==
    /\ q \in Seq(Content) /\ Len(q) = Len(old)
    /\ \A x \in 1 .. Len(old) :
          q[x] = IF x - off \in 1 .. k THEN b ELSE IF x - off \in k + 1 .. n THEN c ELSE old[x]

LEMMA AfterIs ==
    ASSUME NEW old \in Seq(Content), NEW off \in Nat, NEW n \in Nat, NEW k \in 0 .. n,
           NEW b \in Content, NEW c \in Content
    PROVE  Became(After(old, off, n, k, b, c), old, off, n, k, b, c)
<1> DEFINE at(x) == IF x - off \in 1 .. k THEN b ELSE IF x - off \in k + 1 .. n THEN c ELSE old[x]
<1>1. Len(old) \in Nat /\ DOMAIN old = 1 .. Len(old) /\ \A x \in 1 .. Len(old) : old[x] \in Content
  OBVIOUS
<1>2. ASSUME NEW x \in DOMAIN old
      PROVE  (CASE x - off \in 1 .. k -> b [] x - off \in k + 1 .. n -> c [] OTHER -> old[x]) = at(x)
  <2>1. x - off \in 1 .. k => x - off \notin k + 1 .. n
    BY <1>1, <1>2
  <2>2. QED
    BY <2>1
<1>3. After(old, off, n, k, b, c) = [x \in DOMAIN old |-> at(x)]
  BY <1>2 DEF After
<1>4. \A x \in DOMAIN old : at(x) \in Content
  BY <1>1
<1> HIDE DEF at
<1>5. After(old, off, n, k, b, c) \in [1 .. Len(old) -> Content]
  BY <1>1, <1>3, <1>4
<1>6. After(old, off, n, k, b, c) \in Seq(Content) /\ Len(After(old, off, n, k, b, c)) = Len(old)
  BY <1>1, <1>5
<1>7. QED
  BY <1>1, <1>3, <1>6 DEF at, Became

\* A call that puts bytes into one quantum.
LEMMA PutCall ==
    ASSUME ScullInv, ~wild, NEW t \in Tasks, Inside(t), UNCHANGED wild,
           NEW m \in Nat, Return(t, m), file[t].pos + m <= MaxPos,
           NEW g \in Pairs, g = file[t].copy, NEW pos \in Nat, pos = file[t].pos,
           NEW n \in Nat, Offset(pos, g) + n <= g[1], pos + n <= MaxPos,
           size' \in {size, NewSize(pos + n)},
           Slot(pos, g) <= Len(SetAt(Item(pos, g), g)),
           NEW q \in Seq(Content), ~stale' /\ q # <<>> => Len(q) = g[1],
           data' = Put(Item(pos, g), Slot(pos, g), g, q)
    PROVE  ScullInv'
<1>1. /\ ScullTypes /\ data \in Lists /\ geo' = geo /\ Len(data) \in Nat
      /\ semaphore' = Free /\ size \in 0 .. MaxPos /\ MaxPos \in Nat
  BY ScullDevAssumption DEF ScullInv, ScullTypes, Inside, Lists
<1> DEFINE i == Item(pos, g)
           s == Slot(pos, g)
<1>2. i \in Nat \ {0} /\ s \in Nat \ {0} /\ SetAt(i, g) \in Sets
  BY <1>1, PlacePositive, SetAtIs
<1>3. s \in 1 .. Len(SetAt(i, g))
  <2>1. Len(SetAt(i, g)) \in Nat
    BY <1>2 DEF Sets
  <2>2. QED
    BY <1>2, <2>1
<1>4. /\ data' \in Lists /\ Len(data) <= Len(data') /\ i <= Len(data')
      /\ Shaped(data, g) /\ (q # <<>> => Len(q) = g[1]) => Shaped(data', g)
  BY <1>1, <1>2, <1>3, Written
<1>5. Len(data') \in Nat
  BY <1>4 DEF Lists
<1>6. size' \in 0 .. MaxPos
  BY <1>1 DEF NewSize
<1>7. ScullTypes'
  BY <1>1, <1>4, <1>6, ReturnTypes DEF ScullTypes
<1>8. ASSUME ~stale' PROVE ScullInv'
  <2>1. g = geo /\ ~stale
    BY <1>8 DEF Inside
  <2>2. Shaped(data', geo')
    BY <1>1, <1>4, <1>8, <2>1 DEF ScullInv, ScullShaped
  <2>3. ScullShaped'
    BY <1>1, <2>2 DEF ScullShaped
  <2>4. ScullWithinBounds'
    BY DEF ScullWithinBounds
  <2>5. size <= Len(data') * g[1] * g[2]
    <3>1. size \in Nat /\ size <= Len(data) * g[1] * g[2]
      BY <1>1, <2>1 DEF ScullInv, ScullSizeCovered
    <3>2. QED
      BY <1>1, <1>4, <1>5, <3>1, CoverGrows
  <2>6. pos + n <= Len(data') * g[1] * g[2]
    BY <1>4, <1>5, EndCovered
  <2>7. ScullSizeCovered'
    BY <1>1, <2>1, <2>5, <2>6 DEF ScullSizeCovered, NewSize
  <2>8. QED
    BY <1>7, <2>3, <2>4, <2>7 DEF ScullInv
<1>9. QED
  BY <1>1, <1>7, <1>8, StaleCall DEF Inside

\* ... and what that does to the file: the bytes of the call are the new ones,
\* up to k they are b, and the others are what they were, unless the quantum is
\* new.
FileChanges(pos, n, k, b, c) ==
    /\ Flat \in [0 .. MaxPos - 1 -> Content \cup {Hole}]
    /\ Flat' \in [0 .. MaxPos - 1 -> Content \cup {Hole}]
    /\ \A p \in 0 .. MaxPos - 1 :
          IF p \in pos .. pos + n - 1
            THEN Flat'[p] = IF p < pos + k THEN b ELSE c
            ELSE Flat'[p] = Flat[p] \/ (Flat[p] = Hole /\ Flat'[p] = Junk)

LEMMA PutFile ==
    ASSUME ScullInv, NEW t \in Tasks, Inside(t), ~stale, ~stale',
           NEW g \in Pairs, g = geo, NEW pos \in Nat,
           NEW n \in Nat, Offset(pos, g) + n <= g[1], pos + n <= MaxPos,
           Slot(pos, g) <= Len(SetAt(Item(pos, g), g)),
           NEW b \in Byte, NEW c \in {b, Junk}, NEW k \in 0 .. n,
           data' = Put(Item(pos, g), Slot(pos, g), g,
                       After(Before(Item(pos, g), Slot(pos, g), g), Offset(pos, g), n, k, b, c))
    PROVE  FileChanges(pos, n, k, b, c)
<1> USE ScullDevAssumption
<1>1. ScullTypes /\ data \in Lists /\ geo' = geo /\ Shaped(data, g) /\ MaxPos \in Nat
  BY DEF ScullInv, ScullTypes, ScullShaped, Inside
<1> DEFINE i == Item(pos, g)
           s == Slot(pos, g)
           off == Offset(pos, g)
           old == Before(i, s, g)
           q == After(old, off, n, k, b, c)
<1>2. i \in Nat \ {0} /\ s \in Nat \ {0} /\ SetAt(i, g) \in Sets /\ SetShaped(SetAt(i, g), g)
  BY <1>1, PlacePositive, SetAtIs
<1>3. s \in 1 .. Len(SetAt(i, g))
  <2>1. Len(SetAt(i, g)) \in Nat
    BY <1>2 DEF Sets
  <2>2. QED
    BY <1>2, <2>1
<1>4. PICK quantum \in Nat \ {0} : quantum = g[1]
  BY PairOf
<1>5. old \in Seq(Content) /\ Len(old) = quantum
  <2>1. SetAt(i, g)[s] \in Seq(Content) /\ (SetAt(i, g)[s] # <<>> => Len(SetAt(i, g)[s]) = quantum)
    <3> HIDE DEF i, s
    <3>1. SetAt(i, g)[s] \in Seq(Content)
      BY <1>2, <1>3 DEF Sets
    <3>2. SetAt(i, g)[s] # <<>> => Len(SetAt(i, g)[s]) = g[1]
      BY <1>2, <1>3 DEF SetShaped
    <3>3. QED
      BY <1>4, <3>1, <3>2
  <2>2. [x \in 1 .. quantum |-> Junk] \in Seq(Content) /\ Len([x \in 1 .. quantum |-> Junk]) = quantum
    BY DEF Content
  <2>3. QED
    BY <1>4, <2>1, <2>2 DEF Before
<1>6. off \in Nat /\ off \in 0 .. quantum - 1 /\ off + n <= quantum
  BY <1>4, PlaceOf
<1>7. b \in Content /\ c \in Content
  BY DEF Content
<1>8. /\ q \in Seq(Content) /\ Len(q) = quantum
      /\ \A x \in 1 .. quantum :
            q[x] = IF x - off \in 1 .. k THEN b ELSE IF x - off \in k + 1 .. n THEN c ELSE old[x]
  <2>1. /\ q \in Seq(Content) /\ Len(q) = Len(old)
        /\ \A x \in 1 .. Len(old) :
              q[x] = IF x - off \in 1 .. k THEN b ELSE IF x - off \in k + 1 .. n THEN c ELSE old[x]
    <3> HIDE DEF off, old
    <3>1. PICK f \in Nat : f = off
      BY <1>6
    <3>2. PICK e \in Seq(Content) : e = old
      BY <1>5
    <3>3. PICK y \in Content, z \in Content : y = b /\ z = c
      BY <1>7
    <3>4. Became(After(e, f, n, k, y, z), e, f, n, k, y, z)
      BY AfterIs
    <3>5. QED
      BY <3>1, <3>2, <3>3, <3>4 DEF Became
  <2> HIDE DEF off, old, q
  <2>2. QED
    BY <1>5, <2>1
<1>9. /\ data' \in Lists
      /\ Shaped(data', g)
      /\ OnlyAt(data', g, i, s, q)
  <2> HIDE DEF i, s, q
  <2>1. data' = Put(i, s, g, q)
    BY DEF i, s, q
  <2>2. q # <<>> => Len(q) = g[1]
    BY <1>4, <1>8
  <2>3. QED
    BY <1>1, <1>2, <1>3, <1>8, <2>1, <2>2, Written
<1>10. q # <<>>
  BY <1>8
<1>11. ASSUME NEW p \in 0 .. MaxPos - 1, Item(p, g) = i, Slot(p, g) = s
       PROVE  IF p \in pos .. pos + n - 1
                THEN Seen(data', g, p) = IF p < pos + k THEN b ELSE c
                ELSE \/ Seen(data', g, p) = Seen(data, g, p)
                     \/ Seen(data, g, p) = Hole /\ Seen(data', g, p) = Junk
  <2>0. p \in Nat
    BY <1>1
  <2>1. PICK x \in 1 .. quantum : x = Offset(p, g) + 1 /\ x - off = p - pos + 1
    <3>1. PICK o \in 0 .. quantum - 1 : o = Offset(p, g)
      BY <1>4, <2>0, PlaceOf
    <3>2. p - pos = o - off
      BY <1>11, <2>0, <3>1, SameQuantum
    <3>3. o + 1 \in 1 .. quantum /\ o + 1 - off = p - pos + 1
      <4>1. PICK z \in Nat : z = off
        BY <1>6
      <4>2. p - pos = o - z
        BY <3>2, <4>1
      <4>3. o + 1 - z = p - pos + 1
        BY <2>0, <4>2
      <4>4. QED
        BY <4>1, <4>3
    <3>4. PICK x \in 1 .. quantum : x = o + 1
      BY <3>3
    <3>5. x = Offset(p, g) + 1
      BY <3>1, <3>4
    <3>6. x - off = p - pos + 1
      BY <1>6, <3>3, <3>4
    <3>7. QED
      BY <3>5, <3>6
  <2>2. Seen(data', g, p) = q[x]
    BY <1>1, <1>9, <1>10, <1>11, <2>1 DEF OnlyAt
  <2>3. Seen(data, g, p) = IF SetAt(i, g)[s] = <<>> THEN Hole ELSE SetAt(i, g)[s][x]
    BY <1>1, <1>11, <2>1, SeenBefore
  <2>4. old[x] = IF SetAt(i, g)[s] = <<>> THEN Junk ELSE SetAt(i, g)[s][x]
    BY <1>4, <2>1 DEF Before
  <2> HIDE DEF q, old, off
  <2>5. q[x] = IF p - pos + 1 \in 1 .. k THEN b ELSE IF p - pos + 1 \in k + 1 .. n THEN c ELSE old[x]
    BY <1>8, <2>1
  <2>6. CASE p \in pos .. pos + n - 1
    <3>1. p - pos + 1 \in 1 .. n /\ (p - pos + 1 \in 1 .. k <=> p < pos + k)
      BY <2>0, <2>6
    <3>2. ~(p - pos + 1 \in 1 .. k) => p - pos + 1 \in k + 1 .. n
      BY <2>0, <3>1
    <3>3. QED
      BY <2>2, <2>6, <2>5, <3>1, <3>2
  <2>7. CASE p \notin pos .. pos + n - 1
    <3>1. q[x] = old[x]
      <4>1. ~(p - pos + 1 \in 1 .. n)
        BY <2>0, <2>7
      <4>2. ~(p - pos + 1 \in 1 .. k) /\ ~(p - pos + 1 \in k + 1 .. n)
        BY <2>0, <4>1
      <4>3. QED
        BY <2>5, <4>2
    <3>2. QED
      BY <2>2, <2>3, <2>4, <2>7, <3>1
  <2>8. QED
    BY <2>6, <2>7
<1>12. ASSUME NEW p \in 0 .. MaxPos - 1, p \in pos .. pos + n - 1
       PROVE  Item(p, g) = i /\ Slot(p, g) = s
  <2>1. p \in Nat
    BY <1>1
  <2>2. p - pos + off \in 0 .. quantum - 1
    BY <1>6, <1>12
  <2>3. p - pos + off \in 0 .. g[1] - 1
    BY <1>4, <2>2
  <2>4. QED
    BY <2>1, <2>3, NextInQuantum
<1>13. ASSUME NEW p \in 0 .. MaxPos - 1
       PROVE  IF p \in pos .. pos + n - 1
                THEN Seen(data', g, p) = IF p < pos + k THEN b ELSE c
                ELSE \/ Seen(data', g, p) = Seen(data, g, p)
                     \/ Seen(data, g, p) = Hole /\ Seen(data', g, p) = Junk
  BY <1>1, <1>9, <1>11, <1>12 DEF OnlyAt
<1>14. ASSUME NEW d \in Lists, Shaped(d, g), NEW p \in Nat PROVE Seen(d, g, p) \in Content \cup {Hole}
  <2>1. Item(p, g) \in Nat \ {0} /\ Slot(p, g) \in Nat \ {0}
    BY PlacePositive
  <2>2. Len(d) \in Nat /\ \A x \in 1 .. Len(d) : d[x] \in Sets
    BY DEF Lists
  <2>3. CASE Item(p, g) <= Len(d)
    <3>1. d[Item(p, g)] \in Sets /\ (d[Item(p, g)] # NoSet => SetShaped(d[Item(p, g)], g))
      BY <1>14, <2>1, <2>2, <2>3 DEF Shaped
    <3>2. PICK set \in Sets : set = d[Item(p, g)] /\ (set # NoSet => SetShaped(set, g))
      BY <3>1
    <3>3. Len(set) \in Nat
      BY DEF Sets
    <3>4. CASE Slot(p, g) <= Len(set)
      <4>1. set[Slot(p, g)] \in Seq(Content)
        BY <2>1, <3>3, <3>4 DEF Sets
      <4>2. set # NoSet
        BY <2>1, <3>4 DEF NoSet
      <4>3. set[Slot(p, g)] # <<>> => Len(set[Slot(p, g)]) = quantum
        <5>1. Slot(p, g) \in 1 .. Len(set)
          BY <2>1, <3>3, <3>4
        <5>2. set[Slot(p, g)] # <<>> => Len(set[Slot(p, g)]) = g[1]
          BY <3>2, <4>2, <5>1 DEF SetShaped
        <5>3. QED
          BY <1>4, <5>2
      <4>4. Offset(p, g) + 1 \in 1 .. quantum
        <5>1. PICK o \in 0 .. quantum - 1 : o = Offset(p, g)
          BY <1>4, PlaceOf
        <5>2. QED
          BY <5>1
      <4>5. set[Slot(p, g)] # <<>> => set[Slot(p, g)][Offset(p, g) + 1] \in Content
        BY <4>1, <4>3, <4>4
      <4>6. QED
        BY <2>1, <2>2, <2>3, <3>2, <3>3, <3>4, <4>5 DEF Seen
    <3>5. CASE Slot(p, g) > Len(set)
      BY <3>2, <3>5 DEF Seen
    <3>6. QED
      BY <2>1, <3>3, <3>4, <3>5
  <2>4. CASE Item(p, g) > Len(d)
    BY <2>4 DEF Seen
  <2>5. QED
    BY <2>1, <2>2, <2>3, <2>4
<1>15. /\ Flat = [p \in 0 .. MaxPos - 1 |-> Seen(data, g, p)]
       /\ Flat' = [p \in 0 .. MaxPos - 1 |-> Seen(data', g, p)]
  BY <1>1, FlatIs, FlatNext
<1>16. \A p \in 0 .. MaxPos - 1 : Seen(data, g, p) \in Content \cup {Hole} /\ Seen(data', g, p) \in Content \cup {Hole}
  BY <1>1, <1>9, <1>14
<1>17. QED
  BY <1>13, <1>15, <1>16 DEF FileChanges

\* A new set for the item, and nothing in it yet.
LEMMA SetPut ==
    ASSUME ScullInv, NEW t \in Tasks, Inside(t), NEW g \in Pairs, NEW pos \in Nat,
           Slot(pos, g) <= Len(SetAt(Item(pos, g), g)), SetAt(Item(pos, g), g)[Slot(pos, g)] = <<>>,
           data' = [Followed(Item(pos, g)) EXCEPT ![Item(pos, g)] = SetAt(Item(pos, g), g)]
    PROVE  /\ data' = Put(Item(pos, g), Slot(pos, g), g, <<>>)
           /\ g = geo => Flat' = Flat
<1>1. /\ data \in Lists /\ geo' = geo /\ MaxPos \in Nat
  BY ScullDevAssumption DEF ScullInv, ScullTypes, Inside
<1> DEFINE i == Item(pos, g)
           s == Slot(pos, g)
<1>2. i \in Nat \ {0} /\ s \in Nat \ {0} /\ SetAt(i, g) \in Sets
  BY <1>1, PlacePositive, SetAtIs
<1>3. s \in 1 .. Len(SetAt(i, g)) /\ DOMAIN SetAt(i, g) = 1 .. Len(SetAt(i, g))
  <2>1. Len(SetAt(i, g)) \in Nat /\ DOMAIN SetAt(i, g) = 1 .. Len(SetAt(i, g))
    BY <1>2 DEF Sets
  <2>2. QED
    BY <1>2, <2>1
<1>4. [SetAt(i, g) EXCEPT ![s] = <<>>] = SetAt(i, g)
  BY <1>2, <1>3 DEF Sets
<1>5. data' = Put(i, s, g, <<>>)
  BY <1>4 DEF Put
<1>6. \A p \in Nat :
        /\ Item(p, g) = i /\ Slot(p, g) = s => Seen(data', g, p) = Hole
        /\ ~(Item(p, g) = i /\ Slot(p, g) = s) => Seen(data', g, p) = Seen(data, g, p)
  <2> HIDE DEF i, s
  <2>1. <<>> \in Seq(Content)
    OBVIOUS
  <2>2. PICK q \in Seq(Content) : q = <<>>
    BY <2>1
  <2>3. OnlyAt(data', g, i, s, q)
    BY <1>1, <1>2, <1>3, <1>5, <2>2, Written
  <2>4. QED
    BY <2>2, <2>3 DEF OnlyAt
<1>7. ASSUME g = geo, NEW p \in 0 .. MaxPos - 1 PROVE Seen(data', g, p) = Seen(data, g, p)
  <2>1. p \in Nat
    BY <1>1
  <2>2. CASE Item(p, g) = i /\ Slot(p, g) = s
    <3>1. Seen(data', g, p) = Hole
      BY <1>6, <2>1, <2>2
    <3>2. Seen(data, g, p) = Hole
      BY <1>1, <2>1, <2>2, SeenBefore
    <3>3. QED
      BY <3>1, <3>2
  <2>3. CASE ~(Item(p, g) = i /\ Slot(p, g) = s)
    BY <1>6, <2>1, <2>3
  <2>4. QED
    BY <2>2, <2>3
<1>8. g = geo => Flat' = Flat
  BY <1>1, <1>7, FlatIs, FlatNext
<1>9. QED
  BY <1>5, <1>8

LEMMA BeforeIs ==
    ASSUME data \in Lists, NEW g \in Pairs, NEW i \in Nat \ {0}, NEW s \in 1 .. Len(SetAt(i, g))
    PROVE  /\ Before(i, s, g) \in Seq(Content)
           /\ Shaped(data, g) => Len(Before(i, s, g)) = g[1]
<1>1. SetAt(i, g) \in Sets /\ (Shaped(data, g) => SetShaped(SetAt(i, g), g))
  BY SetAtIs
<1>2. /\ SetAt(i, g)[s] \in Seq(Content)
      /\ Shaped(data, g) => (SetAt(i, g)[s] # <<>> => Len(SetAt(i, g)[s]) = g[1])
  BY <1>1 DEF Sets, SetShaped
<1>3. PICK quantum \in Nat \ {0} : quantum = g[1]
  BY PairOf
<1>4. [x \in 1 .. quantum |-> Junk] \in Seq(Content) /\ Len([x \in 1 .. quantum |-> Junk]) = quantum
  BY DEF Content
<1>5. QED
  BY <1>2, <1>3, <1>4 DEF Before

\* A write: the types and the shape stay, and it is a write to the file, one that
\* fails, or none.
LEMMA WriteCall ==
    ASSUME ScullInv, ~wild, NEW t \in Tasks, NEW b \in Byte,
           NEW count \in Counts(file[t].pos), WriteSome(t, count, b)
    PROVE  ScullInv' /\ (~stale /\ ~stale' => File!Next)
<1> DEFINE g == file[t].copy
           pos == file[t].pos
           i == Item(pos, g)
           s == Slot(pos, g)
           off == Offset(pos, g)
           n == Least(count, g[1] - off)
<1>1. Inside(t) /\ WriteGoes(t, g, pos, i, s, off, n, b)
  BY WriteIs
<1>2. /\ ScullTypes /\ data \in Lists /\ geo' = geo /\ size \in 0 .. MaxPos
  BY <1>1 DEF ScullInv, ScullTypes, Inside
<1>3. /\ g \in Pairs /\ pos \in Nat /\ pos < MaxPos /\ MaxPos \in Nat
      /\ i \in Nat \ {0} /\ s \in Nat \ {0} /\ s <= g[2]
      /\ g[1] \in Nat \ {0} /\ g[2] \in Nat \ {0}
      /\ off \in 0 .. g[1] - 1 /\ n \in 0 .. count /\ off + n <= g[1] /\ pos + n <= MaxPos
      /\ (~stale' => ~stale /\ g = geo)
  BY <1>1, <1>2, CallIs
<1>4. ~stale' => Shaped(data, g)
  BY <1>3 DEF ScullInv, ScullShaped
<1> HIDE DEF g, pos, i, s, off, n
<1>5. count \in Nat /\ n \in Nat /\ n \in 0 .. MaxPos /\ pos \in 0 .. MaxPos - 1
  <2>1. pos + count <= MaxPos /\ count \in Nat
    BY <1>3 DEF pos, Counts
  <2>2. QED
    BY <1>3, <2>1
<1>6. CASE Failing(t) /\ \E m \in Nat : data' = Followed(m)
  BY <1>1, <1>6, QuietCall
<1>7. CASE Astray(t) /\ stale'
  BY <1>1, <1>7, AstrayCall
<1>8. s <= Len(SetAt(i, g)) => s \in 1 .. Len(SetAt(i, g))
  <2>1. SetAt(i, g) \in Sets
    BY <1>2, <1>3, SetAtIs
  <2>2. Len(SetAt(i, g)) \in Nat
    BY <2>1 DEF Sets
  <2>3. QED
    BY <1>3, <2>2
<1>9. CASE /\ s <= Len(SetAt(i, g)) /\ SetAt(i, g)[s] = <<>>
           /\ data' = [Followed(i) EXCEPT ![i] = SetAt(i, g)] /\ Failing(t)
  <2>1. data' = Put(i, s, g, <<>>) /\ (g = geo => Flat' = Flat)
    BY <1>1, <1>3, <1>9, SetPut DEF i, s
  <2>2. PICK q \in Seq(Content), m \in Nat : q = <<>> /\ m = 0 /\ pos + m <= MaxPos
    <3>1. <<>> \in Seq(Content) /\ pos + 0 <= MaxPos
      BY <1>3
    <3>2. QED
      BY <3>1
  <2>3. ScullInv'
    <3>1. Return(t, m) /\ UNCHANGED wild /\ size' \in {size, NewSize(pos + n)}
      BY <1>9, <2>2 DEF Failing
    <3>2. data' = Put(i, s, g, q)
      BY <2>1, <2>2
    <3>3. /\ g = file[t].copy /\ pos = file[t].pos
          /\ i = Item(pos, g) /\ s = Slot(pos, g) /\ off = Offset(pos, g)
      BY DEF g, pos, i, s, off
    <3>4. /\ ScullInv /\ ~wild /\ Inside(t) /\ UNCHANGED wild
          /\ file[t].pos + m <= MaxPos /\ Offset(pos, g) + n <= g[1]
          /\ Slot(pos, g) <= Len(SetAt(Item(pos, g), g)) /\ (~stale' /\ q # <<>> => Len(q) = g[1])
          /\ data' = Put(Item(pos, g), Slot(pos, g), g, q)
      BY <1>1, <1>3, <1>9, <2>2, <3>1, <3>2, <3>3
    <3>5. g \in Pairs /\ pos \in Nat /\ n \in Nat /\ pos + n <= MaxPos
      BY <1>3, <1>5
    <3>6. QED
      BY <3>1, <3>3, <3>4, <3>5, PutCall
  <2>4. ~stale' => File!Other
    BY <1>3, <1>9, <2>1 DEF Failing, File!Other
  <2>5. QED
    BY <2>3, <2>4 DEF File!Next
<1>10. ASSUME s <= Len(SetAt(i, g)), NEW k \in 0 .. n, NEW c \in {b, Junk},
              data' = Put(i, s, g, After(Before(i, s, g), off, n, k, b, c)), UNCHANGED wild,
              \/ size' = NewSize(pos + n) /\ Return(t, n)
              \/ size' = size /\ Return(t, 0)
       PROVE  ScullInv'
  <2> DEFINE old == Before(i, s, g)
             q == After(old, off, n, k, b, c)
  <2>1. old \in Seq(Content) /\ (~stale' => Len(old) = g[1])
    BY <1>2, <1>3, <1>4, <1>8, <1>10, BeforeIs
  <2>2. q \in Seq(Content) /\ Len(q) = Len(old)
    <3> HIDE DEF old
    <3>1. PICK e \in Seq(Content), f \in Nat, y \in Content, z \in Content :
             e = old /\ f = off /\ y = b /\ z = c
      BY <1>3, <2>1 DEF Content
    <3>2. Became(After(e, f, n, k, y, z), e, f, n, k, y, z)
      BY <1>5, AfterIs
    <3>3. QED
      BY <3>1, <3>2 DEF Became
  <2> HIDE DEF old, q
  <2>3. data' = Put(i, s, g, q)
    BY <1>10 DEF old, q
  <2>4. PICK m \in Nat : Return(t, m) /\ pos + m <= MaxPos /\ size' \in {size, NewSize(pos + n)}
    BY <1>3, <1>5, <1>10
  <2>5. QED
    BY <1>1, <1>3, <1>5, <1>10, <2>1, <2>2, <2>3, <2>4, PutCall DEF g, pos, i, s, off
<1>11. ASSUME s <= Len(SetAt(i, g)), NEW k \in 0 .. n, NEW c \in {b, Junk},
              data' = Put(i, s, g, After(Before(i, s, g), off, n, k, b, c)), ~stale'
       PROVE  FileChanges(pos, n, k, b, c)
  BY <1>1, <1>3, <1>5, <1>11, PutFile DEF i, s, off
<1>12. CASE /\ s <= Len(SetAt(i, g))
            /\ data' = Put(i, s, g, After(Before(i, s, g), off, n, n, b, b))
            /\ size' = NewSize(pos + n) /\ Return(t, n) /\ UNCHANGED wild /\ got' = <<>>
  <2>1. n \in 0 .. n
    BY <1>5
  <2>2. ScullInv'
    BY <1>10, <1>12, <2>1
  <2>3. ASSUME ~stale' PROVE IF n = 0 THEN File!EmptyWrite ELSE File!Write
    <3>1. File!Stored(pos, n, b)
      <4>1. \A p \in 0 .. MaxPos - 1 :
                    IF p \in pos .. pos + n - 1
                      THEN Flat'[p] = IF p < pos + n THEN b ELSE b
                      ELSE Flat'[p] = Flat[p] \/ (Flat[p] = Hole /\ Flat'[p] = Junk)
        BY <1>11, <1>12, <2>1, <2>3 DEF FileChanges
      <4>2. QED
        BY <4>1 DEF File!Stored, File!Positions
    <3>2. size' = IF size < pos + n THEN pos + n ELSE size
      BY <1>12 DEF NewSize
    <3>3. CASE n = 0
      <4>1. pos \in 0 .. MaxPos /\ pos + n = pos
        BY <1>3, <3>3
      <4>2. \A p \in File!Positions : Flat'[p] = Flat[p] \/ (Flat[p] = Hole /\ Flat'[p] = Junk)
        <5>1. \A p \in File!Positions : p \notin pos .. pos + n - 1
          BY <1>3, <3>3, ScullDevAssumption DEF File!Positions
        <5>2. QED
          BY <3>1, <5>1 DEF File!Stored
      <4>3. QED
        BY <1>12, <3>2, <3>3, <4>1, <4>2 DEF File!EmptyWrite
    <3>4. CASE n # 0
      <4>1. n \in 1 .. MaxPos
        BY <1>5, <3>4
      <4>2. QED
        BY <1>5, <1>12, <3>1, <3>2, <3>4, <4>1 DEF File!Write, File!Positions
    <3>5. QED
      BY <3>3, <3>4
  <2>4. QED
    BY <2>2, <2>3 DEF File!Next
<1>13. ASSUME s <= Len(SetAt(i, g)), Failing(t),
              NEW k \in 0 .. n - 1, data' = Put(i, s, g, After(Before(i, s, g), off, n, k, b, Junk))
       PROVE  ScullInv' /\ (~stale /\ ~stale' => File!Next)
  <2>1. k \in 0 .. n
    BY <1>5, <1>13
  <2>2. ScullInv'
    BY <1>10, <1>13, <2>1 DEF Failing
  <2>3. ASSUME ~stale' PROVE File!WriteFailed
    <3>1. /\ Flat \in [0 .. MaxPos - 1 -> Content \cup {Hole}]
          /\ \A p \in 0 .. MaxPos - 1 :
                    IF p \in pos .. pos + n - 1
                      THEN Flat'[p] = IF p < pos + k THEN b ELSE Junk
                      ELSE Flat'[p] = Flat[p] \/ (Flat[p] = Hole /\ Flat'[p] = Junk)
      BY <1>11, <1>13, <2>1, <2>3 DEF FileChanges
    <3>2. \A p \in 0 .. MaxPos - 1 : Flat'[p] \in {Flat[p], Junk} \cup Byte
      BY <3>1
    <3>3. n \in 0 .. MaxPos
      BY <1>5
    <3>4. \A p \in File!Positions \ (pos .. pos + n - 1) :
              Flat'[p] = Flat[p] \/ (Flat[p] = Hole /\ Flat'[p] = Junk)
      BY <3>1 DEF File!Positions
    <3>5. QED
      BY <1>5, <1>13, <3>2, <3>3, <3>4 DEF File!WriteFailed, File!Positions, Failing
  <2>4. QED
    BY <2>2, <2>3 DEF File!Next
<1>14. s > Len(SetAt(i, g)) \/ (s <= Len(SetAt(i, g)) /\ ~Holds(Before(i, s, g), off, n)) => stale'
  <2>1. SUFFICES ASSUME ~stale' PROVE s <= Len(SetAt(i, g)) /\ off + n <= Len(Before(i, s, g))
    <3>1. Len(SetAt(i, g)) \in Nat
      BY <1>2, <1>3, SetAtIs DEF Sets
    <3>2. s <= Len(SetAt(i, g)) => Len(Before(i, s, g)) \in Nat
      BY <1>2, <1>3, <1>8, BeforeIs
    <3>3. off + n \in Nat
      BY <1>3, <1>5
    <3>4. QED
      BY <1>1, <1>3, <3>1, <3>2, <3>3 DEF Inside, Holds
  <2>2. Len(SetAt(i, g)) = g[2]
    BY <1>2, <1>3, <1>4, <2>1, SetAtIs DEF SetShaped
  <2>3. s \in 1 .. Len(SetAt(i, g))
    BY <1>3, <1>8, <2>2
  <2>4. Len(Before(i, s, g)) = g[1]
    BY <1>2, <1>3, <1>4, <2>1, <2>3, BeforeIs
  <2>5. QED
    BY <1>3, <2>2, <2>4
<1>15. ASSUME NEW m \in Len(data) .. i - 1 PROVE m \in Nat
  <2>1. Len(data) \in Nat
    BY <1>2 DEF Lists
  <2>2. QED
    BY <1>3, <1>15, <2>1
<1>16. QED
  BY <1>1, <1>3, <1>6, <1>7, <1>9, <1>12, <1>13, <1>14, <1>15 DEF WriteGoes

\* A read: what is copied are the bytes of the file, and none of them a hole.
LEMMA ReadCall ==
    ASSUME ScullInv, ~wild, NEW t \in Tasks,
           NEW count \in Counts(file[t].pos), ReadSome(t, count)
    PROVE  ScullInv' /\ (~stale /\ ~stale' => File!Next)
<1> DEFINE g == file[t].copy
           pos == file[t].pos
           i == Item(pos, g)
           s == Slot(pos, g)
           off == Offset(pos, g)
           n == Least(Least(count, size - pos), g[1] - off)
<1>1. /\ Inside(t)
      /\ \/ data' = data /\ Failing(t)
         \/ \E m \in Len(data) .. i - 1 : data' = Followed(m) /\ Failing(t)
         \/ data' = Followed(i) /\ Failing(t)
         \/ /\ pos < size /\ i <= Len(data) /\ data[i] # NoSet
            /\ \/ s > Len(data[i]) /\ Astray(t)
               \/ /\ s <= Len(data[i]) /\ data[i][s] # <<>>
                  /\ \/ ~Holds(data[i][s], off, n) /\ Astray(t)
                     \/ /\ Holds(data[i][s], off, n)
                        /\ got' = SubSeq(data[i][s], off + 1, off + n)
                        /\ Return(t, n) /\ UNCHANGED <<data, size, wild>>
  BY ReadIs
<1>2. /\ ScullTypes /\ data \in Lists /\ geo' = geo /\ size \in 0 .. MaxPos /\ Len(data) \in Nat
  <2>1. ScullTypes /\ data \in Lists /\ size \in 0 .. MaxPos
    BY DEF ScullInv, ScullTypes
  <2>2. geo' = geo
    BY <1>1 DEF Inside
  <2>3. Len(data) \in Nat
    BY <2>1 DEF Lists
  <2>4. QED
    BY <2>1, <2>2, <2>3
<1>3. /\ g \in Pairs /\ pos \in Nat /\ pos < MaxPos /\ MaxPos \in Nat
      /\ i \in Nat \ {0} /\ s \in Nat \ {0} /\ s <= g[2]
      /\ g[1] \in Nat \ {0} /\ g[2] \in Nat \ {0} /\ off \in 0 .. g[1] - 1
      /\ (~stale' => ~stale /\ g = geo)
  BY <1>1, <1>2, CallIs
<1>4. ~stale' => Shaped(data, g)
  BY <1>3 DEF ScullInv, ScullShaped
<1>5. pos < size => n \in 0 .. MaxPos /\ off + n <= g[1] /\ pos + n <= size
  <2>1. count \in Nat /\ pos + count <= MaxPos
    BY <1>3 DEF Counts
  <2> HIDE DEF pos, off
  <2>2. PICK a \in Nat, o \in Nat, z \in Nat : a = g[1] /\ o = off /\ z = size /\ o < a
    BY <1>2, <1>3
  <2> HIDE DEF g
  <2>3. pos < z => /\ Least(Least(count, z - pos), a - o) \in 0 .. MaxPos
                   /\ o + Least(Least(count, z - pos), a - o) <= a
                   /\ pos + Least(Least(count, z - pos), a - o) <= z
    BY <1>3, <2>1, <2>2 DEF Least
  <2>4. QED
    BY <2>2, <2>3
<1> HIDE DEF g, pos, i, s, off, n
<1>6. CASE Failing(t) /\ (data' = data \/ \E m \in Nat : data' = Followed(m))
  BY <1>1, <1>6, QuietCall
<1>7. CASE Astray(t) /\ stale'
  BY <1>1, <1>7, AstrayCall
<1>8. ASSUME i <= Len(data), data[i] # NoSet
      PROVE  /\ data[i] \in Sets /\ Len(data[i]) \in Nat
             /\ s <= Len(data[i]) => data[i][s] \in Seq(Content) /\ Len(data[i][s]) \in Nat
             /\ ~stale' => s <= Len(data[i]) /\ (data[i][s] # <<>> => Len(data[i][s]) = g[1])
  <2>1. i \in 1 .. Len(data)
    BY <1>2, <1>3, <1>8
  <2>2. PICK set \in Sets : set = data[i]
    BY <1>2, <2>1 DEF Lists
  <2>3. Len(set) \in Nat
    BY DEF Sets
  <2>4. s <= Len(set) => set[s] \in Seq(Content)
    BY <1>3, <2>3 DEF Sets
  <2>5. ~stale' => SetShaped(set, g)
    BY <1>4, <1>8, <2>1, <2>2 DEF Shaped
  <2>6. ~stale' => s \in 1 .. Len(set) /\ (set[s] # <<>> => Len(set[s]) = g[1])
    BY <1>3, <2>3, <2>5 DEF SetShaped
  <2>7. QED
    BY <2>2, <2>3, <2>4, <2>6
<1>9. CASE /\ pos < size /\ i <= Len(data) /\ data[i] # NoSet
           /\ s <= Len(data[i]) /\ data[i][s] # <<>>
           /\ got' = SubSeq(data[i][s], off + 1, off + n)
           /\ Return(t, n) /\ UNCHANGED <<data, size, wild>>
  <2>1. n \in 0 .. MaxPos /\ off + n <= g[1] /\ pos + n <= size /\ pos + n <= MaxPos /\ n \in Nat
    <3>1. n \in 0 .. MaxPos /\ off + n <= g[1] /\ pos + n <= size
      BY <1>5, <1>9
    <3>2. MaxPos \in Nat /\ size \in Nat /\ size <= MaxPos /\ pos \in Nat
      BY <1>2, <1>3
    <3>3. QED
      BY <3>1, <3>2
  <2>2. ScullTypes'
    <3>1. data' \in Lists /\ size' \in 0 .. MaxPos /\ wild' \in BOOLEAN
      BY <1>2, <1>9 DEF ScullTypes
    <3>2. QED
      BY <1>1, <1>2, <1>9, <2>1, <3>1, ReturnTypes DEF pos
  <2>3. ScullInv'
    <3>1. ASSUME ~stale' PROVE ScullInv'
      <4>1. ScullShaped'
        BY <1>1, <1>2, <1>3, <1>4, <1>9, <3>1 DEF ScullShaped, Inside
      <4>2. ScullSizeCovered' /\ ScullWithinBounds'
        BY <1>2, <1>3, <1>9, <3>1 DEF ScullInv, ScullSizeCovered, ScullWithinBounds
      <4>3. QED
        BY <2>2, <4>1, <4>2 DEF ScullInv
    <3>2. QED
      BY <1>1, <2>2, <3>1, StaleCall DEF Inside
  <2>4. ASSUME ~stale' PROVE File!Read
    <3>1. PICK quantum : quantum = data[i][s] /\ quantum \in Seq(Content) /\ Len(quantum) = g[1]
      BY <1>8, <1>9, <2>4
    <3>2. \A x \in 1 .. n : Flat[pos + x - 1] = quantum[off + x] /\ quantum[off + x] \in Content
      <4>1. SUFFICES ASSUME NEW x \in 1 .. n
                     PROVE  Flat[pos + x - 1] = quantum[off + x] /\ quantum[off + x] \in Content
        OBVIOUS
      <4>2. PICK p \in 0 .. MaxPos - 1 : p = pos + x - 1
        BY <1>3, <2>1
      <4>3. p \in Nat /\ p - pos + off \in 0 .. g[1] - 1 /\ p - pos + off = off + x - 1
        BY <1>3, <2>1, <4>2
      <4>4. Item(p, g) = i /\ Slot(p, g) = s /\ Offset(p, g) = p - pos + off
        BY <1>3, <4>3, NextInQuantum DEF i, s, off
      <4>5. Offset(p, g) + 1 = off + x
        BY <1>3, <4>3, <4>4
      <4>6. Seen(data, g, p) = data[i][s][off + x]
        <5>1. ~(i > Len(data)) /\ ~(s > Len(data[i]))
          <6>1. Len(data[i]) \in Nat
            BY <1>8, <1>9
          <6>2. i \in Nat /\ s \in Nat /\ Len(data) \in Nat
            BY <1>2, <1>3
          <6>3. i <= Len(data) /\ s <= Len(data[i])
            BY <1>9
          <6>4. QED
            BY <6>1, <6>2, <6>3
        <5>2. QED
          BY <1>9, <4>4, <4>5, <5>1 DEF Seen
      <4>7. Flat[p] = Seen(data, geo, p)
        BY FlatIs
      <4>8. off + x \in 1 .. Len(quantum)
        <5>1. off \in Nat /\ n \in Nat /\ g[1] \in Nat /\ off + n <= g[1]
          BY <1>3, <2>1
        <5>2. x \in Nat /\ 1 <= x /\ x <= n
          BY <5>1
        <5>3. Len(quantum) = g[1]
          BY <3>1
        <5>4. QED
          BY <5>1, <5>2, <5>3
      <4>9. Flat[p] = quantum[off + x]
        BY <1>3, <2>4, <3>1, <4>6, <4>7
      <4>10. quantum[off + x] \in Content
        BY <3>1, <4>8
      <4>11. QED
        BY <4>2, <4>9, <4>10
    <3>3. got' = [x \in 1 .. n |-> Flat[pos + x - 1]]
      <4>1. got' = SubSeq(quantum, off + 1, off + n) /\ off + n <= Len(quantum) /\ off \in Nat
        BY <1>3, <1>9, <2>1, <3>1
      <4>2. SubSeq(quantum, off + 1, off + n) = [x \in 1 .. n |-> quantum[off + x]]
        BY <2>1, <3>1, <4>1
      <4>3. QED
        BY <3>2, <4>1, <4>2
    <3>4. \A x \in 1 .. n : got'[x] # Hole
      BY <3>2, <3>3, ScullDevAssumption DEF Content
    <3>5. Flat' = Flat
      BY <1>2, <1>9, FlatIs, FlatNext
    <3>6. pos \in 0 .. MaxPos - 1 /\ n \in 0 .. MaxPos
      BY <1>3, <2>1
    <3>7. QED
      BY <1>9, <2>1, <3>3, <3>4, <3>5, <3>6 DEF File!Read, File!Positions
  <2>5. QED
    BY <2>3, <2>4 DEF File!Next
<1>10. ASSUME pos < size, i <= Len(data), data[i] # NoSet,
              s > Len(data[i]) \/ (s <= Len(data[i]) /\ data[i][s] # <<>> /\ ~Holds(data[i][s], off, n))
       PROVE  stale'
  <2>1. off + n \in Nat /\ off + n <= g[1]
    BY <1>3, <1>5, <1>10
  <2>2. stale' \in BOOLEAN
    BY <1>1 DEF Inside
  <2>3. QED
    BY <1>3, <1>8, <1>10, <2>1, <2>2 DEF Holds
<1>11. ASSUME NEW m \in Len(data) .. i - 1 PROVE m \in Nat
  BY <1>2, <1>3, <1>11
<1>12. QED
  BY <1>1, <1>3, <1>6, <1>7, <1>9, <1>10, <1>11

-----------------------------------------------------------------------------
(* scull: the other steps.                                                 *)

\* A step that leaves the device as it is.
LEMMA DeviceUntouched ==
    ASSUME ScullInv, ScullTypes', UNCHANGED <<data, size, geo, semaphore, stale, wild>>, got' = <<>>
    PROVE  ScullInv' /\ File!Next
<1>1. ScullInv'
  BY DEF ScullInv, ScullShaped, ScullWithinBounds, ScullSizeCovered
<1>2. Flat' = Flat
  BY FlatIs, FlatNext
<1>3. QED
  BY <1>1, <1>2 DEF File!Next, File!Other

LEMMA OpenStep ==
    ASSUME ScullInv, NEW t \in Tasks, OpenKeep(t) \/ Close(t)
    PROVE  ScullInv' /\ File!Next
<1>1. ScullTypes /\ file[t] \in Files /\ semaphore # t
  BY DEF ScullInv, ScullTypes, OpenKeep, Close
<1>2. PICK f \in Files : file' = [file EXCEPT ![t] = f] /\ f.pc \in {"idle", "closed"}
  <2>1. Closed \in Files /\ Closed.pc = "closed"
    BY ScullDevAssumption DEF Closed, Files
  <2>2. [file[t] EXCEPT !.pc = "idle"] \in Files
    BY <1>1 DEF Files
  <2>3. OpenKeep(t) => file' = [file EXCEPT ![t] = [file[t] EXCEPT !.pc = "idle"]]
    BY <1>1 DEF OpenKeep, Goto, ScullTypes
  <2>4. QED
    BY <1>1, <2>1, <2>2, <2>3 DEF Close, Files
<1>3. /\ file' \in [Tasks -> Files]
      /\ \A u \in Tasks : IF u = t THEN file'[u].pc \in {"idle", "closed"} ELSE file'[u] = file[u]
  BY <1>1, <1>2 DEF ScullTypes
<1>4. UNCHANGED <<data, size, geo, param, semaphore, stale, wild>> /\ got' = <<>>
  BY DEF OpenKeep, Close
<1>5. ScullTypes'
  BY <1>1, <1>3, <1>4 DEF ScullTypes
<1>6. QED
  BY <1>4, <1>5, DeviceUntouched

LEMMA SeekStep ==
    ASSUME ScullInv, NEW t \in Tasks, Seek(t)
    PROVE  ScullInv' /\ File!Next
<1>1. ScullTypes /\ file[t] \in Files /\ file[t].pc = "idle" /\ semaphore # t
  BY DEF ScullInv, ScullTypes, Seek
<1>2. PICK x \in 0 .. MaxPos : file' = [file EXCEPT ![t].pos = x]
  <2>1. MaxPos \in Nat /\ -MaxPos \in Int
    BY ScullDevAssumption
  <2>2. PICK x \in -MaxPos .. MaxPos : x >= 0 /\ file' = [file EXCEPT ![t].pos = x]
    BY DEF Seek, ValidPosition
  <2>3. x \in 0 .. MaxPos
    BY <2>1, <2>2
  <2>4. QED
    BY <2>2, <2>3
<1>3. file' = [file EXCEPT ![t] = [file[t] EXCEPT !.pos = x]] /\ [file[t] EXCEPT !.pos = x] \in Files
  BY <1>1, <1>2 DEF ScullTypes, Files
<1>4. /\ file' \in [Tasks -> Files]
      /\ \A u \in Tasks : IF u = t THEN file'[u].pc = "idle" ELSE file'[u] = file[u]
  BY <1>1, <1>3 DEF ScullTypes, Files
<1>5. UNCHANGED <<data, size, geo, param, semaphore, stale, wild>> /\ got' = <<>>
  BY DEF Seek
<1>6. ScullTypes'
  BY <1>1, <1>4, <1>5 DEF ScullTypes
<1>7. QED
  BY <1>5, <1>6, DeviceUntouched

\* The copies are of what the device has.
LEMMA CopyStep ==
    ASSUME ScullInv, NEW t \in Tasks, CopyQuantum(t) \/ CopyQset(t)
    PROVE  ScullInv' /\ File!Next
<1>1. /\ ScullTypes /\ file[t] \in Files /\ semaphore # t
      /\ geo = <<geo[1], geo[2]>> /\ geo[1] \in Quanta /\ geo[2] \in Qsets
      /\ geo[1] \in Nat /\ geo[2] \in Nat
  BY GeosArePairs, PairOf DEF ScullInv, ScullTypes, CopyQuantum, CopyQset, Geos
<1>2. PICK c : c = file[t].copy /\ c \in Nat \X Nat /\ c = <<c[1], c[2]>>
  BY <1>1 DEF Files
<1>3. /\ [c EXCEPT ![1] = geo[1]] = <<geo[1], c[2]>>
      /\ [c EXCEPT ![2] = geo[2]] = <<c[1], geo[2]>>
  BY <1>2
<1>4. PICK f \in Files : /\ file' = [file EXCEPT ![t] = f]
                         /\ f.pc \in {"begun", "called"}
                         /\ f.pc = "begun" => f.copy[1] \in Quanta
                         /\ f.pc = "called" => f.copy \in Geos
  <2>1. CASE CopyQuantum(t)
    <3> DEFINE f == [file[t] EXCEPT !.pc = "begun", !.copy = <<geo[1], c[2]>>]
    <3>1. f \in Files /\ f.pc = "begun" /\ f.copy[1] \in Quanta
      BY <1>1, <1>2 DEF Files
    <3>2. file' = [file EXCEPT ![t] = f]
      BY <1>1, <1>2, <1>3, <2>1 DEF CopyQuantum, ScullTypes, Files
    <3>3. QED
      BY <3>1, <3>2
  <2>2. CASE CopyQset(t)
    <3> DEFINE f == [file[t] EXCEPT !.pc = "called", !.copy = <<c[1], geo[2]>>]
    <3>1. c[1] \in Quanta
      BY <1>1, <1>2, <2>2 DEF CopyQset, ScullTypes
    <3>2. f \in Files /\ f.pc = "called" /\ f.copy \in Geos
      BY <1>1, <1>2, <3>1 DEF Files, Geos
    <3>3. file' = [file EXCEPT ![t] = f]
      BY <1>1, <1>2, <1>3, <2>2 DEF CopyQset, ScullTypes, Files
    <3>4. QED
      BY <3>2, <3>3
  <2>3. QED
    BY <2>1, <2>2
<1>5. /\ file' \in [Tasks -> Files]
      /\ \A u \in Tasks : IF u = t THEN file'[u] = f ELSE file'[u] = file[u]
  BY <1>1, <1>4 DEF ScullTypes
<1>6. UNCHANGED <<data, size, geo, param, semaphore, stale, wild>> /\ got' = <<>>
  BY DEF CopyQuantum, CopyQset
<1>7. ScullTypes'
  BY <1>1, <1>4, <1>5, <1>6 DEF ScullTypes
<1>8. QED
  BY <1>6, <1>7, DeviceUntouched

LEMMA InterruptedStep ==
    ASSUME ScullInv, NEW t \in Tasks, Interrupted(t)
    PROVE  ScullInv' /\ File!Next
<1>1. ScullTypes /\ file[t] \in Files /\ semaphore # t
  BY DEF ScullInv, ScullTypes, Interrupted
<1>2. [file[t] EXCEPT !.pc = "idle", !.copy = <<0, 0>>] \in Files
  BY <1>1 DEF Files
<1>3. file' = [file EXCEPT ![t] = [file[t] EXCEPT !.pc = "idle", !.copy = <<0, 0>>]]
  BY <1>1 DEF Interrupted, ScullTypes
<1>4. /\ file' \in [Tasks -> Files]
      /\ \A u \in Tasks : IF u = t THEN file'[u].pc = "idle" ELSE file'[u] = file[u]
  BY <1>1, <1>2, <1>3 DEF ScullTypes, Files
<1>5. UNCHANGED <<data, size, geo, param, semaphore, stale, wild>> /\ got' = <<>>
  BY DEF Interrupted
<1>6. ScullTypes'
  BY <1>1, <1>4, <1>5 DEF ScullTypes
<1>7. QED
  BY <1>5, <1>6, DeviceUntouched

LEMMA ParameterStep ==
    ASSUME ScullInv, SetParameter
    PROVE  ScullInv' /\ File!Next
<1>1. ScullTypes /\ param[1] \in Quanta /\ param[2] \in Qsets
  BY DEF ScullInv, ScullTypes, Geos
<1>2. param' \in Geos
  BY <1>1 DEF SetParameter, Geos
<1>3. UNCHANGED <<data, size, geo, semaphore, file, stale, wild>> /\ got' = <<>>
  BY DEF SetParameter
<1>4. ScullTypes'
  BY <1>1, <1>2, <1>3 DEF ScullTypes
<1>5. QED
  BY <1>3, <1>4, DeviceUntouched

\* Nothing is covered and nothing shaped wrongly where nothing is allocated.
Empty == data = <<>> /\ size = 0 /\ (wild => stale)
AllHoles == Flat = [p \in 0 .. MaxPos - 1 |-> Hole]

LEMMA EmptyDevice == ScullTypes /\ Empty => ScullInv /\ AllHoles
<1> SUFFICES ASSUME ScullTypes, data = <<>>, size = 0, wild => stale
             PROVE  ScullInv /\ Flat = [p \in 0 .. MaxPos - 1 |-> Hole]
  BY DEF Empty, AllHoles
<1>1. geo \in Pairs /\ Len(data) = 0 /\ MaxPos \in Nat
  BY GeosArePairs, ScullDevAssumption DEF ScullTypes
<1>2. ScullSizeCovered
  <2>1. 0 * geo[1] * geo[2] = 0
    BY <1>1, PairOf
  <2>2. QED
    BY <1>1, <2>1 DEF ScullSizeCovered
<1>3. ScullShaped /\ ScullWithinBounds
  BY <1>1 DEF ScullShaped, Shaped, ScullWithinBounds
<1>4. \A p \in 0 .. MaxPos - 1 : Seen(data, geo, p) = Hole
  <2>1. SUFFICES ASSUME NEW p \in 0 .. MaxPos - 1 PROVE Seen(data, geo, p) = Hole
    OBVIOUS
  <2>2. p \in Nat
    BY <1>1
  <2>3. Item(p, geo) \in Nat \ {0}
    BY <1>1, <2>2, PlacePositive
  <2>4. Item(p, geo) > Len(data)
    BY <1>1, <2>3
  <2>5. QED
    BY <2>4 DEF Seen
<1>5. QED
  BY <1>2, <1>3, <1>4, FlatIs DEF ScullInv

\* The walk of a trim stays inside every set: each has as many slots as the
\* device has a qset.
LEMMA TrimStays ==
    ASSUME ScullInv, ~wild, NEW t \in Tasks, TrimBegin(t)
    PROVE  wild' => stale
<1>1. SUFFICES ASSUME ~stale, NEW i \in DOMAIN data, data[i] # NoSet PROVE ~(Len(data[i]) < geo[2])
  BY DEF TrimBegin
<1>2. data \in Lists /\ Shaped(data, geo) /\ geo \in Pairs
  BY <1>1, GeosArePairs DEF ScullInv, ScullTypes, ScullShaped
<1>3. i \in 1 .. Len(data)
  BY <1>2 DEF Lists
<1>4. Len(data[i]) = geo[2] /\ geo[2] \in Nat
  BY <1>1, <1>2, <1>3, PairOf DEF Shaped, SetShaped
<1>5. QED
  BY <1>4

LEMMA TrimBeginStep ==
    ASSUME ScullInv, ~wild, NEW t \in Tasks, TrimBegin(t)
    PROVE  ScullInv' /\ File!Next
<1>1. ScullTypes /\ file[t] \in Files /\ semaphore = Free /\ \A u \in Tasks : file[u].pc # "trim"
  BY ScullDevAssumption DEF ScullInv, ScullTypes, TrimBegin
<1>2. data' = <<>> /\ size' = 0 /\ got' = <<>> /\ semaphore' = t /\ stale' = stale
      /\ param' = param /\ geo' = <<param[1], geo[2]>> /\ wild' \in BOOLEAN
  BY <1>1 DEF TrimBegin, TrimmedSize, ScullTypes
<1>3. geo' \in Geos
  BY <1>1, <1>2 DEF ScullTypes, Geos
<1>4. [file[t] EXCEPT !.pc = "trim", !.mode = "w"] \in Files
  BY <1>1 DEF Files
<1>5. file' = [file EXCEPT ![t] = [file[t] EXCEPT !.pc = "trim", !.mode = "w"]]
  BY <1>1 DEF TrimBegin, ScullTypes
<1>6. /\ file' \in [Tasks -> Files]
      /\ \A u \in Tasks : IF u = t THEN file'[u].pc = "trim" ELSE file'[u] = file[u]
  BY <1>1, <1>4, <1>5 DEF ScullTypes, Files
<1>7. data' \in Lists /\ size' \in 0 .. MaxPos
  BY <1>2, ScullDevAssumption DEF Lists
<1>8. ScullTypes'
  BY <1>1, <1>2, <1>3, <1>6, <1>7 DEF ScullTypes
<1>9. wild' => stale'
  BY <1>2, TrimStays
<1>10. ScullInv' /\ AllHoles'
  <2>1. Empty'
    BY <1>2, <1>9 DEF Empty
  <2>2. QED
    BY <1>8, <2>1, EmptyDevice, PTL
<1>11. File!Truncate
  BY <1>2, <1>10 DEF File!Truncate, File!EmptyFile, File!Positions, AllHoles
<1>12. QED
  BY <1>10, <1>11 DEF File!Next

\* The second half of a trim: the device has been empty since the first.
LEMMA TrimEndStep ==
    ASSUME ScullInv, ~wild, NEW t \in Tasks, TrimEnd(t)
    PROVE  ScullInv' /\ File!Next
<1>1. ScullTypes /\ file[t] \in Files /\ semaphore = t /\ semaphore # Free
  BY ScullDevAssumption DEF ScullInv, ScullTypes, TrimEnd
<1>2. data = <<>> /\ size = 0
  BY <1>1 DEF ScullInv, ScullShaped
<1>3. /\ data' = data /\ size' = size /\ got' = <<>> /\ semaphore' = Free /\ stale' = FALSE
      /\ param' = param /\ geo' = <<geo[1], param[2]>> /\ wild' = wild
  BY DEF TrimEnd
<1>4. geo' \in Geos
  BY <1>1, <1>3 DEF ScullTypes, Geos
<1>5. [file[t] EXCEPT !.pc = "idle"] \in Files
  BY <1>1 DEF Files
<1>6. file' = [file EXCEPT ![t] = [file[t] EXCEPT !.pc = "idle"]]
  BY <1>1 DEF TrimEnd, Goto, ScullTypes
<1>7. /\ file' \in [Tasks -> Files]
      /\ \A u \in Tasks : IF u = t THEN file'[u].pc = "idle" ELSE file'[u] = file[u]
  BY <1>1, <1>5, <1>6 DEF ScullTypes, Files
<1>8. \A u \in Tasks : file'[u].pc # "trim" /\ semaphore' # u
  BY <1>1, <1>3, <1>7, ScullDevAssumption DEF ScullTypes
<1>9. ScullTypes'
  BY <1>1, <1>3, <1>4, <1>7, <1>8 DEF ScullTypes
<1>10. ScullInv' /\ AllHoles'
  <2>1. Empty'
    BY <1>2, <1>3 DEF Empty
  <2>2. QED
    BY <1>9, <2>1, EmptyDevice, PTL
<1>11. AllHoles
  BY <1>1, <1>2, EmptyDevice DEF Empty, ScullInv, ScullWithinBounds
<1>12. QED
  BY <1>2, <1>3, <1>10, <1>11 DEF File!Next, File!Other, AllHoles

-----------------------------------------------------------------------------
(* scull: all of it.                                                       *)

LEMMA ScullStep ==
    ASSUME ScullInv, ScullNext
    PROVE  ScullInv' /\ (~stale /\ ~stale' => File!Next)
<1>1. ~wild
  BY DEF ScullNext, ScullTask, Running
<1>2. ASSUME NEW t \in Tasks, ScullTask(t) PROVE ScullInv' /\ (~stale /\ ~stale' => File!Next)
  <2>1. CASE OpenKeep(t) \/ Close(t)
    BY <2>1, OpenStep
  <2>2. CASE TrimBegin(t)
    BY <1>1, <2>2, TrimBeginStep
  <2>3. CASE TrimEnd(t)
    BY <1>1, <2>3, TrimEndStep
  <2>4. CASE Seek(t)
    BY <2>4, SeekStep
  <2>5. CASE CopyQuantum(t) \/ CopyQset(t)
    BY <2>5, CopyStep
  <2>6. CASE Interrupted(t)
    BY <2>6, InterruptedStep
  <2>7. CASE \E count \in Counts(file[t].pos) : ReadSome(t, count)
    BY <1>1, <2>7, ReadCall
  <2>8. CASE \E count \in Counts(file[t].pos), b \in Byte : WriteSome(t, count, b)
    BY <1>1, <2>8, WriteCall
  <2>9. QED
    BY <1>2, <2>1, <2>2, <2>3, <2>4, <2>5, <2>6, <2>7, <2>8 DEF ScullTask
<1>3. ASSUME SetParameter PROVE ScullInv' /\ (~stale /\ ~stale' => File!Next)
  BY <1>3, ParameterStep
<1>4. QED
  BY <1>2, <1>3 DEF ScullNext

LEMMA ScullStutters ==
    ASSUME ScullInv, UNCHANGED scullVars
    PROVE  ScullInv' /\ UNCHANGED <<Flat, size, got>>
<1>1. UNCHANGED <<data, size, geo, param, semaphore, file, got, stale, wild>>
  BY DEF scullVars
<1>2. ScullInv'
  BY <1>1 DEF ScullInv, ScullTypes, ScullShaped, ScullWithinBounds, ScullSizeCovered
<1>3. Flat' = Flat
  BY <1>1, FlatIs, FlatNext
<1>4. QED
  BY <1>1, <1>2, <1>3

LEMMA ScullStays ==
    ASSUME ScullInv, [DevicesNext]_devicesVars
    PROVE  /\ ScullInv'
           /\ [~stale /\ ~stale' => File!Next]_<<Flat, size, got>>
<1>1. CASE ScullNext
  BY <1>1, ScullStep
<1>2. CASE UNCHANGED scullVars
  BY <1>2, ScullStutters
<1>3. QED
  BY <1>1, <1>2 DEF DevicesNext, devicesVars

\* scull_open, scull_read, scull_write, scull_llseek and scull_trim keep the
\* shape of the list and the exclusion of the semaphore.
THEOREM ScullInvariant == DevicesSpec => []ScullInv
<1>1. DevicesInit => ScullInv
  BY ScullInitially DEF DevicesInit
<1>2. ScullInv /\ [DevicesNext]_devicesVars => ScullInv'
  BY ScullStays
<1>3. QED
  BY <1>1, <1>2, PTL DEF DevicesSpec

\* Through scull_read and scull_write the quanta are one file, for every
\* geometry, unless a call computes with a geometry that was replaced.
THEOREM ScullIsFileHolds == DevicesSpec => ScullIsFile
<1>1. ScullInv /\ [DevicesNext]_devicesVars => [~stale /\ ~stale' => File!Next]_<<Flat, size, got>>
  BY ScullStays
<1>2. QED
  BY <1>1, ScullInvariant, PTL DEF DevicesSpec, ScullIsFile

\* scull_read, scull_write and scull_trim stay inside what is allocated, and the
\* end of the file inside the list: what MemoryKept says of scull.
THEOREM ScullMemoryKept == DevicesSpec => [](ScullTypeOK /\ ScullWithinBounds /\ ScullSizeCovered)
<1>1. ScullInv => ScullTypeOK /\ ScullWithinBounds /\ ScullSizeCovered
  <2>1. SUFFICES ASSUME ScullInv PROVE ScullTypeOK
    BY DEF ScullInv
  <2>2. ScullTypes
    BY <2>1 DEF ScullInv
  <2>3. \A i \in DOMAIN data : \A s \in DOMAIN data[i] : data[i][s] \in Seq(Byte \cup {Junk})
    <3>1. SUFFICES ASSUME NEW i \in DOMAIN data, NEW s \in DOMAIN data[i] PROVE data[i][s] \in Seq(Content)
      BY DEF Content
    <3>2. data \in Seq(Sets)
      BY <2>2 DEF ScullTypes, Lists
    <3>3. data[i] \in Sets
      BY <3>2
    <3>4. QED
      BY <3>3 DEF Sets
  <2>4. \A t \in Tasks :
          /\ file[t].pc \in {"closed", "trim", "idle", "begun", "called"}
          /\ file[t].mode \in {"w", "rw"} /\ file[t].pos \in 0 .. MaxPos
          /\ file[t].pc = "trim" <=> semaphore = t
    BY <2>2 DEF ScullTypes, Files
  <2>5. QED
    BY <2>2, <2>3, <2>4 DEF ScullTypeOK, ScullTypes, Geos
<1>2. QED
  BY <1>1, ScullInvariant, PTL

-----------------------------------------------------------------------------
(* The scullp family.                                                      *)

\* Geometries, items of the list, and what is kept of a process.
PsItems == Seq(PageNos \cup {0})
PsOffsets == 0 .. PsMaxPos - 1
PsTables == [PsOffsets -> PageNos \cup {0}]
PsRecords == [pc : {"closed", "trim", "trimmed", "idle", "called", "mmap", "unmap"},
              copy : Nat \X Nat, mapped : BOOLEAN, pte : PsTables]

MappedTasks == {t \in PsTasks : psTask[t].mapped}
MappersOf(p) == {m \in PsTasks \X PsOffsets : psTask[m[1]].pte[m[2]] = p}
Within(p, b) == p \in b[1] .. b[1] + b[2] - 1
BlockHolds(p) == \E b \in Blocks : Within(p, b)

\* What every variable holds.
PsTypes ==
    /\ psDriver \in {"scullp", "scullv", "sculld", "scullc"}
    /\ psCache \in Nat \ {0} /\ psGeo \in Pairs /\ psParam \in Pairs
    /\ psVmas \in Nat
    /\ psData \in Seq(PsItems)
    /\ psTask \in [PsTasks -> PsRecords]

\* The items were made with the qset that the device has.
ItemsMade == \A i \in 1 .. Len(psData) : psData[i] = <<>> \/ Len(psData[i]) = psGeo[2]

\* How far a process is with its mapping; nothing is mapped when a device is
\* trimmed.
MapsInOrder ==
    \A t \in PsTasks :
        /\ psTask[t].pc = "called" => psTask[t].copy \in Pairs
        /\ psTask[t].mapped => psTask[t].pc \in {"idle", "called", "unmap"}
        /\ ~psTask[t].mapped \/ psTask[t].pc = "unmap" => psTask[t].pte = Unmapped
        /\ psTask[t].pc = "unmap" => psTask[t].mapped
        /\ psTask[t].pc = "trimmed" => psData = <<>> /\ MappedTasks = {} /\ Counting = {}

\* Blocks lie in memory and share no page.
BlocksApart ==
    /\ \A b \in Blocks : b[1] \in PageNos /\ b[2] \in Nat \ {0} /\ b[1] + b[2] - 1 \in PageNos
    /\ \A b, c \in Blocks : \A p \in PageNos : Within(p, b) /\ Within(p, c) => b = c

\* The count of a page, since no two blocks have it.
PagesHeld ==
    \A p \in PageNos : psRefs[p] = Cardinality(MappersOf(p)) + IF BlockHolds(p) THEN 1 ELSE 0

VmasCount == psVmas = Cardinality(MappedTasks)
TablesShow ==
    psGeo[1] = 1 => \A t \in PsTasks : \A o \in PsOffsets : psTask[t].pte[o] \in {0, PageAt(o)}

PsStrong == /\ PsTypes /\ ItemsMade /\ MapsInOrder /\ BlocksApart /\ PagesHeld
            /\ VmasCount /\ TablesShow

PsInv ==
    /\ PsTypeOK /\ PsWithinBounds
    /\ ~psRaced /\ ~psStale => VmasCount /\ TablesShow
    /\ PsRunning => PsStrong

-----------------------------------------------------------------------------
\* Where a position is in the list.
LEMMA PsIndex ==
    ASSUME NEW pos \in Nat, NEW g \in Pairs
    PROVE  /\ PsItem(pos, g) \in Nat \ {0}
           /\ PsSlot(pos, g) \in 1 .. g[2]
           /\ PsOff(pos, g) \in 0 .. g[1] - 1
<1>1. PICK big \in Nat : big = Times(g[1], g[2])
  BY PairOf, TimesNatural
<1>2. big # 0
  BY <1>1, PairOf DEF Times
<1>3. PICK r \in Nat : r = Rest(pos, big) /\ Quot(pos, big) \in Nat
  BY <1>2, Division
<1>4. Quot(r, g[1]) \in 0 .. g[2] - 1
  <2>1. Quot(r, g[1]) = Rest(Quot(pos, g[1]), g[2])
    BY <1>1, <1>3, PairOf, Digits
  <2>2. Quot(pos, g[1]) \in Nat
    BY PairOf, Division
  <2>3. QED
    BY <2>1, <2>2, PairOf, Division
<1>5. Rest(r, g[1]) \in 0 .. g[1] - 1
  BY PairOf, Division
<1>6. /\ PsItem(pos, g) = Quot(pos, big) + 1
      /\ PsSlot(pos, g) = Quot(r, g[1]) + 1 /\ PsOff(pos, g) = Rest(r, g[1])
  BY <1>1, <1>3 DEF PsItem, PsSlot, PsOff, Quot, Rest, Times
<1>7. QED
  BY <1>3, <1>4, <1>5, <1>6, PairOf

\* With quanta of one page, a page of the file is where nopage looks for it.
LEMMA PsPlainIndex ==
    ASSUME NEW o \in Nat, psGeo \in Pairs, psGeo[1] = 1
    PROVE  PsItem(o, psGeo) = ListItem(o) /\ PsSlot(o, psGeo) = ListSlot(o) /\ PsOff(o, psGeo) = 0
<1>1. psGeo[2] \in Nat \ {0} /\ 1 * psGeo[2] = psGeo[2]
  BY PairOf
<1>2. o % psGeo[2] \in Nat
  BY <1>1
<1>3. (o % psGeo[2]) \div 1 = o % psGeo[2] /\ (o % psGeo[2]) % 1 = 0
  BY <1>2
<1>4. QED
  BY <1>1, <1>3 DEF PsItem, PsSlot, PsOff, ListItem, ListSlot

\* scullp_follow only adds empty items.
LEMMA PsFollowedLonger ==
    ASSUME psData \in Seq(PsItems), NEW m \in Nat \ {0}
    PROVE  /\ PsFollowed(m) \in Seq(PsItems)
           /\ Len(PsFollowed(m)) = (IF m < Len(psData) THEN Len(psData) ELSE m)
           /\ m \in 1 .. Len(PsFollowed(m))
           /\ \A i \in 1 .. Len(PsFollowed(m)) :
                 PsFollowed(m)[i] = IF i <= Len(psData) THEN psData[i] ELSE <<>>
<1> DEFINE k == IF m < Len(psData) THEN Len(psData) ELSE m
           e(i) == IF i <= Len(psData) THEN psData[i] ELSE <<>>
<1>1. Len(psData) \in Nat
  BY LenProperties
<1>2. k \in Nat /\ m \in 1 .. k
  BY <1>1
<1>3. \A i \in 1 .. k : e(i) \in PsItems
  BY <1>1 DEF PsItems
<1>4. PsFollowed(m) = [i \in 1 .. k |-> e(i)]
  BY DEF PsFollowed
<1>5. PsFollowed(m) \in [1 .. k -> PsItems]
  BY <1>3, <1>4
<1> HIDE DEF k
<1>6. PsFollowed(m) \in Seq(PsItems) /\ Len(PsFollowed(m)) = k
  BY <1>2, <1>4, <1>5, SeqDef, LenProperties
<1>7. QED
  BY <1>2, <1>4, <1>6 DEF k

-----------------------------------------------------------------------------
(* Who has a page.                                                         *)

LEMMA UnmappedIs == DOMAIN Unmapped = PsOffsets /\ Unmapped \in PsTables /\ \A o \in PsOffsets : Unmapped[o] = 0
BY DEF Unmapped, PsOffsets, PsTables

LEMMA OffsetsFinite == IsFiniteSet(PsOffsets)
BY FS_Interval, PagedScullAssumption DEF PsOffsets

LEMMA PsPairsFinite == IsFiniteSet(PsTasks \X PsOffsets)
BY OffsetsFinite, FS_Product, PagedScullAssumption

LEMMA MappersFinite == \A p : IsFiniteSet(MappersOf(p)) /\ Cardinality(MappersOf(p)) \in Nat
<1>1. SUFFICES ASSUME NEW p PROVE IsFiniteSet(MappersOf(p)) /\ Cardinality(MappersOf(p)) \in Nat
  OBVIOUS
<1>2. MappersOf(p) \in SUBSET (PsTasks \X PsOffsets)
  BY DEF MappersOf
<1>3. IsFiniteSet(MappersOf(p))
  BY <1>2, PsPairsFinite, FS_Subset
<1>4. QED
  BY <1>3, FS_CardinalityType

LEMMA MappedFinite == IsFiniteSet(MappedTasks) /\ Cardinality(MappedTasks) \in Nat
<1>1. MappedTasks \in SUBSET PsTasks
  BY DEF MappedTasks
<1>2. IsFiniteSet(MappedTasks)
  BY <1>1, PagedScullAssumption, FS_Subset
<1>3. QED
  BY <1>2, FS_CardinalityType

\* Steps that leave the tables and the mappings alone.
LEMMA MappersSame ==
    ASSUME \A t \in PsTasks : psTask'[t].pte = psTask[t].pte
    PROVE  \A p : MappersOf(p)' = MappersOf(p)
BY DEF MappersOf

LEMMA MappedSame ==
    ASSUME \A t \in PsTasks : psTask'[t].mapped = psTask[t].mapped
    PROVE  MappedTasks' = MappedTasks
BY DEF MappedTasks

\* A page that is looked up has one more that maps it.
LEMMA MapperAdded ==
    ASSUME psTask \in [PsTasks -> PsRecords], NEW t \in PsTasks, NEW o \in PsOffsets, NEW v \in PageNos,
           psTask[t].pte[o] = 0, psTask' = [psTask EXCEPT ![t].pte[o] = v]
    PROVE  \A p \in PageNos :
              Cardinality(MappersOf(p)') = Cardinality(MappersOf(p)) + IF p = v THEN 1 ELSE 0
<1>1. \A u \in PsTasks : psTask[u].pte \in PsTables
  BY DEF PsRecords
<1>2. \A u \in PsTasks : \A k \in PsOffsets :
         psTask'[u].pte[k] = IF u = t /\ k = o THEN v ELSE psTask[u].pte[k]
  <2>1. SUFFICES ASSUME NEW u \in PsTasks, NEW k \in PsOffsets
                 PROVE psTask'[u].pte[k] = IF u = t /\ k = o THEN v ELSE psTask[u].pte[k]
    OBVIOUS
  <2>2. psTask'[t].pte = [psTask[t].pte EXCEPT ![o] = v]
    BY DEF PsRecords
  <2>3. u # t => psTask'[u] = psTask[u]
    OBVIOUS
  <2>4. psTask[t].pte \in PsTables
    BY <1>1
  <2>5. QED
    BY <2>2, <2>3, <2>4 DEF PsTables
<1>3. SUFFICES ASSUME NEW p \in PageNos
               PROVE Cardinality(MappersOf(p)') = Cardinality(MappersOf(p)) + IF p = v THEN 1 ELSE 0
  OBVIOUS
<1>4. v # 0
  BY DEF PageNos
<1>5. CASE p = v
  <2>1. <<t, o>> \notin MappersOf(p)
    BY <1>4, <1>5 DEF MappersOf
  <2>2. MappersOf(p)' = MappersOf(p) \cup {<<t, o>>}
    <3>1. \A m \in PsTasks \X PsOffsets :
             psTask'[m[1]].pte[m[2]] = p <=> psTask[m[1]].pte[m[2]] = p \/ m = <<t, o>>
      BY <1>2, <1>5
    <3>2. QED
      BY <3>1 DEF MappersOf
  <2>3. IsFiniteSet(MappersOf(p)) /\ Cardinality(MappersOf(p)) \in Nat
    BY MappersFinite
  <2>4. Cardinality(MappersOf(p) \cup {<<t, o>>}) = Cardinality(MappersOf(p)) + 1
    BY <2>1, <2>3, FS_AddElement
  <2>5. QED
    BY <1>5, <2>2, <2>4
<1>6. CASE p # v
  <2>1. \A m \in PsTasks \X PsOffsets : psTask'[m[1]].pte[m[2]] = p <=> psTask[m[1]].pte[m[2]] = p
    <3>1. p # 0
      BY DEF PageNos
    <3>2. QED
      BY <1>2, <1>6, <3>1
  <2>2. MappersOf(p)' = MappersOf(p)
    BY <2>1 DEF MappersOf
  <2>3. QED
    BY <1>6, <2>2, MappersFinite
<1>7. QED
  BY <1>5, <1>6

\* A mapping that goes takes its pages with it.
LEMMA MappersGone ==
    ASSUME psTask \in [PsTasks -> PsRecords], NEW t \in PsTasks,
           psTask' = [psTask EXCEPT ![t].pc = "unmap", ![t].pte = Unmapped]
    PROVE  \A p \in PageNos :
              /\ Cardinality({o \in PsOffsets : psTask[t].pte[o] = p}) \in Nat
              /\ Cardinality(MappersOf(p)) =
                    Cardinality(MappersOf(p)') + Cardinality({o \in PsOffsets : psTask[t].pte[o] = p})
<1>1. SUFFICES ASSUME NEW p \in PageNos
               PROVE /\ Cardinality({o \in PsOffsets : psTask[t].pte[o] = p}) \in Nat
                     /\ Cardinality(MappersOf(p)) =
                           Cardinality(MappersOf(p)') + Cardinality({o \in PsOffsets : psTask[t].pte[o] = p})
  OBVIOUS
<1> DEFINE own == {o \in PsOffsets : psTask[t].pte[o] = p}
           gone == {t} \X own
           left == MappersOf(p)'
<1>2. IsFiniteSet(own) /\ Cardinality(own) \in Nat
  <2>1. own \in SUBSET PsOffsets
    OBVIOUS
  <2>2. IsFiniteSet(own)
    BY <2>1, OffsetsFinite, FS_Subset
  <2>3. QED
    BY <2>2, FS_CardinalityType
<1>3. IsFiniteSet(gone) /\ Cardinality(gone) = Cardinality(own)
  <2>1. IsFiniteSet({t}) /\ Cardinality({t}) = 1
    BY FS_Singleton
  <2> HIDE DEF own
  <2>2. IsFiniteSet(gone) /\ Cardinality(gone) = Cardinality({t}) * Cardinality(own)
    BY <1>2, <2>1, FS_Product
  <2>3. QED
    BY <1>2, <2>1, <2>2
<1>4. p # 0
  BY DEF PageNos
<1>5. \A u \in PsTasks : psTask'[u].pte = IF u = t THEN Unmapped ELSE psTask[u].pte
  BY DEF PsRecords
<1>6. left = {m \in PsTasks \X PsOffsets : m[1] # t /\ psTask[m[1]].pte[m[2]] = p}
  <2>1. \A m \in PsTasks \X PsOffsets :
           psTask'[m[1]].pte[m[2]] = p <=> m[1] # t /\ psTask[m[1]].pte[m[2]] = p
    BY <1>4, <1>5, UnmappedIs
  <2>2. QED
    BY <2>1 DEF MappersOf
<1>7. IsFiniteSet(left) /\ Cardinality(left) \in Nat
  <2>1. left \in SUBSET (PsTasks \X PsOffsets)
    BY <1>6
  <2>2. IsFiniteSet(left)
    BY <2>1, PsPairsFinite, FS_Subset
  <2>3. QED
    BY <2>2, FS_CardinalityType
<1>8. MappersOf(p) = left \cup gone /\ left \cap gone = {}
  BY <1>6 DEF MappersOf
<1> HIDE DEF own, gone, left
<1>9. Cardinality(MappersOf(p)) = Cardinality(left) + Cardinality(gone)
  <2>1. Cardinality(left \cup gone) = Cardinality(left) + Cardinality(gone) - Cardinality(left \cap gone)
    BY <1>3, <1>7, FS_Union
  <2>2. Cardinality(left \cap gone) = 0
    BY <1>8, FS_EmptySet
  <2>3. Cardinality(MappersOf(p)) = Cardinality(left \cup gone)
    BY <1>8
  <2>4. QED
    BY <1>2, <1>3, <1>7, <2>1, <2>2, <2>3
<1>10. QED
  BY <1>2, <1>3, <1>9 DEF own, left

-----------------------------------------------------------------------------
(* The blocks of the device.                                               *)

LEMMA BlockIs ==
    \A b : b \in Blocks <=>
        \E i \in 1 .. Len(psData) : \E s \in 1 .. psGeo[2] :
            s <= Len(psData[i]) /\ psData[i][s] # 0 /\ b = <<psData[i][s], BlockPages(i)>>
<1> DEFINE at == {q \in (1 .. Len(psData)) \X (1 .. psGeo[2]) : q[2] <= Len(psData[q[1]]) /\ psData[q[1]][q[2]] # 0}
<1>1. Blocks = {<<psData[x[1]][x[2]], BlockPages(x[1])>> : x \in at}
  BY DEF Blocks
<1>2. \A i \in 1 .. Len(psData) : \A s \in 1 .. psGeo[2] :
         <<i, s>> \in at <=> s <= Len(psData[i]) /\ psData[i][s] # 0
  OBVIOUS
<1>3. \A x \in at : x = <<x[1], x[2]>> /\ x[1] \in 1 .. Len(psData) /\ x[2] \in 1 .. psGeo[2]
  OBVIOUS
<1> HIDE DEF at
<1>4. ASSUME NEW b \in Blocks
      PROVE  \E i \in 1 .. Len(psData) : \E s \in 1 .. psGeo[2] :
                s <= Len(psData[i]) /\ psData[i][s] # 0 /\ b = <<psData[i][s], BlockPages(i)>>
  <2>1. PICK x \in at : b = <<psData[x[1]][x[2]], BlockPages(x[1])>>
    BY <1>1
  <2>2. QED
    BY <1>2, <1>3, <2>1
<1>5. ASSUME NEW i \in 1 .. Len(psData), NEW s \in 1 .. psGeo[2], s <= Len(psData[i]), psData[i][s] # 0
      PROVE  <<psData[i][s], BlockPages(i)>> \in Blocks
  <2>1. <<i, s>> \in at
    BY <1>2, <1>5
  <2>2. \A x \in at : <<psData[x[1]][x[2]], BlockPages(x[1])>> \in Blocks
    BY <1>1
  <2>3. <<psData[<<i, s>>[1]][<<i, s>>[2]], BlockPages(<<i, s>>[1])>> \in Blocks
    BY <2>1, <2>2
  <2>4. QED
    BY <2>3
<1>6. QED
  BY <1>4, <1>5

LEMMA BlockIsThen ==
    \A b : b \in Blocks' <=>
        \E i \in 1 .. Len(psData') : \E s \in 1 .. psGeo'[2] :
            s <= Len(psData'[i]) /\ psData'[i][s] # 0 /\ b = <<psData'[i][s], BlockPages(i)'>>
<1> DEFINE at == {q \in (1 .. Len(psData')) \X (1 .. psGeo'[2]) : q[2] <= Len(psData'[q[1]]) /\ psData'[q[1]][q[2]] # 0}
<1>1. Blocks' = {<<psData'[x[1]][x[2]], BlockPages(x[1])'>> : x \in at}
  BY DEF Blocks
<1>2. \A i \in 1 .. Len(psData') : \A s \in 1 .. psGeo'[2] :
         <<i, s>> \in at <=> s <= Len(psData'[i]) /\ psData'[i][s] # 0
  OBVIOUS
<1>3. \A x \in at : x = <<x[1], x[2]>> /\ x[1] \in 1 .. Len(psData') /\ x[2] \in 1 .. psGeo'[2]
  OBVIOUS
<1> HIDE DEF at
<1>4. ASSUME NEW b \in Blocks'
      PROVE  \E i \in 1 .. Len(psData') : \E s \in 1 .. psGeo'[2] :
                s <= Len(psData'[i]) /\ psData'[i][s] # 0 /\ b = <<psData'[i][s], BlockPages(i)'>>
  <2>1. PICK x \in at : b = <<psData'[x[1]][x[2]], BlockPages(x[1])'>>
    BY <1>1
  <2>2. QED
    BY <1>2, <1>3, <2>1
<1>5. ASSUME NEW i \in 1 .. Len(psData'), NEW s \in 1 .. psGeo'[2], s <= Len(psData'[i]), psData'[i][s] # 0
      PROVE  <<psData'[i][s], BlockPages(i)'>> \in Blocks'
  <2>1. <<i, s>> \in at
    BY <1>2, <1>5
  <2>2. \A x \in at : <<psData'[x[1]][x[2]], BlockPages(x[1])'>> \in Blocks'
    BY <1>1
  <2>3. <<psData'[<<i, s>>[1]][<<i, s>>[2]], BlockPages(<<i, s>>[1])'>> \in Blocks'
    BY <2>1, <2>2
  <2>4. QED
    BY <2>3
<1>6. QED
  BY <1>4, <1>5

\* What a write may do to the list: the quanta stay, and others are in new.
QuantaStay ==
    /\ Len(psData) <= Len(psData')
    /\ \A i \in 1 .. Len(psData) : \A s \in 1 .. Len(psData[i]) :
          psData[i][s] # 0 => s <= Len(psData'[i]) /\ psData'[i][s] = psData[i][s]
QuantaNew(new) ==
    \A i \in 1 .. Len(psData') : \A s \in 1 .. Len(psData'[i]) :
        psData'[i][s] # 0 =>
            \/ i <= Len(psData) /\ s <= Len(psData[i]) /\ psData[i][s] = psData'[i][s]
            \/ <<i, psData'[i][s]>> \in new

LEMMA BlocksGrow ==
    ASSUME psGeo \in Pairs, psData \in Seq(PsItems), psData' \in Seq(PsItems),
           UNCHANGED <<psGeo, psDriver, psCache>>, NEW new, QuantaStay, QuantaNew(new)
    PROVE  /\ Blocks \subseteq Blocks'
           /\ \A b \in Blocks' : b \in Blocks \/ \E x \in new : b = <<x[2], BlockPages(x[1])>>
           /\ \A o \in PsOffsets : PageAt(o) # 0 => PageAt(o)' = PageAt(o)
<1>1. Len(psData) \in Nat /\ Len(psData') \in Nat
  BY LenProperties
<1>2. /\ \A i \in 1 .. Len(psData) : Len(psData[i]) \in Nat
      /\ \A i \in 1 .. Len(psData') : Len(psData'[i]) \in Nat
  BY LenProperties DEF PsItems
<1>3. \A i : BlockPages(i)' = BlockPages(i)
  BY DEF BlockPages, ItemPages
<1>4. psGeo[2] \in Nat
  BY PairOf
<1>5. ASSUME NEW b \in Blocks PROVE b \in Blocks'
  <2>1. PICK i \in 1 .. Len(psData), s \in 1 .. psGeo[2] :
           s <= Len(psData[i]) /\ psData[i][s] # 0 /\ b = <<psData[i][s], BlockPages(i)>>
    BY BlockIs
  <2>2. i \in 1 .. Len(psData') /\ s <= Len(psData'[i]) /\ psData'[i][s] = psData[i][s]
    <3>1. s \in 1 .. Len(psData[i])
      BY <1>2, <1>4, <2>1
    <3>2. QED
      BY <1>1, <2>1, <3>1 DEF QuantaStay
  <2>3. QED
    BY <1>3, <2>1, <2>2, BlockIsThen
<1>6. ASSUME NEW b \in Blocks' PROVE b \in Blocks \/ \E x \in new : b = <<x[2], BlockPages(x[1])>>
  <2>1. PICK i \in 1 .. Len(psData'), s \in 1 .. psGeo[2] :
           s <= Len(psData'[i]) /\ psData'[i][s] # 0 /\ b = <<psData'[i][s], BlockPages(i)>>
    BY <1>3, BlockIsThen
  <2>2. s \in 1 .. Len(psData'[i])
    BY <1>2, <1>4, <2>1
  <2>3. CASE <<i, psData'[i][s]>> \in new
    BY <2>1, <2>3
  <2>4. CASE i <= Len(psData) /\ s <= Len(psData[i]) /\ psData[i][s] = psData'[i][s]
    <3>1. i \in 1 .. Len(psData)
      BY <1>1, <2>4
    <3>2. QED
      BY <2>1, <2>4, <3>1, BlockIs
  <2>5. QED
    BY <2>1, <2>2, <2>3, <2>4 DEF QuantaNew
<1>7. ASSUME NEW o \in PsOffsets, PageAt(o) # 0 PROVE PageAt(o)' = PageAt(o)
  <2> DEFINE i == PsItem(o, psGeo)
             s == PsSlot(o, psGeo)
  <2>1. o \in Nat
    BY DEF PsOffsets
  <2>2. i \in Nat \ {0} /\ s \in Nat \ {0}
    <3>1. i \in Nat \ {0} /\ s \in 1 .. psGeo[2]
      BY <2>1, PsIndex
    <3>2. QED
      BY <1>4, <3>1
  <2>3. PsItem(o, psGeo)' = i /\ PsSlot(o, psGeo)' = s /\ PsOff(o, psGeo)' = PsOff(o, psGeo)
    BY DEF PsItem, PsSlot, PsOff
  <2>4. /\ i <= Len(psData) /\ s <= Len(psData[i]) /\ psData[i][s] # 0
        /\ PageAt(o) = psData[i][s] + PsOff(o, psGeo)
    BY <1>7 DEF PageAt
  <2> HIDE DEF i, s
  <2>5. i \in 1 .. Len(psData) /\ s \in 1 .. Len(psData[i])
    BY <1>1, <1>2, <2>2, <2>4
  <2>6. i <= Len(psData') /\ s <= Len(psData'[i]) /\ psData'[i][s] = psData[i][s]
    BY <1>1, <2>4, <2>5 DEF QuantaStay
  <2>7. PageAt(o)' = psData'[i][s] + PsOff(o, psGeo)
    BY <2>3, <2>4, <2>6 DEF PageAt, i, s
  <2>8. QED
    BY <2>4, <2>6, <2>7
<1>8. QED
  BY <1>5, <1>6, <1>7

-----------------------------------------------------------------------------
(* Steps of one process.                                                   *)

\* A process goes on, and its mapping stays as it is.
MapsStay ==
    /\ psTask' \in [PsTasks -> PsRecords]
    /\ \A u \in PsTasks : psTask'[u].pte = psTask[u].pte /\ psTask'[u].mapped = psTask[u].mapped
OnlyGoes(t, pc) == \A u \in PsTasks : psTask'[u].pc = IF u = t THEN pc ELSE psTask[u].pc

PsPlaces == {"closed", "trim", "trimmed", "idle", "called", "mmap", "unmap"}

LEMMA GoesOn ==
    ASSUME psTask \in [PsTasks -> PsRecords], NEW t \in PsTasks, NEW pc \in PsPlaces, Goes(t, pc)
    PROVE  /\ MapsStay /\ OnlyGoes(t, pc)
           /\ \A u \in PsTasks : psTask'[u].copy = psTask[u].copy
<1>1. psTask' = [psTask EXCEPT ![t] = [psTask[t] EXCEPT !.pc = pc]]
  BY DEF Goes
<1>2. psTask[t] \in PsRecords
  OBVIOUS
<1>3. [psTask[t] EXCEPT !.pc = pc] \in PsRecords
  BY <1>2 DEF PsRecords, PsPlaces
<1>4. /\ [psTask[t] EXCEPT !.pc = pc].pte = psTask[t].pte
      /\ [psTask[t] EXCEPT !.pc = pc].mapped = psTask[t].mapped
      /\ [psTask[t] EXCEPT !.pc = pc].copy = psTask[t].copy
      /\ [psTask[t] EXCEPT !.pc = pc].pc = pc
  BY <1>2 DEF PsRecords
<1>5. QED
  BY <1>1, <1>3, <1>4 DEF MapsStay, OnlyGoes

GoesWith(t, pc, copy) == psTask' = [psTask EXCEPT ![t].pc = pc, ![t].copy = copy]

LEMMA GoesOnWith ==
    ASSUME psTask \in [PsTasks -> PsRecords], NEW t \in PsTasks, NEW pc \in PsPlaces, NEW copy \in Nat \X Nat,
           GoesWith(t, pc, copy)
    PROVE  /\ MapsStay /\ OnlyGoes(t, pc)
           /\ \A u \in PsTasks : psTask'[u].copy = IF u = t THEN copy ELSE psTask[u].copy
<1> DEFINE new == [psTask[t] EXCEPT !.pc = pc, !.copy = copy]
<1>1. psTask' = [psTask EXCEPT ![t] = new]
  BY DEF GoesWith
<1>2. psTask[t] \in PsRecords
  OBVIOUS
<1>3. new \in PsRecords
  BY <1>2 DEF PsRecords, PsPlaces
<1>4. /\ new.pte = psTask[t].pte /\ new.mapped = psTask[t].mapped
      /\ new.copy = copy /\ new.pc = pc
  BY <1>2 DEF PsRecords
<1> HIDE DEF new
<1>5. QED
  BY <1>1, <1>3, <1>4 DEF MapsStay, OnlyGoes

\* Nobody trims while the semaphore is free, and only who holds it.
LEMMA NoTrimming ==
    ASSUME PsTypeOK, psSem = PsFree
    PROVE  \A t \in PsTasks : psTask[t].pc \notin {"trim", "trimmed"}
BY PagedScullAssumption DEF PsTypeOK, Trimming

LEMMA OneTrims ==
    ASSUME PsTypeOK, NEW t \in PsTasks, psTask[t].pc \in {"trim", "trimmed"}
    PROVE  psSem = t /\ \A u \in PsTasks \ {t} : psTask[u].pc \notin {"trim", "trimmed"}
BY DEF PsTypeOK, Trimming

\* The semaphore is passed on as a process begins or ends a trim, and is not
\* when it goes on otherwise.
LEMMA SemStays ==
    ASSUME PsTypeOK, NEW t \in PsTasks, NEW pc, OnlyGoes(t, pc), UNCHANGED psSem,
           psTask[t].pc \in {"trim", "trimmed"} <=> pc \in {"trim", "trimmed"}
    PROVE  \A u \in PsTasks : u \in Trimming' <=> psSem' = u
<1>1. \A u \in PsTasks : u \in Trimming <=> psSem = u
  BY DEF PsTypeOK
<1>2. \A u \in PsTasks : u \in Trimming' <=> u \in Trimming
  BY DEF OnlyGoes, Trimming
<1>3. QED
  BY <1>1, <1>2

LEMMA SemTaken ==
    ASSUME PsTypeOK, NEW t \in PsTasks, OnlyGoes(t, "trim"), psSem = PsFree, psSem' = t
    PROVE  \A u \in PsTasks : u \in Trimming' <=> psSem' = u
BY NoTrimming DEF OnlyGoes, Trimming

LEMMA SemGiven ==
    ASSUME PsTypeOK, NEW t \in PsTasks, OnlyGoes(t, "idle"), psTask[t].pc \in {"trim", "trimmed"}, psSem' = PsFree
    PROVE  \A u \in PsTasks : u \in Trimming' <=> psSem' = u
<1>1. \A u \in PsTasks : u \notin Trimming'
  BY OneTrims DEF OnlyGoes, Trimming
<1>2. QED
  BY <1>1, PagedScullAssumption

\* A step of the control alone, and one that changes a parameter.
LEMMA ControlStep ==
    ASSUME PsStrong, MapsStay, UNCHANGED <<psDriver, psCache, psData, psGeo, psVmas, psRefs>>,
           psParam' \in Pairs, MapsInOrder'
    PROVE  PsStrong'
<1>1. Blocks' = Blocks
  BY DEF Blocks, BlockPages, ItemPages
<1>2. (\A p : MappersOf(p)' = MappersOf(p)) /\ MappedTasks' = MappedTasks
  BY MappersSame, MappedSame DEF MapsStay
<1>3. \A o : PageAt(o)' = PageAt(o)
  BY DEF PageAt, PsItem, PsSlot, PsOff
<1>4. PsTypes'
  BY DEF PsStrong, PsTypes, MapsStay
<1>5. ItemsMade'
  BY DEF PsStrong, ItemsMade
<1>6. BlocksApart'
  BY <1>1 DEF PsStrong, BlocksApart, Within
<1>7. PagesHeld'
  <2>1. PagesHeld
    BY DEF PsStrong
  <2>2. \A p : BlockHolds(p)' = BlockHolds(p)
    BY <1>1 DEF BlockHolds, Within
  <2>3. \A p : Cardinality(MappersOf(p)') = Cardinality(MappersOf(p))
    BY <1>2
  <2>4. QED
    BY <2>1, <2>2, <2>3 DEF PagesHeld
<1>8. VmasCount'
  BY <1>2 DEF PsStrong, VmasCount
<1>9. TablesShow'
  BY <1>3 DEF PsStrong, TablesShow, MapsStay
<1>10. QED
  BY <1>4, <1>5, <1>6, <1>7, <1>8, <1>9 DEF PsStrong

\* A step of the list: the tables still show the device.
LEMMA TablesStay ==
    ASSUME PsTypes, TablesShow, MapsStay, UNCHANGED <<psGeo, psDriver, psCache>>, psData' \in Seq(PsItems),
           NEW new, QuantaStay, QuantaNew(new)
    PROVE  TablesShow'
<1>1. \A o \in PsOffsets : PageAt(o) # 0 => PageAt(o)' = PageAt(o)
  BY BlocksGrow DEF PsTypes
<1>2. QED
  BY <1>1 DEF TablesShow, MapsStay

\* A step of the list that adds no quantum.
LEMMA ListStep ==
    ASSUME PsStrong, MapsStay, UNCHANGED <<psDriver, psCache, psGeo, psVmas, psParam, psRefs>>,
           psData' \in Seq(PsItems), ItemsMade', QuantaStay, QuantaNew({}), MapsInOrder'
    PROVE  PsStrong'
<1>1. Blocks' = Blocks
  <2>1. Blocks \subseteq Blocks' /\ \A b \in Blocks' : b \in Blocks
    BY BlocksGrow DEF PsStrong, PsTypes
  <2>2. QED
    BY <2>1
<1>2. (\A p : MappersOf(p)' = MappersOf(p)) /\ MappedTasks' = MappedTasks
  BY MappersSame, MappedSame DEF MapsStay
<1>3. PsTypes'
  BY DEF PsStrong, PsTypes, MapsStay
<1>4. BlocksApart'
  BY <1>1 DEF PsStrong, BlocksApart, Within
<1>5. PagesHeld'
  <2>1. PagesHeld
    BY DEF PsStrong
  <2>2. \A p : BlockHolds(p)' = BlockHolds(p)
    BY <1>1 DEF BlockHolds, Within
  <2>3. \A p : Cardinality(MappersOf(p)') = Cardinality(MappersOf(p))
    BY <1>2
  <2>4. QED
    BY <2>1, <2>2, <2>3 DEF PagesHeld
<1>6. VmasCount'
  BY <1>2 DEF PsStrong, VmasCount
<1>7. TablesShow'
  BY TablesStay DEF PsStrong
<1>8. QED
  BY <1>3, <1>4, <1>5, <1>6, <1>7 DEF PsStrong

\* A step that adds a quantum of pages that nobody has.
LEMMA QuantumStep ==
    ASSUME PsStrong, psRefs \in [PageNos -> Nat], MapsStay,
           UNCHANGED <<psDriver, psCache, psGeo, psVmas, psParam>>,
           psData' \in Seq(PsItems), ItemsMade', NEW i \in Nat \ {0}, NEW first \in Runs(BlockPages(i)),
           QuantaStay, QuantaNew({<<i, first>>}), <<first, BlockPages(i)>> \in Blocks',
           psRefs' = [p \in PageNos |-> IF p \in first .. first + BlockPages(i) - 1 THEN 1 ELSE psRefs[p]],
           MapsInOrder'
    PROVE  PsStrong'
<1> DEFINE new == <<first, BlockPages(i)>>
<1>1. PICK n \in Nat \ {0} : n = BlockPages(i)
  <2>1. psGeo[1] \in Nat \ {0}
    BY PairOf DEF PsStrong, PsTypes
  <2>2. QED
    BY <2>1 DEF PsStrong, PsTypes, BlockPages, ItemPages
<1>2. first \in PageNos /\ first + n - 1 \in PageNos /\ \A q \in first .. first + n - 1 : psRefs[q] = 0
  BY <1>1 DEF Runs
<1>3. Blocks' = Blocks \cup {new}
  <2>1. Blocks \subseteq Blocks'
    BY BlocksGrow DEF PsStrong, PsTypes
  <2>2. \A b \in Blocks' : b \in Blocks \/ \E x \in {<<i, first>>} : b = <<x[2], BlockPages(x[1])>>
    BY BlocksGrow DEF PsStrong, PsTypes
  <2>3. QED
    BY <2>1, <2>2
<1>4. (\A p : MappersOf(p)' = MappersOf(p)) /\ MappedTasks' = MappedTasks
  BY MappersSame, MappedSame DEF MapsStay
<1>5. PsTypes'
  BY DEF PsStrong, PsTypes, MapsStay
<1>6. \A p \in PageNos : Within(p, new) => Cardinality(MappersOf(p)) = 0 /\ ~BlockHolds(p) /\ psRefs[p] = 0
  <2>1. SUFFICES ASSUME NEW p \in PageNos, Within(p, new)
                 PROVE Cardinality(MappersOf(p)) = 0 /\ ~BlockHolds(p) /\ psRefs[p] = 0
    OBVIOUS
  <2>2. psRefs[p] = 0
    BY <1>1, <1>2, <2>1 DEF Within
  <2>3. psRefs[p] = Cardinality(MappersOf(p)) + IF BlockHolds(p) THEN 1 ELSE 0
    BY DEF PsStrong, PagesHeld
  <2>4. Cardinality(MappersOf(p)) \in Nat
    BY MappersFinite
  <2>5. QED
    BY <2>2, <2>3, <2>4
<1>7. BlocksApart'
  <2>1. BlocksApart
    BY DEF PsStrong
  <2>2. \A b \in Blocks' : b[1] \in PageNos /\ b[2] \in Nat \ {0} /\ b[1] + b[2] - 1 \in PageNos
    BY <1>1, <1>2, <1>3, <2>1 DEF BlocksApart
  <2>3. \A b, c \in Blocks' : \A p \in PageNos : Within(p, b) /\ Within(p, c) => b = c
    <3>1. SUFFICES ASSUME NEW b \in Blocks', NEW c \in Blocks', NEW p \in PageNos, Within(p, b), Within(p, c)
                   PROVE  b = c
      OBVIOUS
    <3>2. CASE b \in Blocks /\ c \in Blocks
      BY <2>1, <3>1, <3>2 DEF BlocksApart
    <3>3. CASE Within(p, new)
      <4>1. ~BlockHolds(p)
        BY <1>6, <3>3
      <4>2. b \notin Blocks /\ c \notin Blocks
        BY <3>1, <4>1 DEF BlockHolds
      <4>3. QED
        BY <1>3, <4>2
    <3>4. QED
      BY <1>3, <3>1, <3>2, <3>3
  <2>4. QED
    BY <2>2, <2>3 DEF BlocksApart, Within
<1>8. PagesHeld'
  <2>1. SUFFICES ASSUME NEW p \in PageNos
                 PROVE psRefs'[p] = Cardinality(MappersOf(p)) + IF BlockHolds(p)' THEN 1 ELSE 0
    BY <1>4 DEF PagesHeld
  <2>2. BlockHolds(p)' <=> BlockHolds(p) \/ Within(p, new)
    BY <1>3 DEF BlockHolds, Within
  <2>3. psRefs'[p] = IF Within(p, new) THEN 1 ELSE psRefs[p]
    BY DEF Within
  <2>4. psRefs[p] = Cardinality(MappersOf(p)) + IF BlockHolds(p) THEN 1 ELSE 0
    BY DEF PsStrong, PagesHeld
  <2> HIDE DEF new
  <2>5. CASE Within(p, new)
    BY <1>6, <2>2, <2>3, <2>5
  <2>6. CASE ~Within(p, new)
    BY <2>2, <2>3, <2>4, <2>6
  <2>7. QED
    BY <2>5, <2>6
<1>9. VmasCount'
  BY <1>4 DEF PsStrong, VmasCount
<1>10. TablesShow'
  BY TablesStay DEF PsStrong
<1>11. QED
  BY <1>5, <1>7, <1>8, <1>9, <1>10 DEF PsStrong

-----------------------------------------------------------------------------
(* Opening, closing, mapping.                                              *)

LEMMA PsEnough ==
    ASSUME PsTypeOK', ~psWild', ~psRaced' /\ ~psStale' => PsStrong'
    PROVE  PsInv'
BY DEF PsInv, PsWithinBounds, PsStrong, PsRunning

\* A process that is not mapped, or is, as it goes on.
LEMMA OrderStays ==
    ASSUME MapsInOrder, MapsStay, NEW t \in PsTasks, NEW pc, OnlyGoes(t, pc),
           \A u \in PsTasks : psTask'[u].copy = psTask[u].copy,
           pc \notin {"called", "unmap"}, psTask[t].mapped => pc = "idle",
           \A u \in PsTasks : psTask'[u].pc = "trimmed" =>
                                 psData' = <<>> /\ MappedTasks' = {} /\ Counting' = {}
    PROVE  MapsInOrder'
<1>1. SUFFICES ASSUME NEW u \in PsTasks
               PROVE  /\ psTask'[u].pc = "called" => psTask'[u].copy \in Pairs
                      /\ psTask'[u].mapped => psTask'[u].pc \in {"idle", "called", "unmap"}
                      /\ ~psTask'[u].mapped \/ psTask'[u].pc = "unmap" => psTask'[u].pte = Unmapped
                      /\ psTask'[u].pc = "unmap" => psTask'[u].mapped
                      /\ psTask'[u].pc = "trimmed" => psData' = <<>> /\ MappedTasks' = {} /\ Counting' = {}
  BY DEF MapsInOrder, Unmapped
<1>2. /\ psTask'[u].pte = psTask[u].pte /\ psTask'[u].mapped = psTask[u].mapped
      /\ psTask'[u].pc = (IF u = t THEN pc ELSE psTask[u].pc)
      /\ psTask'[u].copy = psTask[u].copy
  BY DEF MapsStay, OnlyGoes
<1>3. /\ psTask[u].pc = "called" => psTask[u].copy \in Pairs
      /\ psTask[u].mapped => psTask[u].pc \in {"idle", "called", "unmap"}
      /\ ~psTask[u].mapped \/ psTask[u].pc = "unmap" => psTask[u].pte = Unmapped
      /\ psTask[u].pc = "unmap" => psTask[u].mapped
  BY DEF MapsInOrder
<1>4. QED
  BY <1>2, <1>3

\* The order that MapsInOrder states, where the tables and the mappings stay.
LEMMA OrderKept ==
    ASSUME MapsInOrder, MapsStay,
           \A u \in PsTasks :
              /\ psTask'[u].pc = "called" => psTask'[u].copy \in Pairs
              /\ \/ psTask'[u].pc \in {psTask[u].pc, "idle"}
                 \/ psTask'[u].pc = "closed" /\ ~psTask[u].mapped
              /\ psTask'[u].pc = "trimmed" => psData' = <<>> /\ MappedTasks' = {} /\ Counting' = {}
    PROVE  MapsInOrder'
<1>1. SUFFICES ASSUME NEW u \in PsTasks
               PROVE  /\ psTask'[u].pc = "called" => psTask'[u].copy \in Pairs
                      /\ psTask'[u].mapped => psTask'[u].pc \in {"idle", "called", "unmap"}
                      /\ ~psTask'[u].mapped \/ psTask'[u].pc = "unmap" => psTask'[u].pte = Unmapped
                      /\ psTask'[u].pc = "unmap" => psTask'[u].mapped
                      /\ psTask'[u].pc = "trimmed" => psData' = <<>> /\ MappedTasks' = {} /\ Counting' = {}
  BY DEF MapsInOrder, Unmapped
<1>2. psTask'[u].pte = psTask[u].pte /\ psTask'[u].mapped = psTask[u].mapped
  BY DEF MapsStay
<1>3. /\ psTask[u].mapped => psTask[u].pc \in {"idle", "called", "unmap"}
      /\ ~psTask[u].mapped \/ psTask[u].pc = "unmap" => psTask[u].pte = Unmapped
      /\ psTask[u].pc = "unmap" => psTask[u].mapped
  BY DEF MapsInOrder
<1>4. QED
  BY <1>2, <1>3

LEMMA OpenKeeps ==
    ASSUME PsInv, PsRunning, NEW t \in PsTasks, PsOpen(t)
    PROVE  PsInv'
<1>1. PsTypeOK /\ PsStrong
  BY DEF PsInv
<1>2. psTask \in [PsTasks -> PsRecords] /\ MapsInOrder /\ psParam \in Pairs
  BY <1>1 DEF PsStrong, PsTypes
<1>3. PICK pc \in {"idle", "trim"} :
         /\ Goes(t, pc)
         /\ \/ pc = "idle" /\ UNCHANGED psSem
            \/ pc = "trim" /\ psSem = PsFree /\ psSem' = t
  BY DEF PsOpen
<1>4. MapsStay /\ OnlyGoes(t, pc) /\ \A u \in PsTasks : psTask'[u].copy = psTask[u].copy
  BY <1>2, <1>3, GoesOn DEF PsPlaces
<1>5. \A u \in PsTasks : u \in Trimming' <=> psSem' = u
  <2>1. CASE pc = "idle"
    BY <1>1, <1>3, <1>4, <2>1, SemStays DEF PsOpen
  <2>2. CASE pc = "trim"
    BY <1>1, <1>3, <1>4, <2>2, SemTaken
  <2>3. QED
    BY <2>1, <2>2
<1>6. PsTypeOK'
  BY <1>1, <1>3, <1>5 DEF PsOpen, Device, PsTypeOK
<1>7. MappedTasks' = MappedTasks /\ Counting' = Counting
  BY <1>3, <1>4, MappedSame DEF MapsStay, OnlyGoes, Counting, PsOpen
<1>8. MapsInOrder'
  <2>1. psTask[t].pc = "closed" /\ psData' = psData
    BY DEF PsOpen, Device
  <2>2. psTask[t].mapped => pc = "idle"
    BY <1>2, <2>1 DEF MapsInOrder
  <2>3. \A u \in PsTasks : psTask'[u].pc = "trimmed" => psTask[u].pc = "trimmed"
    BY <1>3, <1>4 DEF OnlyGoes
  <2>4. \A u \in PsTasks : psTask[u].pc = "trimmed" => psData = <<>> /\ MappedTasks = {} /\ Counting = {}
    BY <1>2 DEF MapsInOrder
  <2>5. QED
    BY <1>2, <1>3, <1>4, <1>7, <2>1, <2>2, <2>3, <2>4, OrderStays
<1>9. PsStrong'
  BY <1>1, <1>2, <1>4, <1>8, ControlStep DEF PsOpen, Device, Fixed
<1>10. QED
  BY <1>6, <1>9, PsEnough DEF PsOpen, Flags, PsRunning

LEMMA CloseKeeps ==
    ASSUME PsInv, PsRunning, NEW t \in PsTasks, PsClose(t)
    PROVE  PsInv'
<1>1. PsTypeOK /\ PsStrong
  BY DEF PsInv
<1>2. psTask \in [PsTasks -> PsRecords] /\ MapsInOrder /\ psParam \in Pairs
  BY <1>1 DEF PsStrong, PsTypes
<1>3. psTask[t].pc = "idle" /\ ~psTask[t].mapped /\ psTask' = [psTask EXCEPT ![t] = PsClosed]
  BY DEF PsClose
<1>4. psTask[t].pte = Unmapped
  BY <1>2, <1>3 DEF MapsInOrder
<1>5. PsClosed \in PsRecords
  BY UnmappedIs DEF PsClosed, PsRecords
<1>6. MapsStay /\ OnlyGoes(t, "closed") /\ \A u \in PsTasks : u # t => psTask'[u].copy = psTask[u].copy
  <2>1. PsClosed.pte = Unmapped /\ PsClosed.mapped = FALSE /\ PsClosed.pc = "closed"
    BY DEF PsClosed
  <2>2. \A u \in PsTasks : psTask'[u] = IF u = t THEN PsClosed ELSE psTask[u]
    BY <1>2, <1>3
  <2>3. psTask' \in [PsTasks -> PsRecords]
    BY <1>2, <1>3, <1>5
  <2>4. psTask[t].mapped = FALSE
    BY <1>2, <1>3 DEF PsRecords
  <2>5. QED
    BY <1>4, <2>1, <2>2, <2>3, <2>4 DEF MapsStay, OnlyGoes
<1>7. \A u \in PsTasks : u \in Trimming' <=> psSem' = u
  BY <1>1, <1>3, <1>6, SemStays DEF PsClose
<1>8. PsTypeOK'
  BY <1>1, <1>7 DEF PsClose, Device, PsTypeOK
<1>9. MappedTasks' = MappedTasks /\ Counting' = Counting
  BY <1>3, <1>6, MappedSame DEF MapsStay, OnlyGoes, Counting
<1>10. MapsInOrder'
  <2>1. psData' = psData
    BY DEF PsClose, Device
  <2>2. \A u \in PsTasks : /\ psTask[u].pc = "called" => psTask[u].copy \in Pairs
                           /\ psTask[u].pc = "trimmed" => psData = <<>> /\ MappedTasks = {} /\ Counting = {}
    BY <1>2 DEF MapsInOrder
  <2>3. \A u \in PsTasks : psTask'[u].pc = IF u = t THEN "closed" ELSE psTask[u].pc
    BY <1>6 DEF OnlyGoes
  <2>4. \A u \in PsTasks :
           /\ psTask'[u].pc = "called" => psTask'[u].copy \in Pairs
           /\ \/ psTask'[u].pc \in {psTask[u].pc, "idle"}
              \/ psTask'[u].pc = "closed" /\ ~psTask[u].mapped
           /\ psTask'[u].pc = "trimmed" => psData' = <<>> /\ MappedTasks' = {} /\ Counting' = {}
    BY <1>3, <1>6, <1>9, <2>1, <2>2, <2>3
  <2>5. QED
    BY <1>2, <1>6, <2>4, OrderKept
<1>11. PsStrong'
  BY <1>1, <1>2, <1>6, <1>10, ControlStep DEF PsClose, Device, Fixed
<1>12. QED
  BY <1>8, <1>11, PsEnough DEF PsClose, Flags, PsRunning

\* scullp_ioctl.
LEMMA ParameterKeeps ==
    ASSUME PsInv, PsRunning, PsParameter
    PROVE  PsInv'
<1>1. PsTypeOK /\ PsStrong
  BY DEF PsInv
<1>2. psTask \in [PsTasks -> PsRecords] /\ MapsInOrder /\ psParam \in Pairs
  BY <1>1 DEF PsStrong, PsTypes
<1>3. psParam' \in Pairs
  <2>1. PICK g \in PsGeometries : psParam' \in {<<g[1], psParam[2]>>, <<psParam[1], g[2]>>}
    BY DEF PsParameter
  <2>2. g[1] \in Nat \ {0} /\ g[2] \in Nat \ {0} /\ psParam[1] \in Nat \ {0} /\ psParam[2] \in Nat \ {0}
    BY <1>2, PagedScullAssumption, PairOf
  <2>3. QED
    BY <2>1, <2>2 DEF Pairs
<1>4. psTask' = psTask /\ psData' = psData
  BY DEF PsParameter, Device
<1>5. PsTypeOK'
  BY <1>1, <1>4 DEF PsParameter, Device, PsTypeOK, Trimming
<1>6. MapsInOrder'
  BY <1>2, <1>4 DEF MapsInOrder, MappedTasks, Counting, Unmapped
<1>7. PsStrong'
  BY <1>1, <1>2, <1>3, <1>4, <1>6, ControlStep DEF MapsStay, PsParameter, Device, Fixed
<1>8. QED
  BY <1>5, <1>7, PsEnough DEF PsParameter, Flags, PsRunning

\* A call begins, with a copy of the geometry.
LEMMA CopyKeeps ==
    ASSUME PsInv, PsRunning, NEW t \in PsTasks, PsCopy(t)
    PROVE  PsInv'
<1>1. PsTypeOK /\ PsStrong
  BY DEF PsInv
<1>2. psTask \in [PsTasks -> PsRecords] /\ MapsInOrder /\ psParam \in Pairs /\ psGeo \in Pairs
  BY <1>1 DEF PsStrong, PsTypes
<1>3. psTask[t].pc = "idle" /\ GoesWith(t, "called", psGeo)
  BY DEF PsCopy, GoesWith
<1>4. psGeo \in Nat \X Nat
  BY <1>2 DEF Pairs
<1>5. /\ MapsStay /\ OnlyGoes(t, "called")
      /\ \A u \in PsTasks : psTask'[u].copy = IF u = t THEN psGeo ELSE psTask[u].copy
  <2>1. "called" \in PsPlaces
    BY DEF PsPlaces
  <2>2. QED
    BY <1>2, <1>3, <1>4, <2>1, GoesOnWith
<1>6. \A u \in PsTasks : u \in Trimming' <=> psSem' = u
  BY <1>1, <1>3, <1>5, SemStays DEF PsCopy
<1>7. PsTypeOK'
  BY <1>1, <1>6 DEF PsCopy, Device, PsTypeOK
<1>8. MappedTasks' = MappedTasks /\ Counting' = Counting
  BY <1>3, <1>5, MappedSame DEF MapsStay, OnlyGoes, Counting
<1>9. MapsInOrder'
  <2>1. psGeo' = psGeo /\ psData' = psData
    BY DEF PsCopy, Device
  <2>2. SUFFICES ASSUME NEW u \in PsTasks
                 PROVE  /\ psTask'[u].pc = "called" => psTask'[u].copy \in Pairs
                        /\ psTask'[u].mapped => psTask'[u].pc \in {"idle", "called", "unmap"}
                        /\ ~psTask'[u].mapped \/ psTask'[u].pc = "unmap" => psTask'[u].pte = Unmapped
                        /\ psTask'[u].pc = "unmap" => psTask'[u].mapped
                        /\ psTask'[u].pc = "trimmed" => psData' = <<>> /\ MappedTasks' = {} /\ Counting' = {}
    BY DEF MapsInOrder, Unmapped
  <2>3. /\ psTask'[u].pte = psTask[u].pte /\ psTask'[u].mapped = psTask[u].mapped
        /\ psTask'[u].pc = (IF u = t THEN "called" ELSE psTask[u].pc)
        /\ psTask'[u].copy = (IF u = t THEN psGeo ELSE psTask[u].copy)
    BY <1>5 DEF MapsStay, OnlyGoes
  <2>4. /\ psTask[u].pc = "called" => psTask[u].copy \in Pairs
        /\ psTask[u].mapped => psTask[u].pc \in {"idle", "called", "unmap"}
        /\ ~psTask[u].mapped \/ psTask[u].pc = "unmap" => psTask[u].pte = Unmapped
        /\ psTask[u].pc = "unmap" => psTask[u].mapped
        /\ psTask[u].pc = "trimmed" => psData = <<>> /\ MappedTasks = {} /\ Counting = {}
    BY <1>2 DEF MapsInOrder
  <2>5. QED
    BY <1>2, <1>3, <1>8, <2>1, <2>3, <2>4
<1>10. PsStrong'
  BY <1>1, <1>2, <1>5, <1>9, ControlStep DEF PsCopy, Device, Fixed
<1>11. QED
  BY <1>7, <1>10, PsEnough DEF PsCopy, Flags, PsRunning

\* A call returns: nobody trims, or the semaphore is not this process's.
LEMMA Returns ==
    ASSUME PsTypeOK, PsStrong, NEW t \in PsTasks, psTask[t].pc = "called", PsReturn(t), UNCHANGED psSem
    PROVE  /\ MapsStay /\ MappedTasks' = MappedTasks /\ Counting' = Counting
           /\ \A u \in PsTasks : u \in Trimming' <=> psSem' = u
           /\ UNCHANGED psData \/ psSem = PsFree => MapsInOrder'
<1>2. psTask \in [PsTasks -> PsRecords] /\ MapsInOrder
  BY DEF PsStrong, PsTypes
<1>3. GoesWith(t, "idle", <<0, 0>>)
  BY DEF PsReturn, GoesWith
<1>4. /\ MapsStay /\ OnlyGoes(t, "idle")
      /\ \A u \in PsTasks : psTask'[u].copy = IF u = t THEN <<0, 0>> ELSE psTask[u].copy
  <2>1. "idle" \in PsPlaces /\ <<0, 0>> \in Nat \X Nat
    BY DEF PsPlaces
  <2>2. QED
    BY <1>2, <1>3, <2>1, GoesOnWith
<1>5. \A u \in PsTasks : u \in Trimming' <=> psSem' = u
  BY <1>4, SemStays
<1>6. MappedTasks' = MappedTasks /\ Counting' = Counting
  BY <1>4, MappedSame DEF MapsStay, OnlyGoes, Counting
<1>7. psSem = PsFree => \A u \in PsTasks : psTask[u].pc # "trimmed"
  BY NoTrimming
<1>8. ASSUME UNCHANGED psData \/ psSem = PsFree PROVE MapsInOrder'
  <2>1. \A u \in PsTasks : /\ psTask[u].pc = "called" => psTask[u].copy \in Pairs
                           /\ psTask[u].pc = "trimmed" => psData = <<>> /\ MappedTasks = {} /\ Counting = {}
    BY <1>2 DEF MapsInOrder
  <2>2. \A u \in PsTasks : psTask'[u].pc = IF u = t THEN "idle" ELSE psTask[u].pc
    BY <1>4 DEF OnlyGoes
  <2>3. \A u \in PsTasks :
           /\ psTask'[u].pc = "called" => psTask'[u].copy \in Pairs
           /\ \/ psTask'[u].pc \in {psTask[u].pc, "idle"}
              \/ psTask'[u].pc = "closed" /\ ~psTask[u].mapped
           /\ psTask'[u].pc = "trimmed" => psData' = <<>> /\ MappedTasks' = {} /\ Counting' = {}
    BY <1>4, <1>6, <1>7, <1>8, <2>1, <2>2
  <2>4. QED
    BY <1>2, <1>4, <2>3, OrderKept
<1>9. QED
  BY <1>4, <1>5, <1>6, <1>8

LEMMA InterruptedKeeps ==
    ASSUME PsInv, PsRunning, NEW t \in PsTasks, PsInterrupted(t)
    PROVE  PsInv'
<1>1. PsTypeOK /\ PsStrong
  BY DEF PsInv
<1>2. MapsStay /\ (\A u \in PsTasks : u \in Trimming' <=> psSem' = u) /\ MapsInOrder'
  BY <1>1, Returns DEF PsInterrupted, Device
<1>3. PsTypeOK'
  BY <1>1, <1>2 DEF PsInterrupted, Device, PsTypeOK
<1>4. PsStrong'
  BY <1>1, <1>2, ControlStep DEF PsInterrupted, Device, Fixed, PsStrong, PsTypes
<1>5. QED
  BY <1>3, <1>4, PsEnough DEF PsInterrupted, Flags, PsRunning

\* While nothing is mapped, no table has a page.
LEMMA NothingMapped ==
    ASSUME PsStrong, MappedTasks = {}
    PROVE  /\ \A t \in PsTasks : ~psTask[t].mapped /\ psTask[t].pte = Unmapped
           /\ \A p \in PageNos : MappersOf(p) = {}
<1>1. \A t \in PsTasks : ~psTask[t].mapped
  BY DEF MappedTasks
<1>2. \A t \in PsTasks : psTask[t].pte = Unmapped
  BY <1>1 DEF PsStrong, MapsInOrder
<1>3. \A p \in PageNos : p # 0
  BY DEF PageNos
<1>4. \A p \in PageNos : MappersOf(p) = {}
  BY <1>2, <1>3, UnmappedIs DEF MappersOf
<1>5. QED
  BY <1>1, <1>2, <1>4

\* The second half of scullp_trim.
LEMMA TrimDoneKeeps ==
    ASSUME PsInv, PsRunning, NEW t \in PsTasks, TrimDone(t)
    PROVE  PsInv'
<1>1. PsTypeOK /\ PsStrong
  BY DEF PsInv
<1>2. psTask \in [PsTasks -> PsRecords] /\ MapsInOrder /\ psParam \in Pairs /\ psGeo \in Pairs
  BY <1>1 DEF PsStrong, PsTypes
<1>3. psTask[t].pc = "trimmed" /\ Goes(t, "idle") /\ psSem' = PsFree
  BY DEF TrimDone
<1>4. MapsStay /\ OnlyGoes(t, "idle") /\ \A u \in PsTasks : psTask'[u].copy = psTask[u].copy
  BY <1>2, <1>3, GoesOn DEF PsPlaces
<1>5. \A u \in PsTasks : u \in Trimming' <=> psSem' = u
  BY <1>1, <1>3, <1>4, SemGiven
<1>6. PsTypeOK'
  BY <1>1, <1>3, <1>5 DEF TrimDone, PsTypeOK
<1>7. psData = <<>> /\ MappedTasks = {} /\ Counting = {}
  BY <1>2, <1>3 DEF MapsInOrder
<1>8. psGeo' \in Pairs
  <2>1. psGeo' = <<psParam[1], psGeo[2]>>
    BY DEF TrimDone
  <2>2. QED
    BY <1>2, <2>1, PairOf DEF Pairs
<1>9. psData' = <<>> /\ Len(psData) = 0 /\ Len(psData') = 0
  BY <1>7 DEF TrimDone
<1>10. Blocks = {} /\ Blocks' = {}
  <2>1. \A b : b \notin Blocks
    BY <1>9, BlockIs
  <2>2. \A b : b \notin Blocks'
    BY <1>9, BlockIsThen
  <2>3. QED
    BY <2>1, <2>2
<1>11. (\A p : MappersOf(p)' = MappersOf(p)) /\ MappedTasks' = MappedTasks
  BY <1>4, MappersSame, MappedSame DEF MapsStay
<1>12. \A u \in PsTasks : psTask[u].pte = Unmapped
  BY <1>1, <1>7, NothingMapped
<1>13. PsTypes'
  BY <1>1, <1>4, <1>8 DEF PsStrong, PsTypes, MapsStay, TrimDone, Fixed
<1>14. ItemsMade'
  BY <1>9 DEF ItemsMade
<1>15. MapsInOrder'
  <2>1. \A u \in PsTasks : psTask'[u].pc # "trimmed"
    BY <1>1, <1>3, <1>4, OneTrims DEF OnlyGoes
  <2>2. QED
    BY <1>2, <1>4, <2>1, OrderStays
<1>16. BlocksApart'
  BY <1>10 DEF BlocksApart
<1>17. PagesHeld'
  <2>1. \A p : BlockHolds(p)' = BlockHolds(p)
    BY <1>10 DEF BlockHolds
  <2>2. \A p : Cardinality(MappersOf(p)') = Cardinality(MappersOf(p))
    BY <1>11
  <2>3. psRefs' = psRefs
    BY DEF TrimDone
  <2>4. QED
    BY <1>1, <2>1, <2>2, <2>3 DEF PsStrong, PagesHeld
<1>18. VmasCount'
  BY <1>1, <1>11 DEF PsStrong, VmasCount, TrimDone
<1>19. TablesShow'
  BY <1>4, <1>12, UnmappedIs DEF TablesShow, MapsStay
<1>20. PsStrong'
  BY <1>13, <1>14, <1>15, <1>16, <1>17, <1>18, <1>19 DEF PsStrong
<1>21. QED
  BY <1>6, <1>20, PsEnough DEF TrimDone, Flags, PsRunning

\* The first half, which frees the quanta if the device is not mapped.
LEMMA TrimKeeps ==
    ASSUME PsInv, PsRunning, NEW t \in PsTasks, Trim(t)
    PROVE  PsInv'
<1>1. PsTypeOK /\ PsStrong
  BY DEF PsInv
<1>2. psTask \in [PsTasks -> PsRecords] /\ MapsInOrder /\ psParam \in Pairs /\ psGeo \in Pairs
  BY <1>1 DEF PsStrong, PsTypes
<1>3. psTask[t].pc = "trim"
  BY DEF Trim
<1>4. \A u \in PsTasks \ {t} : psTask[u].pc \notin {"trim", "trimmed"}
  BY <1>1, <1>3, OneTrims
<1>5. CASE ~MayTrim
  <2>1. psSem' = PsFree /\ Goes(t, "idle")
    BY <1>5 DEF Trim
  <2>2. MapsStay /\ OnlyGoes(t, "idle") /\ \A u \in PsTasks : psTask'[u].copy = psTask[u].copy
    BY <1>2, <2>1, GoesOn DEF PsPlaces
  <2>3. \A u \in PsTasks : u \in Trimming' <=> psSem' = u
    BY <1>1, <1>3, <2>1, <2>2, SemGiven
  <2>4. PsTypeOK'
    BY <1>1, <1>5, <2>1, <2>3 DEF Trim, PsTypeOK, Device
  <2>5. MapsInOrder'
    <3>1. \A u \in PsTasks : psTask'[u].pc # "trimmed"
      BY <1>4, <2>2 DEF OnlyGoes
    <3>2. QED
      BY <1>2, <2>2, <3>1, OrderStays
  <2>6. PsStrong'
    BY <1>1, <1>2, <1>5, <2>2, <2>5, ControlStep DEF Trim, Device, Fixed
  <2>7. QED
    BY <1>5, <2>4, <2>6, PsEnough DEF Trim, PsRunning
<1>6. CASE MayTrim
  <2>1. /\ psRefs' = [p \in PageNos |->
                IF \E b \in Blocks : p \in b[1] .. b[1] + b[2] - 1 THEN psRefs[p] - 1 ELSE psRefs[p]]
        /\ psWild' = (psWild \/ \E i \in DOMAIN psData : psData[i] # <<>> /\ Len(psData[i]) < psGeo[2])
        /\ psData' = <<>> /\ psSize' = 0 /\ psGeo' = <<psGeo[1], psParam[2]>>
        /\ psRaced' = (psRaced \/ Counting # {})
        /\ Goes(t, "trimmed") /\ UNCHANGED psSem
    BY <1>6 DEF Trim
  <2>2. MapsStay /\ OnlyGoes(t, "trimmed") /\ \A u \in PsTasks : psTask'[u].copy = psTask[u].copy
    BY <1>2, <2>1, GoesOn DEF PsPlaces
  <2>3. \A u \in PsTasks : u \in Trimming' <=> psSem' = u
    BY <1>1, <1>3, <2>1, <2>2, SemStays
  <2>4. MappedTasks = {}
    <3>1. Cardinality(MappedTasks) = 0
      BY <1>1, <1>6 DEF PsStrong, VmasCount, MayTrim
    <3>2. QED
      BY <3>1, MappedFinite, FS_EmptySet
  <2>5. /\ \A u \in PsTasks : psTask[u].pte = Unmapped
        /\ \A p \in PageNos : Cardinality(MappersOf(p)) = 0
    BY <1>1, <2>4, NothingMapped, FS_EmptySet
  <2>6. psRefs' = [p \in PageNos |-> 0]
    <3>1. \A p \in PageNos : psRefs[p] = IF BlockHolds(p) THEN 1 ELSE 0
      <4>1. PagesHeld
        BY <1>1 DEF PsStrong
      <4>2. QED
        BY <2>5, <4>1 DEF PagesHeld
    <3>2. psRefs' = [p \in PageNos |-> IF BlockHolds(p) THEN psRefs[p] - 1 ELSE psRefs[p]]
      BY <2>1 DEF BlockHolds, Within
    <3>3. QED
      BY <3>1, <3>2
  <2>7. ~psWild'
    <3>1. psData \in Seq(PsItems) /\ ItemsMade /\ psGeo[2] \in Nat
      BY <1>1, <1>2, PairOf DEF PsStrong, PsTypes
    <3>2. \A i \in DOMAIN psData : psData[i] = <<>> \/ Len(psData[i]) = psGeo[2]
      BY <3>1, LenProperties DEF ItemsMade
    <3>3. ~ \E i \in DOMAIN psData : psData[i] # <<>> /\ Len(psData[i]) < psGeo[2]
      BY <3>1, <3>2
    <3>4. ~psWild
      BY DEF PsRunning
    <3>5. psWild' = (psWild \/ \E i \in DOMAIN psData : psData[i] # <<>> /\ Len(psData[i]) < psGeo[2])
      BY <2>1
    <3>6. QED
      BY <3>3, <3>4, <3>5, Zenon
  <2>8. PsTypeOK'
    BY <1>1, <2>1, <2>3, <2>6, PagedScullAssumption DEF PsTypeOK
  <2>9. ASSUME ~psRaced' PROVE PsStrong'
    <3>1. Counting = {}
      BY <2>1, <2>9
    <3>2. MappedTasks' = {} /\ Counting' = {}
      <4>1. MappedTasks' = {}
        BY <2>2, <2>4, MappedSame DEF MapsStay
      <4>2. Counting' = {}
        BY <2>2, <3>1 DEF OnlyGoes, Counting
      <4>3. QED
        BY <4>1, <4>2
    <3>3. psGeo' \in Pairs
      BY <1>2, <2>1, PairOf DEF Pairs
    <3>4. Len(psData') = 0 /\ psData' \in Seq(PsItems)
      BY <2>1
    <3>5. Blocks' = {}
      <4>1. \A b : b \notin Blocks'
        BY <3>4, BlockIsThen
      <4>2. QED
        BY <4>1
    <3>6. PsTypes'
      BY <1>1, <2>2, <3>3, <3>4 DEF PsStrong, PsTypes, MapsStay, Trim, Fixed
    <3>7. ItemsMade'
      BY <3>4 DEF ItemsMade
    <3>8. MapsInOrder'
      <4>1. psTask[t].mapped => "trimmed" = "idle"
        BY <1>2, <1>3 DEF MapsInOrder
      <4>2. QED
        BY <1>2, <2>1, <2>2, <3>2, <4>1, OrderStays
    <3>9. BlocksApart'
      BY <3>5 DEF BlocksApart
    <3>10. PagesHeld'
      <4>1. \A p \in PageNos : ~BlockHolds(p)'
        BY <3>5 DEF BlockHolds
      <4>2. \A p \in PageNos : Cardinality(MappersOf(p)') = 0
        BY <2>2, <2>5, MappersSame DEF MapsStay
      <4>3. QED
        BY <2>6, <4>1, <4>2 DEF PagesHeld
    <3>11. VmasCount'
      BY <1>1, <2>4, <3>2 DEF PsStrong, VmasCount, Trim
    <3>12. TablesShow'
      BY <2>2, <2>5, UnmappedIs DEF TablesShow, MapsStay
    <3>13. QED
      BY <3>6, <3>7, <3>8, <3>9, <3>10, <3>11, <3>12 DEF PsStrong
  <2>10. QED
    BY <2>7, <2>8, <2>9, PsEnough
<1>7. QED
  BY <1>5, <1>6

\* A mapping that begins.
LEMMA MmapKeeps ==
    ASSUME PsInv, PsRunning, NEW t \in PsTasks, PsMmap(t)
    PROVE  PsInv'
<1>1. PsTypeOK /\ PsStrong
  BY DEF PsInv
<1>2. psTask \in [PsTasks -> PsRecords] /\ MapsInOrder /\ psParam \in Pairs
  BY <1>1 DEF PsStrong, PsTypes
<1>3. psTask[t].pc = "idle" /\ ~psTask[t].mapped /\ Goes(t, "mmap")
  BY DEF PsMmap
<1>4. MapsStay /\ OnlyGoes(t, "mmap") /\ \A u \in PsTasks : psTask'[u].copy = psTask[u].copy
  BY <1>2, <1>3, GoesOn DEF PsPlaces
<1>5. \A u \in PsTasks : u \in Trimming' <=> psSem' = u
  BY <1>1, <1>3, <1>4, SemStays DEF PsMmap
<1>6. PsTypeOK'
  BY <1>1, <1>5 DEF PsMmap, Device, PsTypeOK
<1>7. ASSUME ~psRaced' PROVE PsStrong'
  <2>1. Trimming = {}
    BY <1>7 DEF PsMmap
  <2>2. \A u \in PsTasks : psTask'[u].pc # "trimmed"
    BY <1>4, <2>1 DEF OnlyGoes, Trimming
  <2>3. MapsInOrder'
    BY <1>2, <1>3, <1>4, <2>2, OrderStays
  <2>4. QED
    BY <1>1, <1>2, <1>4, <2>3, ControlStep DEF PsMmap, Device, Fixed
<1>8. ~psWild'
  BY DEF PsMmap, PsRunning
<1>9. QED
  BY <1>6, <1>7, <1>8, PsEnough

\* A mapping that ends, and gives its pages back.
LEMMA MunmapKeeps ==
    ASSUME PsInv, PsRunning, NEW t \in PsTasks, PsMunmap(t)
    PROVE  PsInv'
<1>1. PsTypeOK /\ PsStrong
  BY DEF PsInv
<1>2. psTask \in [PsTasks -> PsRecords] /\ MapsInOrder /\ psParam \in Pairs
  BY <1>1 DEF PsStrong, PsTypes
<1>3. /\ psTask[t].pc = "idle" /\ psTask[t].mapped
      /\ psTask' = [psTask EXCEPT ![t].pc = "unmap", ![t].pte = Unmapped]
  BY DEF PsMunmap
<1>4. psTask' \in [PsTasks -> PsRecords]
  <2>1. [psTask[t] EXCEPT !.pc = "unmap", !.pte = Unmapped] \in PsRecords
    <3>1. psTask[t] \in PsRecords /\ Unmapped \in PsTables
      BY <1>2, UnmappedIs
    <3>2. QED
      BY <3>1 DEF PsRecords
  <2>2. QED
    BY <1>2, <1>3, <2>1
<1>5. \A u \in PsTasks :
         /\ psTask'[u].pc = (IF u = t THEN "unmap" ELSE psTask[u].pc)
         /\ psTask'[u].pte = (IF u = t THEN Unmapped ELSE psTask[u].pte)
         /\ psTask'[u].mapped = psTask[u].mapped /\ psTask'[u].copy = psTask[u].copy
  BY <1>2, <1>3 DEF PsRecords
<1>6. OnlyGoes(t, "unmap")
  BY <1>5 DEF OnlyGoes
<1>7. \A u \in PsTasks : u \in Trimming' <=> psSem' = u
  BY <1>1, <1>3, <1>6, SemStays DEF PsMunmap
<1>8. psRefs' = [p \in PageNos |-> psRefs[p] - Cardinality({o \in PsOffsets : psTask[t].pte[o] = p})]
  BY UnmappedIs DEF PsMunmap
<1>9. \A p \in PageNos :
         /\ psRefs'[p] = Cardinality(MappersOf(p)') + IF BlockHolds(p) THEN 1 ELSE 0
         /\ Cardinality(MappersOf(p)') \in Nat
  <2>1. SUFFICES ASSUME NEW p \in PageNos
                 PROVE  /\ psRefs'[p] = Cardinality(MappersOf(p)') + IF BlockHolds(p) THEN 1 ELSE 0
                        /\ Cardinality(MappersOf(p)') \in Nat
    OBVIOUS
  <2> DEFINE own == Cardinality({o \in PsOffsets : psTask[t].pte[o] = p})
  <2>2. own \in Nat /\ Cardinality(MappersOf(p)) = Cardinality(MappersOf(p)') + own
    BY <1>2, <1>3, MappersGone
  <2>3. Cardinality(MappersOf(p)') \in Nat
    <3>1. MappersOf(p)' \in SUBSET (PsTasks \X PsOffsets)
      BY DEF MappersOf
    <3>2. IsFiniteSet(MappersOf(p)')
      BY <3>1, PsPairsFinite, FS_Subset
    <3>3. QED
      BY <3>2, FS_CardinalityType
  <2>4. psRefs[p] = Cardinality(MappersOf(p)) + IF BlockHolds(p) THEN 1 ELSE 0
    BY <1>1 DEF PsStrong, PagesHeld
  <2>5. psRefs'[p] = psRefs[p] - own
    BY <1>8
  <2> HIDE DEF own
  <2>6. QED
    BY <2>2, <2>3, <2>4, <2>5
<1>10. psRefs' \in [PageNos -> Nat]
  BY <1>8, <1>9
<1>11. PsTypeOK'
  BY <1>1, <1>7, <1>10 DEF PsMunmap, Device, PsTypeOK
<1>12. t \in MappedTasks /\ MappedTasks' = MappedTasks
  BY <1>3, <1>5, MappedSame DEF MappedTasks
<1>13. UNCHANGED <<psDriver, psCache, psData, psGeo, psVmas, psParam>>
  BY DEF PsMunmap, Fixed, Device
<1>14. Blocks' = Blocks
  BY <1>13 DEF Blocks, BlockPages, ItemPages
<1>15. PsTypes'
  BY <1>1, <1>4, <1>13 DEF PsStrong, PsTypes
<1>16. ItemsMade' /\ VmasCount'
  BY <1>1, <1>12, <1>13 DEF PsStrong, ItemsMade, VmasCount
<1>17. MapsInOrder'
  <2>1. SUFFICES ASSUME NEW u \in PsTasks
                 PROVE  /\ psTask'[u].pc = "called" => psTask'[u].copy \in Pairs
                        /\ psTask'[u].mapped => psTask'[u].pc \in {"idle", "called", "unmap"}
                        /\ ~psTask'[u].mapped \/ psTask'[u].pc = "unmap" => psTask'[u].pte = Unmapped
                        /\ psTask'[u].pc = "unmap" => psTask'[u].mapped
                        /\ psTask'[u].pc # "trimmed"
    BY DEF MapsInOrder, Unmapped
  <2>2. /\ psTask[u].pc = "called" => psTask[u].copy \in Pairs
        /\ psTask[u].mapped => psTask[u].pc \in {"idle", "called", "unmap"}
        /\ ~psTask[u].mapped \/ psTask[u].pc = "unmap" => psTask[u].pte = Unmapped
        /\ psTask[u].pc = "unmap" => psTask[u].mapped
        /\ psTask[u].pc # "trimmed"
    BY <1>2, <1>12 DEF MapsInOrder
  <2>3. CASE u = t
    <3>1. /\ psTask'[u].pc = "unmap" /\ psTask'[u].pte = Unmapped
          /\ psTask'[u].mapped = psTask[u].mapped /\ psTask[u].mapped
      BY <1>3, <1>5, <2>3
    <3>2. QED
      BY <3>1
  <2>4. CASE u # t
    <3>1. /\ psTask'[u].pc = psTask[u].pc /\ psTask'[u].pte = psTask[u].pte
          /\ psTask'[u].mapped = psTask[u].mapped /\ psTask'[u].copy = psTask[u].copy
      BY <1>5, <2>4
    <3>2. QED
      BY <2>2, <3>1
  <2>5. QED
    BY <2>3, <2>4
<1>18. BlocksApart'
  BY <1>1, <1>14 DEF PsStrong, BlocksApart, Within
<1>19. PagesHeld'
  <2>1. \A p : BlockHolds(p)' = BlockHolds(p)
    BY <1>14 DEF BlockHolds, Within
  <2>2. QED
    BY <1>9, <2>1 DEF PagesHeld
<1>20. TablesShow'
  <2>1. \A o : PageAt(o)' = PageAt(o)
    BY <1>13 DEF PageAt, PsItem, PsSlot, PsOff
  <2>2. TablesShow
    BY <1>1 DEF PsStrong
  <2>3. QED
    BY <1>5, <1>13, <2>1, <2>2, UnmappedIs DEF TablesShow
<1>21. PsStrong'
  BY <1>15, <1>16, <1>17, <1>18, <1>19, <1>20 DEF PsStrong
<1>22. ~psWild'
  BY DEF PsMunmap, PsRunning
<1>23. QED
  BY <1>11, <1>21, <1>22, PsEnough

\* scullp_vma_open, scullp_vma_close.
LEMMA CountVmaKeeps ==
    ASSUME PsInv, PsRunning, NEW t \in PsTasks, CountVma(t)
    PROVE  PsInv'
<1>1. PsTypeOK /\ PsStrong
  BY DEF PsInv
<1>2. psTask \in [PsTasks -> PsRecords] /\ MapsInOrder /\ psParam \in Pairs
  BY <1>1 DEF PsStrong, PsTypes
<1>3. PICK on \in BOOLEAN : on = (psTask[t].pc = "mmap")
  OBVIOUS
<1>4. /\ psTask[t].pc \in {"mmap", "unmap"}
      /\ psVmas' = psVmas + IF on THEN 1 ELSE -1
      /\ psTask' = [psTask EXCEPT ![t].mapped = on, ![t].pc = "idle"]
  BY <1>3 DEF CountVma
<1>5. psTask' \in [PsTasks -> PsRecords]
  <2>1. [psTask[t] EXCEPT !.mapped = on, !.pc = "idle"] \in PsRecords
    BY <1>2 DEF PsRecords
  <2>2. QED
    BY <1>2, <1>4, <2>1
<1>6. \A u \in PsTasks :
         /\ psTask'[u].pc = (IF u = t THEN "idle" ELSE psTask[u].pc)
         /\ psTask'[u].mapped = (IF u = t THEN on ELSE psTask[u].mapped)
         /\ psTask'[u].pte = psTask[u].pte /\ psTask'[u].copy = psTask[u].copy
  BY <1>2, <1>4 DEF PsRecords
<1>7. OnlyGoes(t, "idle")
  BY <1>6 DEF OnlyGoes
<1>8. \A u \in PsTasks : u \in Trimming' <=> psSem' = u
  BY <1>1, <1>4, <1>7, SemStays DEF CountVma
<1>9. PsTypeOK'
  BY <1>1, <1>8 DEF CountVma, Device, PsTypeOK
<1>10. UNCHANGED <<psDriver, psCache, psData, psGeo, psParam, psRefs>>
  BY DEF CountVma, Fixed, Device
<1>11. Blocks' = Blocks
  BY <1>10 DEF Blocks, BlockPages, ItemPages
<1>12. \A p : MappersOf(p)' = MappersOf(p)
  BY <1>6, MappersSame
<1>13. VmasCount' /\ psVmas' \in Nat
  <2>1. psVmas = Cardinality(MappedTasks) /\ IsFiniteSet(MappedTasks) /\ Cardinality(MappedTasks) \in Nat
    BY <1>1, MappedFinite DEF PsStrong, VmasCount
  <2>2. CASE on
    <3>1. t \notin MappedTasks
      BY <1>2, <1>3, <2>2 DEF MapsInOrder, MappedTasks
    <3>2. MappedTasks' = MappedTasks \cup {t}
      BY <1>6, <2>2 DEF MappedTasks
    <3>3. Cardinality(MappedTasks \cup {t}) = Cardinality(MappedTasks) + 1
      BY <2>1, <3>1, FS_AddElement
    <3>4. psVmas' = psVmas + 1
      BY <1>4, <2>2
    <3>5. QED
      BY <2>1, <3>2, <3>3, <3>4 DEF VmasCount
  <2>3. CASE ~on
    <3>1. t \in MappedTasks
      BY <1>2, <1>3, <1>4, <2>3 DEF MapsInOrder, MappedTasks
    <3>2. MappedTasks' = MappedTasks \ {t}
      BY <1>6, <2>3 DEF MappedTasks
    <3>3. IsFiniteSet(MappedTasks \ {t}) /\ Cardinality(MappedTasks \ {t}) = Cardinality(MappedTasks) - 1
      BY <2>1, <3>1, FS_RemoveElement
    <3>4. Cardinality(MappedTasks \ {t}) \in Nat
      BY <3>3, FS_CardinalityType
    <3>5. psVmas' = psVmas + -1
      BY <1>4, <2>3
    <3>6. QED
      BY <2>1, <3>2, <3>3, <3>4, <3>5 DEF VmasCount
  <2>4. QED
    BY <2>2, <2>3
<1>14. PsTypes'
  BY <1>1, <1>5, <1>10, <1>13 DEF PsStrong, PsTypes
<1>15. ItemsMade'
  BY <1>1, <1>10 DEF PsStrong, ItemsMade
<1>16. MapsInOrder'
  <2>1. SUFFICES ASSUME NEW u \in PsTasks
                 PROVE  /\ psTask'[u].pc = "called" => psTask'[u].copy \in Pairs
                        /\ psTask'[u].mapped => psTask'[u].pc \in {"idle", "called", "unmap"}
                        /\ ~psTask'[u].mapped \/ psTask'[u].pc = "unmap" => psTask'[u].pte = Unmapped
                        /\ psTask'[u].pc = "unmap" => psTask'[u].mapped
                        /\ psTask'[u].pc # "trimmed"
    BY DEF MapsInOrder, Unmapped
  <2>2. t \in Counting
    BY <1>4 DEF Counting
  <2>3. /\ psTask[u].pc = "called" => psTask[u].copy \in Pairs
        /\ psTask[u].mapped => psTask[u].pc \in {"idle", "called", "unmap"}
        /\ ~psTask[u].mapped \/ psTask[u].pc = "unmap" => psTask[u].pte = Unmapped
        /\ psTask[u].pc = "unmap" => psTask[u].mapped
        /\ psTask[u].pc # "trimmed"
    BY <1>2, <2>2 DEF MapsInOrder
  <2>4. psTask[t].pte = Unmapped
    BY <1>2, <1>4 DEF MapsInOrder
  <2>5. QED
    BY <1>6, <2>3, <2>4
<1>17. BlocksApart'
  BY <1>1, <1>11 DEF PsStrong, BlocksApart, Within
<1>18. PagesHeld'
  <2>1. \A p : BlockHolds(p)' = BlockHolds(p)
    BY <1>11 DEF BlockHolds, Within
  <2>2. \A p : Cardinality(MappersOf(p)') = Cardinality(MappersOf(p))
    BY <1>12
  <2>3. QED
    BY <1>1, <1>10, <2>1, <2>2 DEF PsStrong, PagesHeld
<1>19. TablesShow'
  <2>1. \A o : PageAt(o)' = PageAt(o)
    BY <1>10 DEF PageAt, PsItem, PsSlot, PsOff
  <2>2. QED
    BY <1>1, <1>6, <1>10, <2>1 DEF PsStrong, TablesShow
<1>20. PsStrong'
  BY <1>13, <1>14, <1>15, <1>16, <1>17, <1>18, <1>19 DEF PsStrong
<1>21. ~psWild'
  BY DEF CountVma, PsRunning, Flags
<1>22. QED
  BY <1>9, <1>20, <1>21, PsEnough

\* scullp_vma_nopage.  The quantum is there, since all items have as many
\* quanta as the device says.
LEMMA NoPageKeeps ==
    ASSUME PsInv, PsRunning, NEW t \in PsTasks, NEW o \in PsOffsets, NoPage(t, o)
    PROVE  PsInv'
<1>1. PsTypeOK /\ PsStrong
  BY DEF PsInv
<1>2. /\ psTask \in [PsTasks -> PsRecords] /\ MapsInOrder /\ psGeo \in Pairs /\ psData \in Seq(PsItems)
      /\ ItemsMade /\ BlocksApart
  BY <1>1 DEF PsStrong, PsTypes
<1>3. /\ psTask[t].pc = "idle" /\ psTask[t].mapped /\ psTask[t].pte[o] = 0
      /\ o < psSize /\ (QuantumAt(o) # 0 \/ OutOfSet(o))
      /\ UNCHANGED <<Fixed, Device, psVmas, psParam, psSem, psStale, psRaced, psNull>>
  BY DEF NoPage
<1>4. o \in Nat /\ psGeo[2] \in Nat \ {0}
  BY <1>2, PairOf DEF PsOffsets
<1>5. ListItem(o) \in Nat \ {0} /\ ListSlot(o) \in 1 .. psGeo[2]
  BY <1>4 DEF ListItem, ListSlot
<1>6. Len(psData) \in Nat /\ \A i \in 1 .. Len(psData) : psData[i] \in PsItems /\ Len(psData[i]) \in Nat
  BY <1>2, LenProperties DEF PsItems
<1>7. ~OutOfSet(o)
  BY <1>2, <1>4, <1>5, <1>6 DEF OutOfSet, ItemsMade
<1>8. UNCHANGED <<psDriver, psCache, psData, psSize, psGeo, psVmas, psParam, psSem, psStale, psRaced>>
  BY <1>3 DEF Fixed, Device
<1>9. Blocks' = Blocks
  BY <1>8 DEF Blocks, BlockPages, ItemPages
<1>10. \A k : PageAt(k)' = PageAt(k)
  BY <1>8 DEF PageAt, PsItem, PsSlot, PsOff
<1>11. CASE psDriver = "sculld"
  <2>1. psWild' = TRUE /\ psTask' = psTask /\ psRefs' = psRefs
    BY <1>11 DEF NoPage
  <2>2. PsTypeOK'
    BY <1>1, <1>8, <2>1 DEF PsTypeOK, Trimming
  <2>3. PsWithinBounds'
    BY <1>3, <1>8, <1>11, <2>1 DEF PsWithinBounds
  <2>4. VmasCount' /\ TablesShow'
    BY <1>1, <1>8, <1>10, <2>1 DEF PsStrong, VmasCount, MappedTasks, TablesShow
  <2>5. QED
    BY <2>1, <2>2, <2>3, <2>4 DEF PsInv, PsRunning
<1>12. CASE psDriver # "sculld"
  <2> DEFINE v == QuantumAt(o)
  <2>1. /\ psTask' = [psTask EXCEPT ![t].pte[o] = v] /\ psRefs' = [psRefs EXCEPT ![v] = @ + 1]
        /\ psWild' = psWild
    BY <1>7, <1>12 DEF NoPage
  <2>2. v # 0
    BY <1>3, <1>7
  <2>3. <<v, BlockPages(ListItem(o))>> \in Blocks
    <3>1. /\ ListItem(o) <= Len(psData) /\ ListSlot(o) <= Len(psData[ListItem(o)])
          /\ v = psData[ListItem(o)][ListSlot(o)]
      BY <2>2 DEF QuantumAt
    <3>2. ListItem(o) \in 1 .. Len(psData)
      BY <1>5, <1>6, <3>1
    <3>3. QED
      BY <1>5, <2>2, <3>1, <3>2, BlockIs
  <2>4. v \in PageNos
    BY <1>2, <2>3 DEF BlocksApart
  <2>5. psGeo[1] = 1 => v = PageAt(o)
    <3>1. ASSUME psGeo[1] = 1 PROVE v = PageAt(o)
      <4>1. PsItem(o, psGeo) = ListItem(o) /\ PsSlot(o, psGeo) = ListSlot(o) /\ PsOff(o, psGeo) = 0
        BY <1>2, <1>4, <3>1, PsPlainIndex
      <4>2. /\ ListItem(o) <= Len(psData) /\ ListSlot(o) <= Len(psData[ListItem(o)])
            /\ v = psData[ListItem(o)][ListSlot(o)]
        BY <2>2 DEF QuantumAt
      <4>3. v \in Nat
        BY <2>4 DEF PageNos
      <4> HIDE DEF v
      <4>4. PageAt(o) = v + 0
        BY <2>2, <4>1, <4>2 DEF PageAt
      <4>5. QED
        BY <4>3, <4>4
    <3>2. QED
      BY <3>1
  <2> HIDE DEF v
  <2>6. [psTask[t] EXCEPT !.pte[o] = v] \in PsRecords
    <3>1. psTask[t] \in PsRecords
      BY <1>2
    <3>2. [psTask[t].pte EXCEPT ![o] = v] \in PsTables
      BY <2>4, <3>1 DEF PsRecords, PsTables
    <3>3. QED
      BY <3>1, <3>2 DEF PsRecords
  <2>7. psTask' \in [PsTasks -> PsRecords]
    BY <1>2, <2>1, <2>6
  <2>8. \A u \in PsTasks :
           /\ psTask'[u].pc = psTask[u].pc /\ psTask'[u].mapped = psTask[u].mapped
           /\ psTask'[u].copy = psTask[u].copy
           /\ u # t => psTask'[u].pte = psTask[u].pte
    BY <1>2, <2>1 DEF PsRecords
  <2>9. \A k \in PsOffsets : psTask'[t].pte[k] = IF k = o THEN v ELSE psTask[t].pte[k]
    <3>1. psTask[t].pte \in PsTables
      BY <1>2 DEF PsRecords
    <3>2. psTask'[t].pte = [psTask[t].pte EXCEPT ![o] = v]
      BY <1>2, <2>1 DEF PsRecords
    <3>3. QED
      BY <3>1, <3>2 DEF PsTables
  <2>10. PsTypeOK'
    <3>1. psRefs' \in [PageNos -> Nat]
      BY <1>1, <2>1, <2>4 DEF PsTypeOK
    <3>2. Trimming' = Trimming
      BY <2>8 DEF Trimming
    <3>3. QED
      BY <1>1, <1>8, <3>1, <3>2 DEF PsTypeOK
  <2>11. PsTypes'
    BY <1>1, <1>8, <2>7 DEF PsStrong, PsTypes
  <2>12. MappedTasks' = MappedTasks /\ Counting' = Counting
    BY <2>8, MappedSame DEF Counting
  <2>13. ItemsMade' /\ VmasCount'
    BY <1>1, <1>8, <2>12 DEF PsStrong, ItemsMade, VmasCount
  <2>14. MapsInOrder'
    <3>1. SUFFICES ASSUME NEW u \in PsTasks
                   PROVE  /\ psTask'[u].pc = "called" => psTask'[u].copy \in Pairs
                          /\ psTask'[u].mapped => psTask'[u].pc \in {"idle", "called", "unmap"}
                          /\ ~psTask'[u].mapped \/ psTask'[u].pc = "unmap" => psTask'[u].pte = Unmapped
                          /\ psTask'[u].pc = "unmap" => psTask'[u].mapped
                          /\ psTask'[u].pc = "trimmed" => psData' = <<>> /\ MappedTasks' = {} /\ Counting' = {}
      BY DEF MapsInOrder, Unmapped
    <3>2. /\ psTask[u].pc = "called" => psTask[u].copy \in Pairs
          /\ psTask[u].mapped => psTask[u].pc \in {"idle", "called", "unmap"}
          /\ ~psTask[u].mapped \/ psTask[u].pc = "unmap" => psTask[u].pte = Unmapped
          /\ psTask[u].pc = "unmap" => psTask[u].mapped
          /\ psTask[u].pc = "trimmed" => psData = <<>> /\ MappedTasks = {} /\ Counting = {}
      BY <1>2 DEF MapsInOrder
    <3>3. /\ psTask'[u].pc = psTask[u].pc /\ psTask'[u].mapped = psTask[u].mapped
          /\ psTask'[u].copy = psTask[u].copy
          /\ u # t => psTask'[u].pte = psTask[u].pte
      BY <2>8
    <3>4. psData' = psData
      BY <1>8
    <3>5. QED
      BY <1>3, <2>12, <3>2, <3>3, <3>4
  <2>15. BlocksApart'
    BY <1>1, <1>9 DEF PsStrong, BlocksApart, Within
  <2>16. PagesHeld'
    <3>1. SUFFICES ASSUME NEW p \in PageNos
                   PROVE  psRefs'[p] = Cardinality(MappersOf(p)') + IF BlockHolds(p)' THEN 1 ELSE 0
      BY DEF PagesHeld
    <3>2. BlockHolds(p)' = BlockHolds(p)
      BY <1>9 DEF BlockHolds, Within
    <3>3. Cardinality(MappersOf(p)') = Cardinality(MappersOf(p)) + IF p = v THEN 1 ELSE 0
      BY <1>2, <1>3, <2>1, <2>4, MapperAdded
    <3>4. psRefs[p] = Cardinality(MappersOf(p)) + IF BlockHolds(p) THEN 1 ELSE 0
      BY <1>1 DEF PsStrong, PagesHeld
    <3>5. psRefs'[p] = IF p = v THEN psRefs[p] + 1 ELSE psRefs[p]
      BY <1>1, <2>1 DEF PsTypeOK
    <3>6. Cardinality(MappersOf(p)) \in Nat
      BY MappersFinite
    <3>7. QED
      BY <3>2, <3>3, <3>4, <3>5, <3>6
  <2>17. TablesShow'
    <3>1. SUFFICES ASSUME psGeo[1] = 1, NEW u \in PsTasks, NEW k \in PsOffsets
                   PROVE  psTask'[u].pte[k] \in {0, PageAt(k)}
      BY <1>8, <1>10 DEF TablesShow
    <3>2. psTask[u].pte[k] \in {0, PageAt(k)}
      BY <1>1, <3>1 DEF PsStrong, TablesShow
    <3>3. QED
      BY <2>5, <2>8, <2>9, <3>1, <3>2
  <2>18. PsStrong'
    BY <2>11, <2>13, <2>14, <2>15, <2>16, <2>17 DEF PsStrong
  <2>19. ~psWild'
    BY <2>1 DEF PsRunning
  <2>20. QED
    BY <2>10, <2>18, <2>19, PsEnough
<1>13. QED
  BY <1>11, <1>12

-----------------------------------------------------------------------------
(* read and write.                                                         *)

\* The item that a call is about, as it was, or empty.
OldItem(i) == IF i <= Len(psData) THEN psData[i] ELSE <<>>

\* One item is written, after the list was followed to it: what was in it
\* stays, what comes into it is in new.
RowWritten(i, row) == psData' = [PsFollowed(i) EXCEPT ![i] = row]
RowStays(i, row) ==
    \A s \in 1 .. Len(OldItem(i)) : OldItem(i)[s] # 0 => s <= Len(row) /\ row[s] = OldItem(i)[s]
RowNew(i, row, new) ==
    \A s \in 1 .. Len(row) : row[s] # 0 =>
        \/ s <= Len(OldItem(i)) /\ OldItem(i)[s] = row[s]
        \/ <<i, row[s]>> \in new

LEMMA ItemWritten ==
    ASSUME psData \in Seq(PsItems), NEW i \in Nat \ {0}, NEW row \in PsItems, RowWritten(i, row),
           psGeo' = psGeo, ItemsMade => row = <<>> \/ Len(row) = psGeo[2],
           NEW new, RowStays(i, row), RowNew(i, row, new)
    PROVE  /\ psData' \in Seq(PsItems) /\ QuantaStay /\ QuantaNew(new) /\ (ItemsMade => ItemsMade')
           /\ i \in 1 .. Len(psData') /\ psData'[i] = row
<1> DEFINE list == PsFollowed(i)
<1>1. /\ list \in Seq(PsItems) /\ i \in 1 .. Len(list)
      /\ Len(list) = (IF i < Len(psData) THEN Len(psData) ELSE i)
      /\ \A k \in 1 .. Len(list) : list[k] = OldItem(k)
  <2>1. /\ list \in Seq(PsItems) /\ i \in 1 .. Len(list)
        /\ Len(list) = (IF i < Len(psData) THEN Len(psData) ELSE i)
        /\ \A k \in 1 .. Len(list) : list[k] = IF k <= Len(psData) THEN psData[k] ELSE <<>>
    BY PsFollowedLonger
  <2> HIDE DEF list
  <2>2. QED
    BY <2>1 DEF OldItem
<1>2. Len(psData) \in Nat
  BY LenProperties
<1> HIDE DEF list
<1>3. /\ psData' \in Seq(PsItems) /\ Len(psData') = Len(list)
      /\ \A k \in 1 .. Len(list) : psData'[k] = IF k = i THEN row ELSE OldItem(k)
  <2>1. psData' = [list EXCEPT ![i] = row]
    BY DEF list, RowWritten
  <2>2. /\ [list EXCEPT ![i] = row] \in Seq(PsItems) /\ Len([list EXCEPT ![i] = row]) = Len(list)
        /\ \A k \in 1 .. Len(list) : [list EXCEPT ![i] = row][k] = IF k = i THEN row ELSE list[k]
    BY <1>1, ExceptSeq
  <2>3. QED
    BY <1>1, <2>1, <2>2
<1>4. Len(psData) <= Len(list)
  BY <1>1, <1>2
<1>5. QuantaStay
  <2>1. SUFFICES ASSUME NEW k \in 1 .. Len(psData), NEW s \in 1 .. Len(psData[k]), psData[k][s] # 0
                 PROVE  s <= Len(psData'[k]) /\ psData'[k][s] = psData[k][s]
    BY <1>3, <1>4 DEF QuantaStay
  <2>2. k \in 1 .. Len(list) /\ OldItem(k) = psData[k]
    BY <1>1, <1>2, <1>4 DEF OldItem
  <2>3. Len(psData[k]) \in Nat
    BY LenProperties DEF PsItems
  <2>4. CASE k = i
    BY <1>3, <2>1, <2>2, <2>4 DEF RowStays
  <2>5. CASE k # i
    BY <1>3, <2>1, <2>2, <2>3, <2>5
  <2>6. QED
    BY <2>4, <2>5
<1>6. QuantaNew(new)
  <2>1. SUFFICES ASSUME NEW k \in 1 .. Len(psData'), NEW s \in 1 .. Len(psData'[k]), psData'[k][s] # 0
                 PROVE  \/ k <= Len(psData) /\ s <= Len(psData[k]) /\ psData[k][s] = psData'[k][s]
                        \/ <<k, psData'[k][s]>> \in new
    BY DEF QuantaNew
  <2>2. k \in 1 .. Len(list)
    BY <1>3
  <2>3. \A m \in Nat \ {0} : Len(OldItem(k)) >= m => k <= Len(psData) /\ OldItem(k) = psData[k]
    BY DEF OldItem
  <2>4. s \in Nat \ {0}
    OBVIOUS
  <2>5. CASE k = i
    <3>1. psData'[k] = row
      BY <1>3, <2>2, <2>5
    <3>2. \/ s <= Len(OldItem(i)) /\ OldItem(i)[s] = row[s]
          \/ <<i, row[s]>> \in new
      BY <2>1, <3>1 DEF RowNew
    <3>3. CASE <<i, row[s]>> \in new
      BY <2>5, <3>1, <3>3
    <3>4. CASE s <= Len(OldItem(i)) /\ OldItem(i)[s] = row[s]
      <4>1. Len(OldItem(k)) >= s
        BY <2>5, <3>4
      <4>2. QED
        BY <2>3, <2>4, <2>5, <3>1, <3>4, <4>1
    <3>5. QED
      BY <3>2, <3>3, <3>4
  <2>6. CASE k # i
    <3>1. psData'[k] = OldItem(k)
      BY <1>3, <2>2, <2>6
    <3>2. Len(OldItem(k)) >= s
      BY <3>1
    <3>3. QED
      BY <2>3, <2>4, <3>1, <3>2
  <2>7. QED
    BY <2>5, <2>6
<1>7. ASSUME ItemsMade PROVE ItemsMade'
  <2>1. SUFFICES ASSUME NEW k \in 1 .. Len(psData') PROVE psData'[k] = <<>> \/ Len(psData'[k]) = psGeo[2]
    BY DEF ItemsMade
  <2>2. psData'[k] = IF k = i THEN row ELSE OldItem(k)
    BY <1>3
  <2>3. OldItem(k) = <<>> \/ (k \in 1 .. Len(psData) /\ OldItem(k) = psData[k])
    BY <1>2, <1>3 DEF OldItem
  <2>4. QED
    BY <1>7, <2>2, <2>3 DEF ItemsMade
<1>8. QED
  BY <1>1, <1>3, <1>5, <1>6, <1>7

\* Only followed to an item.
LEMMA ItemFollowed ==
    ASSUME psData \in Seq(PsItems), ItemsMade, NEW i \in Nat \ {0}, psData' = PsFollowed(i), psGeo' = psGeo
    PROVE  /\ psData' \in Seq(PsItems) /\ QuantaStay /\ QuantaNew({}) /\ ItemsMade'
           /\ i \in 1 .. Len(psData') /\ psData'[i] = OldItem(i)
<1> DEFINE list == PsFollowed(i)
           row == OldItem(i)
<1>1. /\ list \in Seq(PsItems) /\ i \in 1 .. Len(list)
      /\ list[i] = IF i <= Len(psData) THEN psData[i] ELSE <<>>
  BY PsFollowedLonger
<1>2. row \in PsItems /\ list[i] = row
  <2>1. Len(psData) \in Nat
    BY LenProperties
  <2>2. QED
    BY <1>1, <2>1 DEF OldItem, PsItems
<1> HIDE DEF list
<1>3. [list EXCEPT ![i] = row] = list
  <2>1. /\ [list EXCEPT ![i] = row] \in Seq(PsItems) /\ Len([list EXCEPT ![i] = row]) = Len(list)
        /\ \A j \in 1 .. Len(list) : [list EXCEPT ![i] = row][j] = IF j = i THEN row ELSE list[j]
    BY <1>1, <1>2, ExceptSeq
  <2>2. QED
    BY <1>1, <1>2, <2>1, SeqEqual
<1>4. RowWritten(i, row)
  BY <1>3 DEF list, RowWritten
<1>5. row = <<>> \/ Len(row) = psGeo[2]
  <2>1. Len(psData) \in Nat
    BY LenProperties
  <2>2. QED
    BY <2>1 DEF OldItem, ItemsMade
<1>6. Len(row) \in Nat
  BY <1>2, LenProperties DEF PsItems
<1> HIDE DEF row
<1>7. row = OldItem(i)
  BY DEF row
<1>8. RowStays(i, row) /\ RowNew(i, row, {})
  BY <1>6, <1>7 DEF RowStays, RowNew
<1>9. QED
  BY <1>2, <1>4, <1>5, <1>7, <1>8, ItemWritten

\* The item that a write looks at: a new set when there was none.
SetOf(i) == IF OldItem(i) = <<>> THEN [s \in 1 .. psGeo[2] |-> 0] ELSE OldItem(i)

LEMMA SetIs ==
    ASSUME PsStrong, NEW i \in Nat \ {0}
    PROVE  /\ SetOf(i) \in PsItems /\ Len(SetOf(i)) = psGeo[2]
           /\ RowStays(i, SetOf(i)) /\ RowNew(i, SetOf(i), {})
<1>1. psData \in Seq(PsItems) /\ ItemsMade /\ psGeo[2] \in Nat \ {0}
  BY PairOf DEF PsStrong, PsTypes
<1>2. Len(psData) \in Nat
  BY <1>1, LenProperties
<1>3. CASE OldItem(i) = <<>>
  <2>1. SetOf(i) = [s \in 1 .. psGeo[2] |-> 0]
    BY <1>3 DEF SetOf
  <2>2. SetOf(i) \in PsItems /\ Len(SetOf(i)) = psGeo[2]
    <3>1. SetOf(i) \in [1 .. psGeo[2] -> PageNos \cup {0}]
      BY <2>1
    <3>2. psGeo[2] \in Nat
      BY <1>1
    <3>3. SetOf(i) \in Seq(PageNos \cup {0})
      BY <3>1, <3>2, SeqDef
    <3>4. DOMAIN SetOf(i) = 1 .. Len(SetOf(i)) /\ Len(SetOf(i)) \in Nat
      BY <3>3, LenProperties
    <3>5. DOMAIN SetOf(i) = 1 .. psGeo[2]
      BY <2>1
    <3>6. QED
      BY <3>2, <3>3, <3>4, <3>5 DEF PsItems
  <2>3. Len(OldItem(i)) = 0
    BY <1>3
  <2>4. \A s \in 1 .. Len(SetOf(i)) : SetOf(i)[s] = 0
    BY <2>1, <2>2
  <2>5. QED
    BY <2>2, <2>3, <2>4 DEF RowStays, RowNew
<1>4. CASE OldItem(i) # <<>>
  <2>1. i \in 1 .. Len(psData) /\ OldItem(i) = psData[i]
    BY <1>2, <1>4 DEF OldItem
  <2>2. OldItem(i) \in PsItems /\ Len(OldItem(i)) = psGeo[2]
    BY <1>1, <1>4, <2>1 DEF ItemsMade
  <2>3. SetOf(i) = OldItem(i)
    BY <1>4 DEF SetOf
  <2>4. \A s \in 1 .. Len(OldItem(i)) : s <= Len(OldItem(i))
    BY <1>1, <2>2
  <2>5. QED
    BY <2>2, <2>3, <2>4 DEF RowStays, RowNew
<1>5. QED
  BY <1>3, <1>4

\* The set is there, with the quanta it had.
LEMMA SetStep ==
    ASSUME PsStrong, NEW i \in Nat \ {0}, RowWritten(i, SetOf(i)), psGeo' = psGeo
    PROVE  psData' \in Seq(PsItems) /\ QuantaStay /\ QuantaNew({}) /\ ItemsMade'
<1>1. psData \in Seq(PsItems) /\ ItemsMade
  BY DEF PsStrong, PsTypes
<1>2. QED
  BY <1>1, SetIs, ItemWritten

\* A slot of it that was empty has a quantum.
LEMMA SlotStep ==
    ASSUME PsStrong, NEW i \in Nat \ {0}, NEW slot \in 1 .. psGeo[2], NEW v \in PageNos,
           SetOf(i)[slot] = 0,
           RowWritten(i, [SetOf(i) EXCEPT ![slot] = v]),
           UNCHANGED <<psGeo, psDriver, psCache>>
    PROVE  /\ psData' \in Seq(PsItems) /\ QuantaStay /\ QuantaNew({<<i, v>>}) /\ ItemsMade'
           /\ <<v, BlockPages(i)>> \in Blocks'
<1>1. psData \in Seq(PsItems) /\ ItemsMade /\ psGeo[2] \in Nat \ {0}
  BY PairOf DEF PsStrong, PsTypes
<1> DEFINE set == SetOf(i)
           row == [set EXCEPT ![slot] = v]
<1>2. /\ set \in PsItems /\ Len(set) = psGeo[2]
      /\ RowStays(i, set) /\ RowNew(i, set, {})
  BY SetIs
<1>3. set[slot] = 0
  OBVIOUS
<1>4. RowWritten(i, row)
  OBVIOUS
<1> HIDE DEF set
<1>5. v \in PageNos \cup {0} /\ v # 0
  BY DEF PageNos
<1>6. /\ row \in PsItems /\ Len(row) = Len(set)
      /\ \A s \in 1 .. Len(set) : row[s] = IF s = slot THEN v ELSE set[s]
  <2>1. set \in Seq(PageNos \cup {0}) /\ slot \in 1 .. Len(set)
    BY <1>2 DEF PsItems
  <2>2. /\ row \in Seq(PageNos \cup {0}) /\ Len(row) = Len(set)
        /\ \A s \in 1 .. Len(set) : row[s] = IF s = slot THEN v ELSE set[s]
    BY <1>5, <2>1, ExceptSeq
  <2>3. QED
    BY <2>2 DEF PsItems
<1> HIDE DEF row
<1>7. OldItem(i) \in PsItems
  <2>1. Len(psData) \in Nat
    BY <1>1, LenProperties
  <2>2. QED
    BY <1>1, <2>1 DEF OldItem, PsItems
<1>8. RowStays(i, row)
  <2>1. SUFFICES ASSUME NEW s \in 1 .. Len(OldItem(i)), OldItem(i)[s] # 0
                 PROVE  s <= Len(row) /\ row[s] = OldItem(i)[s]
    BY DEF RowStays
  <2>2. Len(OldItem(i)) \in Nat
    BY <1>7, LenProperties DEF PsItems
  <2>3. s <= Len(set) /\ set[s] = OldItem(i)[s] /\ s \in 1 .. Len(set)
    BY <1>1, <1>2, <2>1, <2>2 DEF RowStays
  <2>4. s # slot
    BY <1>3, <2>1, <2>3
  <2>5. QED
    BY <1>6, <2>3, <2>4
<1>9. RowNew(i, row, {<<i, v>>})
  BY <1>2, <1>6 DEF RowNew
<1>10. /\ psData' \in Seq(PsItems) /\ QuantaStay /\ QuantaNew({<<i, v>>}) /\ ItemsMade'
       /\ i \in 1 .. Len(psData') /\ psData'[i] = row
  <2>1. row = <<>> \/ Len(row) = psGeo[2]
    BY <1>2, <1>6
  <2>2. psGeo' = psGeo
    OBVIOUS
  <2>3. QED
    BY <1>1, <1>4, <1>6, <1>8, <1>9, <2>1, <2>2, ItemWritten
<1>11. <<v, BlockPages(i)>> \in Blocks'
  <2>1. slot \in 1 .. psGeo'[2] /\ slot <= Len(psData'[i]) /\ psData'[i][slot] = v
    BY <1>1, <1>2, <1>6, <1>10
  <2>2. BlockPages(i)' = BlockPages(i)
    BY DEF BlockPages, ItemPages
  <2>3. QED
    BY <1>5, <1>10, <2>1, <2>2, BlockIsThen
<1>12. QED
  BY <1>10, <1>11

\* The first of the free pages.
LEMMA RunsLeast ==
    ASSUME NEW n, Runs(n) # {}
    PROVE  (CHOOSE p \in Runs(n) : \A q \in Runs(n) : p <= q) \in Runs(n)
<1>1. Runs(n) \subseteq Nat
  BY DEF Runs, PageNos
<1>2. PICK x \in Runs(n) : \A y \in Runs(n) : ~(<<y, x>> \in OpToRel(<, Nat))
  BY <1>1, NatLessThanWellFounded, WFMin
<1>3. \A y \in Runs(n) : ~(y < x)
  BY <1>1, <1>2 DEF OpToRel
<1>4. \A y \in Runs(n) : x <= y
  BY <1>1, <1>3
<1>5. QED
  BY <1>4

\* A call that goes past the pages of its quantum does so where the driver is
\* not what it is meant to be.
LEMMA PastBlock ==
    ASSUME PsTypes, NEW i \in Nat \ {0}, BlockPages(i) < psGeo[1], psData' \in Seq(PsItems), i <= Len(psData'),
           UNCHANGED <<psDriver, psCache, psGeo, psParam>>
    PROVE  ~Fits'
<1>1. psGeo[1] \in Nat \ {0} /\ psCache \in Nat /\ Len(psData') \in Nat
  BY PairOf, LenProperties DEF PsTypes
<1>2. CASE psDriver = "scullc"
  BY <1>1, <1>2 DEF BlockPages, Fits
<1>3. CASE psDriver # "scullc"
  <2>1. i # 1 /\ psGeo[1] # 1
    BY <1>1, <1>3 DEF BlockPages, ItemPages
  <2>2. ~(Len(psData') <= 1)
    BY <1>1, <2>1
  <2>3. QED
    BY <1>3, <2>1, <2>2 DEF Fits
<1>4. QED
  BY <1>2, <1>3

\* A call of read or write: the device is one process's, which then returns.
LEMMA CallReturns ==
    ASSUME PsInv, PsRunning, NEW t \in PsTasks, PsInside(t), PsReturn(t)
    PROVE  /\ PsTypeOK /\ PsStrong /\ PsTypes /\ ItemsMade
           /\ psTask[t].copy \in Pairs
           /\ MapsStay /\ MapsInOrder' /\ MappedTasks' = MappedTasks
           /\ UNCHANGED <<psDriver, psCache, psGeo, psVmas, psParam, psSem, psRaced>>
           /\ psSize' \in 0 .. PsMaxPos /\ psRefs' \in [PageNos -> Nat] => PsTypeOK'
           /\ ~psStale' => psTask[t].copy = psGeo
           /\ ~psWild
<1>1. PsTypeOK /\ PsStrong /\ PsTypes /\ ItemsMade /\ MapsInOrder
  BY DEF PsInv, PsStrong
<1>2. psTask[t].pc = "called" /\ psSem = PsFree
  BY DEF PsInside
<1>3. UNCHANGED <<psDriver, psCache, psGeo, psVmas, psParam, psSem, psRaced>>
  BY DEF PsInside, Fixed
<1>4. psTask[t].copy \in Pairs
  BY <1>1, <1>2 DEF MapsInOrder
<1>5. /\ MapsStay /\ MappedTasks' = MappedTasks /\ MapsInOrder'
      /\ \A u \in PsTasks : u \in Trimming' <=> psSem' = u
  BY <1>1, <1>2, <1>3, Returns
<1>6. psSize' \in 0 .. PsMaxPos /\ psRefs' \in [PageNos -> Nat] => PsTypeOK'
  BY <1>1, <1>3, <1>5 DEF PsTypeOK
<1>7. ASSUME ~psStale' PROVE psTask[t].copy = psGeo
  <2>1. psStale' = (psStale \/ psTask[t].copy # psGeo)
    BY DEF PsInside
  <2>2. QED
    BY <1>7, <2>1, Zenon
<1>8. ~psWild
  BY DEF PsRunning
<1>9. QED
  BY <1>1, <1>3, <1>4, <1>5, <1>6, <1>7, <1>8

\* What such a call must keep, by what it does: nothing to the list, something
\* to the list, or a step past what was allocated.
LEMMA StaleStep ==
    ASSUME PsTypeOK', psStale'
    PROVE  PsInv'
BY DEF PsInv, PsWithinBounds, PsRunning

LEMMA AstrayStep ==
    ASSUME PsStrong, PsTypeOK', ~Fits' \/ psNull' = TRUE, MapsStay, MappedTasks' = MappedTasks, psWild' = TRUE,
           UNCHANGED <<psDriver, psCache, psGeo, psVmas>>, psData' \in Seq(PsItems), QuantaStay, QuantaNew({})
    PROVE  PsInv'
<1>1. TablesShow'
  BY TablesStay DEF PsStrong
<1>2. VmasCount'
  BY DEF PsStrong, VmasCount
<1>3. QED
  BY <1>1, <1>2 DEF PsInv, PsWithinBounds, PsRunning

\* The list as it is.
LEMMA SameList ==
    ASSUME PsStrong, psData' = psData, psGeo' = psGeo
    PROVE  psData' \in Seq(PsItems) /\ QuantaStay /\ QuantaNew({}) /\ ItemsMade'
<1>1. psData \in Seq(PsItems) /\ ItemsMade
  BY DEF PsStrong, PsTypes
<1>2. Len(psData) \in Nat /\ \A i \in 1 .. Len(psData) : Len(psData[i]) \in Nat
  BY <1>1, LenProperties DEF PsItems
<1>3. QuantaStay
  BY <1>2 DEF QuantaStay
<1>4. QuantaNew({})
  BY <1>2 DEF QuantaNew
<1>5. QED
  BY <1>1, <1>3, <1>4 DEF ItemsMade

\* scullp_read.
LEMMA ReadKeeps ==
    ASSUME PsInv, PsRunning, NEW t \in PsTasks, NEW pos \in 0 .. PsMaxPos - 1,
           NEW count \in 1 .. psTask[t].copy[1], PsRead(t, pos, count)
    PROVE  PsInv'
<1> DEFINE g == psTask[t].copy
           item == PsItem(pos, g)
           slot == PsSlot(pos, g)
           off == PsOff(pos, g)
           n == PsLeast(PsLeast(count, psSize - pos), g[1] - off)
           Nothing == PsReturn(t) /\ UNCHANGED <<psSize, psRefs, psWild>>
<1>1. /\ PsInside(t)
      /\ \/ FollowFails(t, item)
         \/ Nothing /\ psData' = psData
         \/ Nothing /\ psData' = PsFollowed(item)
         \/ /\ item <= Len(psData) /\ psData[item] # <<>> /\ psData' = psData
            /\ PsAstray(t)
            /\ slot > Len(psData[item]) \/ off + n > BlockPages(item)
  BY DEF PsRead
<1>2. PsReturn(t) /\ UNCHANGED <<psSize, psRefs>>
  BY <1>1 DEF PsAstray, FollowFails
<1>3. /\ PsTypeOK /\ PsStrong /\ PsTypes /\ ItemsMade /\ g \in Pairs
      /\ MapsStay /\ MapsInOrder' /\ MappedTasks' = MappedTasks
      /\ UNCHANGED <<psDriver, psCache, psGeo, psVmas, psParam, psSem, psRaced>>
      /\ psSize' \in 0 .. PsMaxPos /\ psRefs' \in [PageNos -> Nat] => PsTypeOK'
      /\ (~psStale' => g = psGeo) /\ ~psWild
  BY <1>1, <1>2, CallReturns
<1>4. PsTypeOK'
  BY <1>2, <1>3 DEF PsTypeOK
<1>5. pos \in Nat
  OBVIOUS
<1>6. /\ item \in Nat \ {0} /\ slot \in 1 .. g[2] /\ off \in 0 .. g[1] - 1
      /\ g[1] \in Nat \ {0} /\ g[2] \in Nat \ {0}
  BY <1>3, <1>5, PsIndex, PairOf
<1>7. n \in Int /\ off + n <= g[1]
  <2>1. psSize \in Int /\ count \in Int /\ g[1] - off \in Int
    BY <1>3, <1>6 DEF PsTypeOK
  <2>2. QED
    BY <1>5, <1>6, <2>1 DEF PsLeast
<1> HIDE DEF item, slot, off, n
<1>8. CASE psStale'
  BY <1>4, <1>8, StaleStep
<1>9. CASE ~psStale'
  <2>1. g = psGeo
    BY <1>3, <1>9
  <2>2. psParam' \in Pairs
    BY <1>3 DEF PsTypes
  <2>3. CASE Nothing /\ psData' = psData
    <3>1. PsStrong'
      BY <1>2, <1>3, <2>2, <2>3, ControlStep
    <3>2. QED
      BY <1>3, <1>4, <2>3, <3>1, PsEnough
  <2>4. CASE Nothing /\ psData' = PsFollowed(item)
    <3>1. psData' \in Seq(PsItems) /\ QuantaStay /\ QuantaNew({}) /\ ItemsMade'
      BY <1>3, <1>6, <2>4, ItemFollowed DEF PsTypes
    <3>2. PsStrong'
      BY <1>2, <1>3, <3>1, ListStep
    <3>3. QED
      BY <1>3, <1>4, <2>4, <3>2, PsEnough
  <2>5. CASE /\ item <= Len(psData) /\ psData[item] # <<>> /\ psData' = psData
             /\ PsAstray(t)
             /\ slot > Len(psData[item]) \/ off + n > BlockPages(item)
    <3>1. psData' \in Seq(PsItems) /\ QuantaStay /\ QuantaNew({})
      BY <1>3, <2>5, SameList
    <3>2. Len(psData) \in Nat
      BY <1>3, LenProperties DEF PsTypes
    <3>3. Len(psData[item]) = psGeo[2]
      BY <1>3, <1>6, <2>5, <3>2 DEF ItemsMade
    <3>4. off + n > BlockPages(item)
      BY <1>6, <2>1, <2>5, <3>3
    <3>5. BlockPages(item) \in Nat
      BY <1>3, <1>6, <2>1 DEF PsTypes, BlockPages, ItemPages
    <3>6. BlockPages(item) < psGeo[1]
      BY <1>6, <1>7, <2>1, <3>4, <3>5
    <3>7. ~Fits'
      BY <1>3, <1>6, <2>5, <3>1, <3>6, PastBlock
    <3>8. QED
      BY <1>3, <1>4, <2>5, <3>1, <3>7, AstrayStep DEF PsAstray
  <2>6. CASE FollowFails(t, item)
    <3>1. psWild' = TRUE /\ psNull' = TRUE /\ psData' = psData
      BY <2>6 DEF FollowFails, PsAstray
    <3>2. psData' \in Seq(PsItems) /\ QuantaStay /\ QuantaNew({})
      BY <1>3, <3>1, SameList
    <3>3. QED
      BY <1>3, <1>4, <3>1, <3>2, AstrayStep
  <2>7. QED
    BY <1>1, <2>3, <2>4, <2>5, <2>6
<1>10. QED
  BY <1>8, <1>9

\* A slot that is given what it has.
LEMMA RowAgain ==
    ASSUME NEW row \in PsItems, NEW s \in 1 .. Len(row)
    PROVE  [row EXCEPT ![s] = row[s]] = row
<1>1. row \in [1 .. Len(row) -> PageNos \cup {0}]
  BY LenProperties DEF PsItems
<1>2. QED
  BY <1>1

\* scullp_write.
LEMMA WriteKeeps ==
    ASSUME PsInv, PsRunning, NEW t \in PsTasks, NEW pos \in 0 .. PsMaxPos - 1,
           NEW count \in 0 .. psTask[t].copy[1], PsWrite(t, pos, count)
    PROVE  PsInv'
<1> DEFINE g == psTask[t].copy
           item == PsItem(pos, g)
           slot == PsSlot(pos, g)
           off == PsOff(pos, g)
           n == PsLeast(count, g[1] - off)
           list == PsFollowed(item)
           set == IF list[item] = <<>> THEN [s \in 1 .. g[2] |-> 0] ELSE list[item]
           room == BlockPages(item)
           first == CHOOSE p \in Runs(room) : \A q \in Runs(room) : p <= q
           Lays(v) == psData' = [list EXCEPT ![item] = [set EXCEPT ![slot] = v]]
           Taken == [p \in PageNos |-> IF p \in first .. first + room - 1 THEN 1 ELSE psRefs[p]]
           SameEnd == psSize' = psSize /\ psWild' = psWild
           Longer == /\ pos + n <= PsMaxPos /\ psSize' = (IF psSize < pos + n THEN pos + n ELSE psSize)
                     /\ psWild' = psWild
           Past == psWild' = TRUE /\ psSize' = psSize /\ psRefs' = psRefs
           Follows == SameEnd /\ psData' = list /\ psRefs' = psRefs
           Makes == SameEnd /\ psData' = [list EXCEPT ![item] = set] /\ psRefs' = psRefs
           Null == Past /\ psNull' = TRUE /\ psData' = psData
           Strays == /\ Past /\ psData' = list
                     /\ \/ slot > Len(set) \/ off + n > room
                        \/ Cleared(item) > room
           Allots == /\ slot <= Len(set) /\ set[slot] = 0 /\ Runs(room) # {} /\ Lays(first) /\ psRefs' = Taken
                     /\ SameEnd \/ Longer
           Writes == /\ slot <= Len(set) /\ set[slot] # 0 /\ Lays(set[slot]) /\ psRefs' = psRefs
                     /\ SameEnd \/ Longer
<1>1. PsInside(t) /\ PsReturn(t) /\ (Null \/ Follows \/ Makes \/ Strays \/ Allots \/ Writes)
  BY DEF PsWrite, PsAstray, FollowFails
<1>2. /\ PsTypeOK /\ PsStrong /\ PsTypes /\ ItemsMade /\ g \in Pairs
      /\ MapsStay /\ MapsInOrder' /\ MappedTasks' = MappedTasks
      /\ UNCHANGED <<psDriver, psCache, psGeo, psVmas, psParam, psSem, psRaced>>
      /\ psSize' \in 0 .. PsMaxPos /\ psRefs' \in [PageNos -> Nat] => PsTypeOK'
      /\ (~psStale' => g = psGeo) /\ ~psWild
  BY <1>1, CallReturns
<1>3. pos \in Nat
  OBVIOUS
<1>4. /\ item \in Nat \ {0} /\ slot \in 1 .. g[2] /\ off \in 0 .. g[1] - 1
      /\ g[1] \in Nat \ {0} /\ g[2] \in Nat \ {0}
  BY <1>2, <1>3, PsIndex, PairOf
<1>5. n \in Nat /\ off + n <= g[1]
  BY <1>4 DEF PsLeast
<1> HIDE DEF item, slot, off, n
<1>6. PsTypeOK'
  <2>1. psSize' \in 0 .. PsMaxPos
    <3>1. psSize \in 0 .. PsMaxPos /\ pos + n \in Nat
      BY <1>2, <1>3, <1>5 DEF PsTypeOK
    <3>2. psSize' = psSize \/ (pos + n <= PsMaxPos /\ psSize' = IF psSize < pos + n THEN pos + n ELSE psSize)
      BY <1>1
    <3>3. QED
      BY <3>1, <3>2, PagedScullAssumption
  <2>2. psRefs' \in [PageNos -> Nat]
    <3>1. psRefs \in [PageNos -> Nat]
      BY <1>2 DEF PsTypeOK
    <3>2. psRefs' = psRefs \/ psRefs' = Taken
      BY <1>1
    <3> HIDE DEF first, room
    <3>3. QED
      BY <3>1, <3>2
  <2>3. QED
    BY <1>2, <2>1, <2>2
<1>7. CASE psStale'
  BY <1>6, <1>7, StaleStep
<1>8. CASE ~psStale'
  <2>1. g = psGeo
    BY <1>2, <1>8
  <2>2. list[item] = OldItem(item) /\ set = SetOf(item)
    <3>1. item \in 1 .. Len(list) /\ list[item] = IF item <= Len(psData) THEN psData[item] ELSE <<>>
      BY <1>2, <1>4, PsFollowedLonger DEF PsTypes
    <3>2. QED
      BY <2>1, <3>1 DEF OldItem, SetOf
  <2>3. set \in PsItems /\ Len(set) = psGeo[2]
    BY <1>2, <1>4, <2>2, SetIs
  <2>4. slot \in 1 .. psGeo[2] /\ slot \in 1 .. Len(set)
    BY <1>4, <2>1, <2>3
  <2>5. CASE Follows
    <3>1. psData' \in Seq(PsItems) /\ QuantaStay /\ QuantaNew({}) /\ ItemsMade'
      BY <1>2, <1>4, <2>5, ItemFollowed DEF PsTypes
    <3>2. PsStrong'
      BY <1>2, <2>5, <3>1, ListStep
    <3>3. QED
      BY <1>2, <1>6, <2>5, <3>2, PsEnough
  <2>6. CASE Makes
    <3>1. RowWritten(item, SetOf(item))
      BY <2>2, <2>6 DEF RowWritten
    <3>2. psData' \in Seq(PsItems) /\ QuantaStay /\ QuantaNew({}) /\ ItemsMade'
      BY <1>2, <1>4, <3>1, SetStep
    <3>3. PsStrong'
      BY <1>2, <2>6, <3>2, ListStep
    <3>4. QED
      BY <1>2, <1>6, <2>6, <3>3, PsEnough
  <2>7. CASE Strays
    <3>1. /\ psData' \in Seq(PsItems) /\ QuantaStay /\ QuantaNew({})
          /\ item \in 1 .. Len(psData')
      BY <1>2, <1>4, <2>7, ItemFollowed DEF PsTypes
    <3>2. off + n > room \/ Cleared(item) > room
      BY <1>4, <2>3, <2>4, <2>7
    <3>3. room \in Nat /\ Len(psData') \in Nat
      BY <1>2, <1>4, <2>1, <3>1, LenProperties DEF PsTypes, BlockPages, ItemPages
    <3>4. ~Fits'
      <4>1. CASE off + n > room
        <5>1. room < psGeo[1]
          BY <1>4, <1>5, <2>1, <3>3, <4>1
        <5>2. item <= Len(psData')
          BY <3>1, <3>3
        <5>3. QED
          BY <1>2, <1>4, <3>1, <5>1, <5>2, PastBlock
      <4>2. CASE Cleared(item) > room
        <5>1. psDriver = "scullc" /\ psParam[1] > psCache
          BY <3>3, <4>2 DEF Cleared, BlockPages
        <5>2. psParam[1] \in Nat /\ psCache \in Nat
          BY <1>2, PairOf DEF PsTypes
        <5>3. QED
          BY <1>2, <5>1, <5>2 DEF Fits
      <4>3. QED
        BY <3>2, <4>1, <4>2
    <3>5. QED
      BY <1>2, <1>6, <2>7, <3>1, <3>4, AstrayStep
  <2>8. CASE Allots
    <3>1. first \in Runs(room)
      BY <2>8, RunsLeast
    <3>2. PICK f : f = first
      OBVIOUS
    <3>3. /\ f \in Runs(room) /\ f \in PageNos
          /\ psRefs' = [p \in PageNos |-> IF p \in f .. f + room - 1 THEN 1 ELSE psRefs[p]]
          /\ RowWritten(item, [SetOf(item) EXCEPT ![slot] = f])
      BY <2>2, <2>8, <3>1, <3>2 DEF Runs, RowWritten
    <3>4. SetOf(item)[slot] = 0
      BY <2>2, <2>8
    <3>5. /\ psData' \in Seq(PsItems) /\ QuantaStay /\ QuantaNew({<<item, f>>}) /\ ItemsMade'
          /\ <<f, room>> \in Blocks'
      BY <1>2, <1>4, <2>4, <3>3, <3>4, SlotStep
    <3>6. psRefs \in [PageNos -> Nat]
      BY <1>2 DEF PsTypeOK
    <3>7. PsStrong'
      BY <1>2, <1>4, <3>3, <3>5, <3>6, QuantumStep
    <3>8. QED
      BY <1>2, <1>6, <2>8, <3>7, PsEnough
  <2>9. CASE Writes
    <3>1. [set EXCEPT ![slot] = set[slot]] = set
      BY <2>3, <2>4, RowAgain
    <3>2. RowWritten(item, SetOf(item))
      BY <2>2, <2>9, <3>1 DEF RowWritten
    <3>3. psData' \in Seq(PsItems) /\ QuantaStay /\ QuantaNew({}) /\ ItemsMade'
      BY <1>2, <1>4, <3>2, SetStep
    <3>4. PsStrong'
      BY <1>2, <2>9, <3>3, ListStep
    <3>5. QED
      BY <1>2, <1>6, <2>9, <3>4, PsEnough
  <2>10. CASE Null
    <3>1. psData' \in Seq(PsItems) /\ QuantaStay /\ QuantaNew({})
      BY <1>2, <2>10, SameList
    <3>2. QED
      BY <1>2, <1>6, <2>10, <3>1, AstrayStep
  <2>11. QED
    BY <1>1, <2>5, <2>6, <2>7, <2>8, <2>9, <2>10
<1>9. QED
  BY <1>7, <1>8

-----------------------------------------------------------------------------
(* The device.                                                             *)

LEMMA PsStep ==
    ASSUME PsInv, PsNext
    PROVE  PsInv'
<1>1. PsRunning
  BY DEF PsNext, PsTask
<1>2. CASE PsParameter
  BY <1>1, <1>2, ParameterKeeps
<1>3. ASSUME NEW t \in PsTasks, PsTask(t) PROVE PsInv'
  <2>1. CASE PsOpen(t) \/ PsClose(t) \/ PsCopy(t) \/ PsInterrupted(t)
    BY <1>1, <2>1, OpenKeeps, CloseKeeps, CopyKeeps, InterruptedKeeps
  <2>2. CASE Trim(t) \/ TrimDone(t)
    BY <1>1, <2>2, TrimKeeps, TrimDoneKeeps
  <2>3. CASE PsMmap(t) \/ PsMunmap(t) \/ CountVma(t)
    BY <1>1, <2>3, MmapKeeps, MunmapKeeps, CountVmaKeeps
  <2>4. ASSUME NEW o \in DOMAIN Unmapped, NoPage(t, o) PROVE PsInv'
    BY <1>1, <2>4, UnmappedIs, NoPageKeeps
  <2>5. ASSUME NEW pos \in 0 .. PsMaxPos - 1,
               \/ \E count \in 1 .. psTask[t].copy[1] : PsRead(t, pos, count)
               \/ \E count \in 0 .. psTask[t].copy[1] : PsWrite(t, pos, count)
        PROVE  PsInv'
    BY <1>1, <2>5, ReadKeeps, WriteKeeps
  <2>6. QED
    BY <1>3, <2>1, <2>2, <2>3, <2>4, <2>5 DEF PsTask
<1>4. QED
  BY <1>2, <1>3 DEF PsNext

LEMMA PsStutters ==
    ASSUME PsInv, UNCHANGED psVars
    PROVE  PsInv'
<1>1. UNCHANGED <<psDriver, psCache, psData, psSize, psGeo, psVmas, psParam, psSem, psTask, psRefs>>
  BY DEF psVars
<1>2. (psStale' <=> psStale) /\ (psRaced' <=> psRaced)
      /\ (psNull' <=> psNull) /\ (psWild' <=> psWild)
  BY DEF psVars
<1>3. PsTypeOK' <=> PsTypeOK
  BY <1>1 DEF PsTypeOK, Trimming
<1>4. PsWithinBounds' <=> PsWithinBounds
  BY <1>1, <1>2 DEF PsWithinBounds, Fits
<1>5. VmasCount' <=> VmasCount
  BY <1>1 DEF VmasCount, MappedTasks
<1>6. TablesShow' <=> TablesShow
  BY <1>1 DEF TablesShow, PageAt, PsItem, PsSlot, PsOff
<1>7. ASSUME PsStrong PROVE PsStrong'
  <2>1. MapsInOrder' /\ MapsStay /\ psParam' \in Pairs
    BY <1>1, <1>7 DEF PsStrong, PsTypes, MapsStay, MapsInOrder, MappedTasks, Counting, Unmapped
  <2>2. QED
    BY <1>1, <1>7, <2>1, ControlStep
<1>8. QED
  BY <1>2, <1>3, <1>4, <1>5, <1>6, <1>7 DEF PsInv, PsRunning

LEMMA PsInitially ==
    ASSUME PsInit, psParam \in Pairs
    PROVE  PsInv
<1>1. /\ psDriver \in {"scullp", "scullv", "sculld", "scullc"} /\ psGeo = psParam /\ psCache = psParam[1]
      /\ psData = <<>> /\ psSize = 0 /\ psVmas = 0 /\ psSem = PsFree
      /\ psTask = [t \in PsTasks |-> PsClosed] /\ psRefs = [p \in PageNos |-> 0]
      /\ ~psWild
  BY DEF PsInit
<1>2. PsClosed \in PsRecords
  BY UnmappedIs DEF PsClosed, PsRecords
<1>3. \A t \in PsTasks : psTask[t].pc = "closed" /\ psTask[t].mapped = FALSE /\ psTask[t].pte = Unmapped
  BY <1>1 DEF PsClosed
<1>4. MappedTasks = {} /\ Counting = {} /\ Trimming = {}
  BY <1>3 DEF MappedTasks, Counting, Trimming
<1>5. Len(psData) = 0 /\ psData \in Seq(PsItems)
  BY <1>1
<1>6. Blocks = {}
  <2>1. \A b : b \notin Blocks
    BY <1>5, BlockIs
  <2>2. QED
    BY <2>1
<1>7. PsTypeOK
  BY <1>1, <1>4, PagedScullAssumption DEF PsTypeOK
<1>8. PsTypes
  <2>1. psCache \in Nat \ {0}
    BY <1>1, PairOf
  <2>2. psTask \in [PsTasks -> PsRecords]
    BY <1>1, <1>2
  <2>3. QED
    BY <1>1, <1>5, <2>1, <2>2 DEF PsTypes
<1>9. ItemsMade /\ BlocksApart
  BY <1>5, <1>6 DEF ItemsMade, BlocksApart
<1>10. MapsInOrder
  BY <1>3 DEF MapsInOrder
<1>11. VmasCount
  BY <1>1, <1>4, FS_EmptySet DEF VmasCount
<1>12. PagesHeld
  <2>1. \A p \in PageNos : MappersOf(p) = {}
    BY <1>3, UnmappedIs DEF MappersOf, PageNos
  <2>2. \A p \in PageNos : ~BlockHolds(p) /\ Cardinality(MappersOf(p)) = 0
    BY <1>6, <2>1, FS_EmptySet DEF BlockHolds
  <2>3. QED
    BY <1>1, <2>2 DEF PagesHeld
<1>13. TablesShow
  BY <1>3, UnmappedIs DEF TablesShow
<1>14. QED
  BY <1>1, <1>7, <1>8, <1>9, <1>10, <1>11, <1>12, <1>13 DEF PsInv, PsStrong, PsWithinBounds

\* What the invariant says of the mappings and of the pages.
LEMMA PsMeans ==
    ASSUME PsInv
    PROVE  PsTypeOK /\ PsWithinBounds /\ MappingShowsDevice /\ PagesCounted
<1>1. MappingShowsDevice
  BY UnmappedIs DEF PsInv, MappingShowsDevice, VmasCount, MappedTasks, TablesShow
<1>2. PagesCounted
  <2>1. SUFFICES ASSUME PsRunning, NEW p \in PageNos
                 PROVE psRefs[p] = Cardinality({m \in PsTasks \X DOMAIN Unmapped : psTask[m[1]].pte[m[2]] = p})
                                   + Cardinality({b \in Blocks : p \in b[1] .. b[1] + b[2] - 1})
    BY DEF PagesCounted
  <2>2. PsStrong
    BY <2>1 DEF PsInv
  <2> DEFINE with == {b \in Blocks : Within(p, b)}
  <2>3. with = {b \in Blocks : p \in b[1] .. b[1] + b[2] - 1}
    BY DEF Within
  <2>4. MappersOf(p) = {m \in PsTasks \X DOMAIN Unmapped : psTask[m[1]].pte[m[2]] = p}
    BY UnmappedIs DEF MappersOf
  <2>5. Cardinality(with) = IF BlockHolds(p) THEN 1 ELSE 0
    <3>1. CASE BlockHolds(p)
      <4>1. PICK b \in Blocks : Within(p, b)
        BY <3>1 DEF BlockHolds
      <4>2. with = {b}
        BY <2>2, <4>1 DEF PsStrong, BlocksApart
      <4>3. QED
        BY <3>1, <4>2, FS_Singleton
    <3>2. CASE ~BlockHolds(p)
      <4>1. with = {}
        BY <3>2 DEF BlockHolds
      <4>2. QED
        BY <3>2, <4>1, FS_EmptySet
    <3>3. QED
      BY <3>1, <3>2
  <2> HIDE DEF with
  <2>6. psRefs[p] = Cardinality(MappersOf(p)) + IF BlockHolds(p) THEN 1 ELSE 0
    BY <2>2 DEF PsStrong, PagesHeld
  <2>7. QED
    BY <2>3, <2>4, <2>5, <2>6
<1>3. QED
  BY <1>1, <1>2 DEF PsInv

\* The drivers of the scullp family keep the exclusion of the semaphore, the
\* shape of the list, the counts of the pages and what is mapped of them.
THEOREM PagedInvariant == DevicesSpec => []PsInv
<1>1. DevicesInit => PsInv
  <2>1. SUFFICES ASSUME DevicesInit PROVE PsInv
    OBVIOUS
  <2>2. psParam = <<2, 1>> \/ psParam = <<1, 2>>
    BY <2>1 DEF DevicesInit
  <2>3. psParam \in Pairs
    BY <2>2 DEF Pairs
  <2>4. QED
    BY <2>1, <2>3, PsInitially DEF DevicesInit
<1>2. PsInv /\ [DevicesNext]_devicesVars => PsInv'
  <2>1. SUFFICES ASSUME PsInv, [DevicesNext]_devicesVars PROVE PsInv'
    OBVIOUS
  <2>2. PsNext \/ UNCHANGED psVars
    BY <2>1 DEF DevicesNext, devicesVars
  <2>3. QED
    BY <2>1, <2>2, PsStep, PsStutters
<1>3. QED
  BY <1>1, <1>2, PTL DEF DevicesSpec

\* Every call of the five devices stays inside what was allocated, and every
\* variable in its range; ctest_poll is honest; and what is mapped of a device of
\* the scullp family is that device, and none of its pages is lost (scull_write,
\* scullp_write, scullp_vma_nopage, scullp_trim, globalfifo_write, kfifo_put).
THEOREM MemoryKeptHolds == DevicesSpec => []MemoryKept
<1>1. PsInv => PsTypeOK /\ PsWithinBounds /\ MappingShowsDevice /\ PagesCounted
  BY PsMeans
<1>2. /\ ScullTypeOK /\ ScullWithinBounds /\ ScullSizeCovered
      /\ GfTypeOK /\ KfTypeOK /\ CtTypeOK /\ CtPollHonest
      /\ PsInv
      => MemoryKept
  BY <1>1 DEF MemoryKept
<1>3. QED
  BY <1>2, ScullMemoryKept, TypesKeptHold, PagedInvariant, PTL
=============================================================================
