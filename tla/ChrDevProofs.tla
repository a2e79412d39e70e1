---------------------------- MODULE ChrDevProofs ----------------------------
(***************************************************************************)
(* Theorems about ChrDev, for any number of processes, any size of the     *)
(* buffer and any number of copies that fail: the pointers stay inside it, *)
(* no sleeper is forgotten, and the count is exact until a copy fails.     *)
(***************************************************************************)
EXTENDS ChrDev, SequenceTheorems, TLAPS

-----------------------------------------------------------------------------
(* The ring.                                                               *)

LEMMA Around ==
    ASSUME NEW b \in Nat \ {0}
    PROVE  \A r \in 0 .. b - 1 : r % b = r /\ (r + b) % b = r
  BY SMT

\* The places from one pointer to another.
Span(from, to) == IF from <= to THEN to - from ELSE to + Size - from

LEMMA RingDistance ==
    ASSUME NEW a \in Offset, NEW b \in Offset
    PROVE  /\ (b + Size - a) % Size = Span(a, b)
           /\ Span(a, b) \in Offset
<1>1. Size \in Nat \ {0} /\ a \in 0 .. Size - 1 /\ b \in 0 .. Size - 1
  BY ChrDevAssumption DEF Offset
<1>2. CASE a <= b
  <2>1. b - a \in 0 .. Size - 1 /\ b + Size - a = (b - a) + Size
    BY <1>1, <1>2
  <2>2. ((b - a) + Size) % Size = b - a
    BY <1>1, <2>1, Around
  <2>3. QED
    BY <1>2, <2>1, <2>2 DEF Span, Offset
<1>3. CASE a > b
  <2>1. b + Size - a \in 0 .. Size - 1
    BY <1>1, <1>3
  <2>2. QED
    BY <1>1, <1>3, <2>1, Around DEF Span, Offset
<1>4. QED
  BY <1>1, <1>2, <1>3

\* get_freespace_num: all places but those to be read, and one.
LEMMA FreePlaces ==
    ASSUME NEW r \in Offset, NEW w \in Offset
    PROVE  Free(r, w) = Size - 1 - Span(r, w) /\ Free(r, w) \in Offset
<1>1. (r + Size - w) % Size = Span(w, r)
  BY RingDistance
<1>2. QED
  BY <1>1, ChrDevAssumption DEF Free, Span, Offset

LEMMA SliceIsBytes ==
    ASSUME mem \in [Offset -> Bytes], NEW pos \in Offset, NEW n \in Nat, pos + n <= Size
    PROVE  Slice(pos, n) \in Seq(Bytes)
<1>1. \A i \in 1 .. n : pos + i - 1 \in Offset
  BY ChrDevAssumption DEF Offset
<1>2. Slice(pos, n) \in [1 .. n -> Bytes]
  BY <1>1 DEF Slice
<1>3. QED
  BY <1>2

LEMMA FilledIsBytes ==
    ASSUME mem \in [Offset -> Bytes], NEW pos \in Int, NEW n \in Int, NEW m \in Filled(pos, n)
    PROVE  m \in [Offset -> Bytes]
  BY DEF Filled

-----------------------------------------------------------------------------
(* Where a transfer in two parts stands between them.                      *)

Halves ==
    \A p \in Procs :
        /\ pc[p] = "rhalf" => p_read = 0 /\ rest <= p_write
        /\ pc[p] = "whalf" => p_write = 0 /\ 0 < rest /\ rest < p_read

IInv == TypeOK /\ Halves

LEMMA InitIInv == Init => IInv
  BY ChrDevAssumption, ProcsAssumption DEF Init, IInv, TypeOK, Halves, Offset, Holding, Waiting, Nobody, EFAULT


LEMMA PointerMoves ==
    ASSUME NEW pos \in Offset, NEW n \in Nat, pos + n <= Size
    PROVE  Moved(pos, n) \in Offset
  BY ChrDevAssumption DEF Moved, Offset

\* Steps that move no byte.
LEMMA WaitingIInv ==
    ASSUME IInv, NEW p \in Procs,
           Start(p) \/ TakeSem(p) \/ MustWait(p) \/ Check(p) \/ Interrupted(p) \/ ReadWake(p) \/ ReadFault(p)
    PROVE  IInv'
<1>1. CASE Start(p)
  BY <1>1, ProcsAssumption DEF IInv, TypeOK, Halves, Start, Goto, Holding, Waiting
<1>2. CASE TakeSem(p)
  BY <1>2, ProcsAssumption DEF IInv, TypeOK, Halves, TakeSem, Down, Goto, Holding, Waiting
<1>3. CASE MustWait(p)
  BY <1>3, ProcsAssumption DEF IInv, TypeOK, Halves, MustWait, Up, Goto, Holding, Waiting
<1>4. CASE Check(p)
  BY <1>4, ProcsAssumption DEF IInv, TypeOK, Halves, Check, Goto, Holding, Waiting
<1>5. CASE Interrupted(p)
  BY <1>5, ProcsAssumption DEF IInv, TypeOK, Halves, Interrupted, Goto, Holding, Waiting
<1>6. CASE ReadWake(p)
  BY <1>6, ProcsAssumption DEF IInv, TypeOK, Halves, ReadWake, Holding, Waiting
<1>7. CASE ReadFault(p)
  BY <1>7, ProcsAssumption DEF IInv, TypeOK, Halves, ReadFault, Up, Goto, Holding, Waiting
<1>8. QED
  BY <1>1, <1>2, <1>3, <1>4, <1>5, <1>6, <1>7

LEMMA ReadOnceIInv ==
    ASSUME IInv, NEW p \in Procs, NEW n \in 0 .. Size, ReadOnce(p, n)
    PROVE  IInv'
<1>1. n \in Nat /\ p_read \in Offset /\ p_write \in Offset /\ p_read + n <= Size
  BY ChrDevAssumption DEF IInv, TypeOK, ReadOnce, ReadToEnd, Offset
<1>2. p_read' \in Offset /\ got' \in Seq(Bytes) /\ cur_size' \in Int
  BY <1>1, PointerMoves, SliceIsBytes DEF IInv, TypeOK, ReadOnce
<1>3. sem = p /\ \A q \in Procs : q # p => pc[q] \notin Holding
  BY DEF IInv, TypeOK, ReadOnce, Holding
<1>4. TypeOK'
  BY <1>2, <1>3, ProcsAssumption DEF IInv, TypeOK, ReadOnce, Up, Goto, Holding, Waiting
<1>5. Halves'
  BY <1>3 DEF IInv, TypeOK, Halves, ReadOnce, Goto, Holding, Waiting
<1>6. QED
  BY <1>4, <1>5 DEF IInv

LEMMA ReadFirstIInv ==
    ASSUME IInv, NEW p \in Procs, NEW n \in 0 .. Size, ReadFirst(p, n)
    PROVE  IInv'
<1>1. p_read \in 1 .. Size - 1 /\ p_write \in Offset /\ n \in Nat /\ Size \in Nat /\ Size > 1
  BY ChrDevAssumption DEF IInv, TypeOK, ReadFirst, Offset
<1>2. ReadToEnd \in 1 .. Size - 1 /\ p_read + ReadToEnd <= Size
  BY <1>1 DEF ReadToEnd
<1>3. p_read' \in Offset /\ p_read' = 0 /\ rest' \in Offset /\ rest' <= p_write'
  BY <1>1, <1>2 DEF ReadFirst, Offset
<1>4. ret' \in Offset \cup {-EFAULT} /\ got' \in Seq(Bytes) /\ faults' \in 0 .. MaxFaults
  <2>1. Slice(p_read, ReadToEnd) \in Seq(Bytes)
    BY <1>1, <1>2, SliceIsBytes DEF IInv, TypeOK
  <2>2. QED
    BY <1>2, <2>1, ChrDevAssumption DEF IInv, TypeOK, ReadFirst, SplitFault, Offset
<1>5. sem = p /\ \A q \in Procs : q # p => pc[q] \notin Holding
  BY DEF IInv, TypeOK, ReadFirst, Holding
<1>6. TypeOK'
  BY <1>3, <1>4, <1>5 DEF IInv, TypeOK, ReadFirst, Goto, Holding, Waiting
<1>7. Halves'
  BY <1>3, <1>5 DEF IInv, TypeOK, Halves, ReadFirst, Goto, Holding, Waiting
<1>8. QED
  BY <1>6, <1>7 DEF IInv

LEMMA ReadSecondIInv ==
    ASSUME IInv, NEW p \in Procs, ReadSecond(p)
    PROVE  IInv'
<1>1. p_read = 0 /\ rest <= p_write /\ rest \in Nat /\ 0 \in Offset /\ rest < Size /\ p_write \in Offset
  BY ChrDevAssumption DEF IInv, TypeOK, Halves, ReadSecond, Offset
<1>2. Slice(p_read, rest) \in Seq(Bytes)
  BY <1>1, ChrDevAssumption, SliceIsBytes DEF IInv, TypeOK
<1>3. p_read' \in Offset /\ got' \in Seq(Bytes) /\ cur_size' \in Int /\ faults' \in 0 .. MaxFaults
  <2>1. ret \in Int
    BY ChrDevAssumption DEF IInv, TypeOK, Offset, EFAULT
  <2>2. QED
    BY <1>1, <1>2, <2>1, ChrDevAssumption DEF IInv, TypeOK, ReadSecond, SplitFault, Offset
<1>4. sem = p /\ \A q \in Procs : q # p => pc[q] \notin Holding
  BY DEF IInv, TypeOK, ReadSecond, Holding
<1>5. TypeOK'
  BY <1>3, <1>4, ProcsAssumption DEF IInv, TypeOK, ReadSecond, Up, Goto, Holding, Waiting
<1>6. Halves'
  BY <1>4 DEF IInv, TypeOK, Halves, ReadSecond, Goto, Holding, Waiting
<1>7. QED
  BY <1>5, <1>6 DEF IInv

\* How far a write may go: the one free place is never written.
LEMMA WriteRoom ==
    ASSUME IInv, NEW n \in 0 .. Size, n <= Free(p_read, p_write)
    PROVE  /\ n \in Nat /\ p_write \in Nat /\ Size \in Nat /\ Size > 1
           /\ p_read <= p_write /\ n <= WriteToEnd => p_write + n <= Size
           /\ p_read > p_write => p_write + n < p_read
           /\ p_read <= p_write => n - WriteToEnd < p_read
<1>1. p_read \in Offset /\ p_write \in Offset
  BY DEF IInv, TypeOK
<1>2. Free(p_read, p_write) = Size - 1 - Span(p_read, p_write)
  BY <1>1, FreePlaces
<1>3. QED
  BY <1>1, <1>2, ChrDevAssumption DEF Span, WriteToEnd, Offset

LEMMA WriteOnceIInv ==
    ASSUME IInv, NEW p \in Procs, NEW n \in 0 .. Size, WriteOnce(p, n) \/ WriteFault(p, n)
    PROVE  IInv'
<1>1. pc[p] = "wheld" /\ n <= Free(p_read, p_write) /\ (p_read <= p_write => n <= WriteToEnd)
  <2>1. CASE WriteOnce(p, n)
    BY <2>1 DEF WriteOnce
  <2>2. CASE WriteFault(p, n)
    <3>1. p_read \in Offset /\ p_write \in Offset
      BY DEF IInv, TypeOK
    <3>2. Free(p_read, p_write) \in Int
      BY <3>1, FreePlaces, ChrDevAssumption DEF Offset
    <3>3. QED
      BY <2>2, <3>2 DEF WriteFault
  <2>3. QED
    BY <2>1, <2>2
<1>2. p_write \in Offset /\ p_read \in Offset /\ n \in Nat /\ p_write + n <= Size
  BY <1>1, WriteRoom DEF IInv, TypeOK, WriteToEnd, Offset
<1>3. mem' \in [Offset -> Bytes] /\ p_write' \in Offset /\ cur_size' \in Int
  <2>1. mem' \in Filled(p_write, n) /\ (p_write' = p_write \/ p_write' = Moved(p_write, n))
        /\ (cur_size' = cur_size \/ cur_size' = cur_size + n)
    BY DEF WriteOnce, WriteFault
  <2>2. mem' \in [Offset -> Bytes]
    BY <1>2, <2>1, FilledIsBytes DEF IInv, TypeOK, Offset
  <2>3. QED
    BY <1>2, <2>1, <2>2, PointerMoves DEF IInv, TypeOK
<1>4. sem = p /\ \A q \in Procs : q # p => pc[q] \notin Holding
  BY <1>1 DEF IInv, TypeOK, Holding
<1>5. TypeOK'
  BY <1>3, <1>4 DEF IInv, TypeOK, WriteOnce, WriteFault, Goto, Holding, Waiting
<1>6. Halves'
  BY <1>4 DEF IInv, TypeOK, Halves, WriteOnce, WriteFault, Goto, Holding, Waiting
<1>7. QED
  BY <1>5, <1>6 DEF IInv

LEMMA WriteFirstIInv ==
    ASSUME IInv, NEW p \in Procs, NEW n \in 0 .. Size, WriteFirst(p, n)
    PROVE  IInv'
<1>1. p_read \in Offset /\ p_write \in Offset /\ cur_size \in Int /\ n \in Nat /\ Size \in Nat
  BY WriteRoom DEF IInv, TypeOK, WriteFirst
<1>2. WriteToEnd \in Int
  BY <1>1 DEF WriteToEnd, Offset
<1>3. rest' \in Offset /\ 0 < rest' /\ rest' < p_read' /\ p_write' = 0 /\ p_write' \in Offset
  <2>1. n > WriteToEnd /\ n - WriteToEnd < p_read
    BY WriteRoom DEF WriteFirst
  <2>2. QED
    BY <1>1, <1>2, <2>1 DEF WriteFirst, Offset
<1>4. mem' \in [Offset -> Bytes] /\ cur_size' \in Int /\ faults' \in 0 .. MaxFaults
  BY <1>1, <1>2, FilledIsBytes, ChrDevAssumption DEF IInv, TypeOK, WriteFirst, SplitFault, CountNow, Offset
<1>5. sem = p /\ \A q \in Procs : q # p => pc[q] \notin Holding
  BY DEF IInv, TypeOK, WriteFirst, Holding
<1>6. TypeOK'
  BY <1>3, <1>4, <1>5 DEF IInv, TypeOK, WriteFirst, Goto, Holding, Waiting
<1>7. Halves'
  BY <1>3, <1>5 DEF IInv, TypeOK, Halves, WriteFirst, Goto, Holding, Waiting
<1>8. QED
  BY <1>6, <1>7 DEF IInv

LEMMA WriteSecondIInv ==
    ASSUME IInv, NEW p \in Procs, WriteSecond(p)
    PROVE  IInv'
<1>1. p_write = 0 /\ 0 < rest /\ rest < p_read /\ rest \in Offset /\ p_read \in Offset
  BY DEF IInv, TypeOK, Halves, WriteSecond
<1>2. mem' \in [Offset -> Bytes] /\ p_write' \in Offset /\ cur_size' \in Int /\ faults' \in 0 .. MaxFaults
  BY <1>1, FilledIsBytes, ChrDevAssumption DEF IInv, TypeOK, WriteSecond, SplitFault, Offset
<1>3. sem = p /\ \A q \in Procs : q # p => pc[q] \notin Holding
  BY DEF IInv, TypeOK, WriteSecond, Holding
<1>4. TypeOK'
  BY <1>2, <1>3 DEF IInv, TypeOK, WriteSecond, Goto, Holding, Waiting
<1>5. Halves'
  BY <1>3 DEF IInv, TypeOK, Halves, WriteSecond, Goto, Holding, Waiting
<1>6. QED
  BY <1>4, <1>5 DEF IInv

LEMMA WriteWakeIInv ==
    ASSUME IInv, NEW p \in Procs, WriteWake(p)
    PROVE  IInv'
  BY ProcsAssumption DEF IInv, TypeOK, Halves, WriteWake, ReaderWoken, Up, Holding, Waiting

LEMMA BufClearIInv ==
    ASSUME IInv, NEW p \in Procs, BufClear(p)
    PROVE  IInv'
  BY ChrDevAssumption DEF IInv, TypeOK, Halves, BufClear, Holding, Waiting

LEMMA NextIInv == IInv /\ [Next]_vars => IInv'
<1> SUFFICES ASSUME IInv, [Next]_vars PROVE IInv'
  OBVIOUS
<1>1. CASE UNCHANGED vars
  BY <1>1 DEF IInv, TypeOK, Halves, vars, Holding, Waiting
<1>2. CASE Next
  BY <1>2, WaitingIInv, ReadOnceIInv, ReadFirstIInv, ReadSecondIInv, WriteOnceIInv, WriteFirstIInv,
     WriteSecondIInv, WriteWakeIInv, BufClearIInv DEF Next
<1>3. QED
  BY <1>1, <1>2

LEMMA Invariance == Spec => []IInv
  BY InitIInv, NextIInv, PTL DEF Spec

\* Pointers, semaphore and control are of their types: above all, p_read and
\* p_write never leave the buffer, whichever copies fail (chrdev_read and
\* chrdev_write move them in three places each).
THEOREM TypeCorrect == Spec => []TypeOK
<1>1. IInv => TypeOK
  BY DEF IInv
<1>2. QED
  BY <1>1, Invariance, PTL

-----------------------------------------------------------------------------
(* Sleepers.  In the middle of a read nobody who sleeps for data can have  *)
(* missed any, so the invariant names fewer processes than the property.   *)

ReaderSafe ==
    (\E p \in Procs : pc[p] = "rsleep") /\ Readable => \E q \in Procs : pc[q] \in {"whalf", "wwake"}

WriterSafe ==
    (\E p \in Procs : pc[p] = "wsleep") /\ Writable => \E q \in Procs : pc[q] \in {"rhalf", "rwake"}

Attended == ReaderSafe /\ WriterSafe

\* Steps that leave the pointers where they are.
LEMMA WaitingAttended ==
    ASSUME IInv, Attended, NEW p \in Procs,
           Start(p) \/ TakeSem(p) \/ MustWait(p) \/ Check(p) \/ Interrupted(p) \/ ReadWake(p) \/ ReadFault(p)
           \/ BufClear(p)
    PROVE  Attended'
<1>1. p_read' = p_read /\ p_write' = p_write
  BY DEF Start, TakeSem, MustWait, Check, Interrupted, ReadWake, ReadFault, BufClear
<1>2. Readable' = Readable /\ Writable' = Writable
  BY <1>1 DEF Readable, Writable, Free
<1>3. pc \in [Procs -> {"idle", "rwake"} \cup Holding \cup Waiting]
  BY DEF IInv, TypeOK
<1>4. CASE Check(p)
  <2>1. ReaderSafe'
    BY <1>2, <1>3, <1>4 DEF Attended, ReaderSafe, Check, Goto, Holding, Waiting
  <2>2. WriterSafe'
    BY <1>2, <1>3, <1>4 DEF Attended, WriterSafe, Check, Goto, Holding, Waiting
  <2>3. QED
    BY <2>1, <2>2 DEF Attended
<1>5. CASE ReadWake(p)
  <2>1. ReaderSafe'
    BY <1>2, <1>3, <1>5 DEF Attended, ReaderSafe, ReadWake, Holding, Waiting
  <2>2. WriterSafe'
    BY <1>3, <1>5 DEF WriterSafe, ReadWake
  <2>3. QED
    BY <2>1, <2>2 DEF Attended
<1>6. CASE Start(p) \/ TakeSem(p) \/ MustWait(p) \/ Interrupted(p) \/ ReadFault(p) \/ BufClear(p)
  <2>1. /\ \A q \in Procs : pc'[q] \in {"rsleep", "wsleep"} => pc'[q] = pc[q]
        /\ \A q \in Procs : pc[q] \in {"whalf", "wwake", "rhalf", "rwake"} => pc'[q] = pc[q]
    BY <1>3, <1>6 DEF Start, TakeSem, MustWait, Interrupted, ReadFault, BufClear, Goto, Waiting
  <2>2. QED
    BY <1>2, <2>1 DEF Attended, ReaderSafe, WriterSafe
<1>7. QED
  BY <1>4, <1>5, <1>6

\* With the semaphore taken to read, and something there, no reader sleeps.
LEMMA ReadAttended ==
    ASSUME IInv, Attended, NEW p \in Procs, NEW n \in 0 .. Size, ReadOnce(p, n) \/ ReadFirst(p, n)
    PROVE  Attended'
<1>1. pc[p] = "rheld" /\ Readable
  BY DEF IInv, TypeOK, Offset, ReadOnce, ReadFirst, Readable
<1>2. \A q \in Procs : pc[q] \notin {"whalf", "wwake", "rhalf"}
  BY <1>1 DEF IInv, TypeOK, Holding
<1>3. \A q \in Procs : pc[q] # "rsleep"
  BY <1>1, <1>2 DEF Attended, ReaderSafe
<1>4. pc' \in {[pc EXCEPT ![p] = "rwake"], [pc EXCEPT ![p] = "rhalf"]}
  BY DEF ReadOnce, ReadFirst, Goto
<1>5. ReaderSafe' /\ WriterSafe'
  BY <1>3, <1>4 DEF ReaderSafe, WriterSafe, IInv, TypeOK
<1>6. QED
  BY <1>5 DEF Attended

LEMMA ReadSecondAttended ==
    ASSUME IInv, Attended, NEW p \in Procs, ReadSecond(p)
    PROVE  Attended'
<1>1. pc[p] = "rhalf" /\ pc' = [pc EXCEPT ![p] = "rwake"] /\ p_write' = p_write
  BY DEF ReadSecond, Goto
<1>2. \A q \in Procs : pc[q] \notin {"whalf", "wwake"}
  BY <1>1 DEF IInv, TypeOK, Holding
<1>3. WriterSafe'
  BY <1>1 DEF WriterSafe, IInv, TypeOK
<1>4. ASSUME NEW q \in Procs, pc[q] = "rsleep" PROVE ~Readable'
  <2>1. p_read = 0 /\ p_write = 0 /\ rest = 0
    BY <1>1, <1>2, <1>4, ChrDevAssumption DEF Attended, ReaderSafe, Readable, IInv, TypeOK, Halves, Offset
  <2>2. QED
    BY <1>1, <2>1 DEF ReadSecond, Readable
<1>5. ReaderSafe'
  BY <1>1, <1>4 DEF ReaderSafe, IInv, TypeOK
<1>6. QED
  BY <1>3, <1>5 DEF Attended

\* A write makes no room: whoever sleeps for room was forgotten before it,
\* or there is none.
LEMMA WriteAttended ==
    ASSUME IInv, Attended, NEW p \in Procs, NEW n \in 0 .. Size,
           WriteOnce(p, n) \/ WriteFault(p, n) \/ WriteFirst(p, n)
    PROVE  Attended'
<1>1. pc[p] = "wheld" /\ pc' \in {[pc EXCEPT ![p] = "wwake"], [pc EXCEPT ![p] = "whalf"]}
  BY DEF WriteOnce, WriteFault, WriteFirst, Goto
<1>2. ReaderSafe'
  BY <1>1 DEF ReaderSafe, IInv, TypeOK
<1>3. Writable' => Writable
  <2>1. p_read \in Offset /\ p_write \in Offset /\ p_read' = p_read /\ p_write' \in Offset
    BY WriteOnceIInv, WriteFirstIInv DEF IInv, TypeOK, WriteOnce, WriteFault, WriteFirst
  <2>2. /\ Writable <=> Size - 1 - Span(p_read, p_write) # 0
        /\ Writable' <=> Size - 1 - Span(p_read, p_write') # 0
    BY <2>1, FreePlaces DEF Writable
  <2>3. CASE WriteOnce(p, n)
    BY <2>1, <2>2, <2>3, WriteRoom, ChrDevAssumption DEF Span, Moved, Offset, WriteOnce, WriteToEnd
  <2>4. CASE WriteFault(p, n)
    BY <2>2, <2>4 DEF WriteFault
  <2>5. CASE WriteFirst(p, n)
    <3>1. n <= Free(p_read, p_write) /\ n > WriteToEnd
      BY <2>5 DEF WriteFirst
    <3>2. Free(p_read, p_write) \in Int /\ WriteToEnd \in Nat /\ n \in Nat
      BY <2>1, FreePlaces, ChrDevAssumption DEF WriteToEnd, Offset
    <3>3. QED
      BY <3>1, <3>2 DEF Writable
  <2>6. QED
    BY <2>3, <2>4, <2>5
<1>4. WriterSafe'
  BY <1>1, <1>3 DEF Attended, WriterSafe, IInv, TypeOK
<1>5. QED
  BY <1>2, <1>4 DEF Attended

LEMMA WriteSecondAttended ==
    ASSUME IInv, Attended, NEW p \in Procs, WriteSecond(p)
    PROVE  Attended'
<1>1. pc[p] = "whalf" /\ pc' = [pc EXCEPT ![p] = "wwake"]
  BY DEF WriteSecond, Goto
<1>2. ReaderSafe'
  BY <1>1 DEF ReaderSafe, IInv, TypeOK
<1>3. Writable
  <2>1. p_write = 0 /\ 0 < rest /\ rest < p_read /\ p_read \in Offset /\ p_write \in Offset /\ rest \in Offset
    BY <1>1 DEF IInv, TypeOK, Halves
  <2>2. Free(p_read, p_write) = Size - 1 - Span(p_read, p_write)
    BY <2>1, FreePlaces
  <2>3. QED
    BY <2>1, <2>2, ChrDevAssumption DEF Writable, Span, Offset
<1>4. WriterSafe'
  BY <1>1, <1>3 DEF Attended, WriterSafe, IInv, TypeOK
<1>5. QED
  BY <1>2, <1>4 DEF Attended

LEMMA WriteWakeAttended ==
    ASSUME IInv, Attended, NEW p \in Procs, WriteWake(p)
    PROVE  Attended'
<1>1. ReaderSafe'
  BY DEF ReaderSafe, WriteWake, ReaderWoken
<1>2. WriterSafe'
  <2>1. Writable' = Writable
    BY DEF Writable, Free, WriteWake
  <2>2. QED
    BY <2>1 DEF Attended, WriterSafe, WriteWake, ReaderWoken
<1>3. QED
  BY <1>1, <1>2 DEF Attended

LEMMA NextAttended == IInv /\ Attended /\ [Next]_vars => Attended'
<1> SUFFICES ASSUME IInv, Attended, [Next]_vars PROVE Attended'
  OBVIOUS
<1>1. CASE UNCHANGED vars
  BY <1>1 DEF Attended, ReaderSafe, WriterSafe, Readable, Writable, Free, vars
<1>2. CASE Next
  BY <1>2, WaitingAttended, ReadAttended, ReadSecondAttended, WriteAttended, WriteSecondAttended,
     WriteWakeAttended DEF Next
<1>3. QED
  BY <1>1, <1>2

\* Whoever sleeps for data or for room has none, or will be woken by a call
\* that is under way, whatever copy has failed.
THEOREM SleepersNotForgottenHolds == Spec => []SleepersNotForgotten
<1>1. Init => Attended
  BY DEF Init, Attended, ReaderSafe, WriterSafe
<1>2. Attended => SleepersNotForgotten
  BY DEF Attended, ReaderSafe, WriterSafe, SleepersNotForgotten
<1>3. QED
  BY <1>1, <1>2, Invariance, NextAttended, PTL DEF Spec

-----------------------------------------------------------------------------
(* The count.  Between the two parts of a read it runs ahead of p_read by  *)
(* what the first part returned.                                           *)

Halfway == \E p \in Procs : pc[p] = "rhalf"

Counted ==
    faults = 0 =>
        /\ Halfway => ret \in Nat /\ cur_size = p_write + ret
        /\ ~Halfway => cur_size = Span(p_read, p_write)

LEMMA WaitingCounted ==
    ASSUME IInv, Counted, NEW p \in Procs,
           Start(p) \/ TakeSem(p) \/ MustWait(p) \/ Check(p) \/ Interrupted(p) \/ ReadWake(p) \/ ReadFault(p)
           \/ BufClear(p) \/ WriteWake(p) \/ \E n \in 0 .. Size : WriteFault(p, n)
    PROVE  Counted'
<1>1. UNCHANGED <<p_read, p_write, cur_size, ret, faults>>
  BY DEF Start, TakeSem, MustWait, Check, Interrupted, ReadWake, ReadFault, BufClear, WriteWake, WriteFault
<1>2. \A q \in Procs : pc[q] = "rhalf" <=> pc'[q] = "rhalf"
  <2>1. CASE ReadWake(p)
    BY <2>1 DEF ReadWake
  <2>2. CASE WriteWake(p)
    BY <2>2 DEF WriteWake, ReaderWoken
  <2>3. CASE Start(p) \/ TakeSem(p) \/ MustWait(p) \/ Check(p)
    BY <2>3 DEF IInv, TypeOK, Start, TakeSem, MustWait, Check, Goto
  <2>4. CASE Interrupted(p) \/ ReadFault(p) \/ BufClear(p) \/ \E n \in 0 .. Size : WriteFault(p, n)
    BY <2>4 DEF IInv, TypeOK, Interrupted, ReadFault, BufClear, WriteFault, Goto, Waiting
  <2>5. QED
    BY <2>1, <2>2, <2>3, <2>4
<1>3. QED
  BY <1>1, <1>2 DEF Counted, Halfway, Span

\* Only one process is between the parts of a transfer, the one with sem.
LEMMA HolderAlone ==
    ASSUME IInv, NEW p \in Procs, pc[p] \in Holding
    PROVE  \A q \in Procs : q # p => pc[q] # "rhalf"
  BY DEF IInv, TypeOK, Holding

LEMMA ReadCounted ==
    ASSUME IInv, Counted, NEW p \in Procs, NEW n \in 0 .. Size, ReadOnce(p, n) \/ ReadFirst(p, n)
    PROVE  Counted'
<1> SUFFICES ASSUME faults' = 0 PROVE Counted'
  BY DEF Counted
<1>1. pc[p] = "rheld" /\ ~Halfway
  BY HolderAlone DEF ReadOnce, ReadFirst, Halfway, Holding
<1>2. faults = 0 /\ UNCHANGED faults
  BY ChrDevAssumption DEF IInv, TypeOK, ReadOnce, ReadFirst, SplitFault
<1>3. cur_size = Span(p_read, p_write)
  BY <1>1, <1>2 DEF Counted
<1>4. p_read \in Offset /\ p_write \in Offset /\ n \in Nat /\ Size \in Nat
  BY ChrDevAssumption DEF IInv, TypeOK
<1>5. CASE ReadOnce(p, n)
  <2>1. ~Halfway'
    BY <1>1, <1>5 DEF ReadOnce, Goto, Halfway, IInv, TypeOK
  <2>2. Span(p_read', p_write') = Span(p_read, p_write) - n
    BY <1>4, <1>5 DEF ReadOnce, Readable, ReadToEnd, Moved, Span, Offset
  <2>3. QED
    BY <1>3, <1>5, <2>1, <2>2 DEF Counted, ReadOnce
<1>6. CASE ReadFirst(p, n)
  <2>1. Halfway'
    BY <1>6 DEF ReadFirst, Goto, Halfway, IInv, TypeOK
  <2>2. ret' = Size - p_read /\ p_write' = p_write /\ cur_size' = cur_size
    <3>1. faults' # faults + 1
      BY <1>2
    <3>2. QED
      BY <1>6, <3>1 DEF ReadFirst, SplitFault, ReadToEnd
  <2>3. p_read > p_write
    BY <1>6 DEF ReadFirst
  <2>4. cur_size = p_write + Size - p_read
    BY <1>3, <1>4, <2>3 DEF Span, Offset
  <2>5. QED
    BY <1>4, <2>1, <2>2, <2>4 DEF Counted, Offset
<1>7. QED
  BY <1>5, <1>6

LEMMA ReadSecondCounted ==
    ASSUME IInv, Counted, NEW p \in Procs, ReadSecond(p)
    PROVE  Counted'
<1> SUFFICES ASSUME faults' = 0 PROVE Counted'
  BY DEF Counted
<1>1. pc[p] = "rhalf" /\ pc' = [pc EXCEPT ![p] = "rwake"] /\ p_write' = p_write
  BY DEF ReadSecond, Goto
<1>2. faults = 0 /\ faults' # faults + 1
  BY ChrDevAssumption DEF IInv, TypeOK, ReadSecond, SplitFault
<1>3. ret \in Nat /\ cur_size = p_write + ret
  BY <1>1, <1>2 DEF Counted, Halfway
<1>4. p_read' = p_read + rest /\ cur_size' = cur_size - (ret + rest)
  BY <1>2 DEF ReadSecond, SplitFault
<1>5. p_read = 0 /\ rest <= p_write /\ rest \in Offset /\ p_write \in Offset
  BY <1>1 DEF IInv, TypeOK, Halves
<1>6. ~Halfway'
  BY <1>1, HolderAlone DEF Halfway, Holding, IInv, TypeOK
<1>7. cur_size' = Span(p_read', p_write')
  BY <1>1, <1>3, <1>4, <1>5, ChrDevAssumption DEF Span, Offset
<1>8. QED
  BY <1>6, <1>7 DEF Counted

LEMMA WriteCounted ==
    ASSUME IInv, Counted, NEW p \in Procs, NEW n \in 0 .. Size, WriteOnce(p, n) \/ WriteFirst(p, n)
    PROVE  Counted'
<1> SUFFICES ASSUME faults' = 0 PROVE Counted'
  BY DEF Counted
<1>1. pc[p] = "wheld" /\ ~Halfway
  BY HolderAlone DEF WriteOnce, WriteFirst, Halfway, Holding
<1>2. pc' \in {[pc EXCEPT ![p] = "wwake"], [pc EXCEPT ![p] = "whalf"]} /\ p_read' = p_read
  BY DEF WriteOnce, WriteFirst, Goto
<1>3. ~Halfway'
  BY <1>1, <1>2 DEF Halfway, IInv, TypeOK
<1>4. faults = 0 /\ faults' # faults + 1
  BY ChrDevAssumption DEF IInv, TypeOK, WriteOnce, WriteFirst, SplitFault
<1>5. cur_size = Span(p_read, p_write)
  BY <1>1, <1>4 DEF Counted
<1>6. p_read \in Offset /\ p_write \in Offset /\ n <= Free(p_read, p_write)
  BY DEF IInv, TypeOK, WriteOnce, WriteFirst
<1>7. CASE WriteOnce(p, n)
  <2>1. Span(p_read', p_write') = Span(p_read, p_write) + n
    <3>1. n \in Nat /\ Size \in Nat /\ Size > 1 /\ n <= Size - 1 - Span(p_read, p_write)
      BY <1>6, FreePlaces, ChrDevAssumption
    <3>2. QED
      BY <1>2, <1>6, <1>7, <3>1 DEF WriteOnce, WriteToEnd, Moved, Span, Offset
  <2>2. QED
    BY <1>3, <1>5, <1>7, <2>1 DEF Counted, WriteOnce
<1>8. CASE WriteFirst(p, n)
  <2>1. cur_size' = cur_size + WriteToEnd /\ p_write' = 0 /\ p_read <= p_write /\ n > WriteToEnd
    BY <1>4, <1>8 DEF WriteFirst, SplitFault, CountNow
  <2>2. n - WriteToEnd < p_read /\ n \in Nat
    BY <1>6, <2>1, WriteRoom
  <2>3. cur_size' = Span(p_read', p_write')
    BY <1>2, <1>5, <1>6, <2>1, <2>2, ChrDevAssumption DEF WriteToEnd, Span, Offset
  <2>4. QED
    BY <1>3, <2>3 DEF Counted
<1>9. QED
  BY <1>7, <1>8

LEMMA WriteSecondCounted ==
    ASSUME IInv, Counted, NEW p \in Procs, WriteSecond(p)
    PROVE  Counted'
<1> SUFFICES ASSUME faults' = 0 PROVE Counted'
  BY DEF Counted
<1>1. pc[p] = "whalf" /\ pc' = [pc EXCEPT ![p] = "wwake"] /\ p_read' = p_read
  BY DEF WriteSecond, Goto
<1>2. ~Halfway /\ ~Halfway'
  BY <1>1, HolderAlone DEF Halfway, Holding, IInv, TypeOK
<1>3. faults = 0 /\ faults' # faults + 1
  BY ChrDevAssumption DEF IInv, TypeOK, WriteSecond, SplitFault
<1>4. cur_size = Span(p_read, p_write) /\ p_write' = p_write + rest /\ cur_size' = cur_size + rest
  BY <1>2, <1>3 DEF Counted, WriteSecond, SplitFault
<1>5. p_write = 0 /\ 0 < rest /\ rest < p_read /\ rest \in Offset /\ p_read \in Offset
  BY <1>1 DEF IInv, TypeOK, Halves
<1>6. cur_size' = Span(p_read', p_write')
  BY <1>1, <1>4, <1>5, ChrDevAssumption DEF Span, Offset
<1>7. QED
  BY <1>2, <1>6 DEF Counted

LEMMA NextCounted == IInv /\ Counted /\ [Next]_vars => Counted'
<1> SUFFICES ASSUME IInv, Counted, [Next]_vars PROVE Counted'
  OBVIOUS
<1>1. CASE UNCHANGED vars
  BY <1>1 DEF Counted, Halfway, Span, vars
<1>2. CASE Next
  BY <1>2, WaitingCounted, ReadCounted, ReadSecondCounted, WriteCounted, WriteSecondCounted DEF Next
<1>3. QED
  BY <1>1, <1>2

\* While nobody has the semaphore, and no copy of one of two parts has failed,
\* cur_size is the number of bytes between p_read and p_write (what the ioctl
\* CHRDEV_IOC_SIZE reports).
THEOREM CountExactHolds == Spec => []CountExact
<1>1. Init => Counted
  BY DEF Init, Counted, Halfway, Span
<1>2. IInv /\ Counted => CountExact
  <2> SUFFICES ASSUME IInv, Counted, sem = Nobody, faults = 0 PROVE cur_size = Distance
    BY DEF CountExact
  <2>1. ~Halfway
    BY ProcsAssumption DEF IInv, TypeOK, Halfway, Holding
  <2>2. cur_size = Span(p_read, p_write)
    BY <2>1 DEF Counted
  <2>3. p_read \in Offset /\ p_write \in Offset
    BY DEF IInv, TypeOK
  <2>4. QED
    BY <2>2, <2>3, RingDistance DEF Distance
<1>3. QED
  BY <1>1, <1>2, Invariance, NextCounted, PTL DEF Spec

-----------------------------------------------------------------------------
(* The queue.  Contents are the places from p_read on, wrapped once.       *)

At(pos, i) == IF pos + i - 1 < Size THEN pos + i - 1 ELSE pos + i - 1 - Size

Queued(m, r, w) == [i \in 1 .. Span(r, w) |-> m[At(r, i)]]

LEMMA ContentsAreQueued ==
    ASSUME IInv
    PROVE  /\ Contents = Queued(mem, p_read, p_write)
           /\ Contents \in Seq(Bytes) /\ Len(Contents) = Span(p_read, p_write)
<1>1. p_read \in Offset /\ p_write \in Offset /\ mem \in [Offset -> Bytes] /\ Size \in Nat \ {0}
  BY ChrDevAssumption DEF IInv, TypeOK
<1>2. Distance = Span(p_read, p_write) /\ Span(p_read, p_write) \in Offset
  BY <1>1, RingDistance DEF Distance
<1>3. ASSUME NEW i \in 1 .. Span(p_read, p_write)
      PROVE  (p_read + i - 1) % Size = At(p_read, i) /\ At(p_read, i) \in Offset
  <2>1. p_read \in Nat /\ i \in 1 .. Size - 1 /\ p_read < Size
    BY <1>1, <1>2 DEF Offset
  <2>2. CASE p_read + i - 1 < Size
    <3>1. p_read + i - 1 \in 0 .. Size - 1
      BY <1>1, <2>1, <2>2
    <3>2. (p_read + i - 1) % Size = p_read + i - 1
      BY <1>1, <3>1, Around
    <3>3. QED
      BY <2>2, <3>1, <3>2 DEF At, Offset
  <2>3. CASE p_read + i - 1 >= Size
    <3>1. p_read + i - 1 - Size \in 0 .. Size - 1
      BY <1>1, <2>1, <2>3
    <3>2. (p_read + i - 1 - Size + Size) % Size = p_read + i - 1 - Size
      BY <1>1, <3>1, Around
    <3>3. p_read + i - 1 - Size + Size = p_read + i - 1
      BY <1>1, <2>1
    <3>4. QED
      BY <1>1, <2>1, <2>3, <3>1, <3>2, <3>3 DEF At, Offset
  <2>4. QED
    BY <1>1, <2>1, <2>2, <2>3
<1>4. Contents = Queued(mem, p_read, p_write)
  BY <1>2, <1>3 DEF Contents, Queued
<1>5. Span(p_read, p_write) \in Nat
  BY <1>1, <1>2 DEF Offset
<1>6. Queued(mem, p_read, p_write) \in [1 .. Span(p_read, p_write) -> Bytes]
  BY <1>1, <1>3 DEF Queued
<1>7. QED
  BY <1>4, <1>5, <1>6

LEMMA PlaceMoved ==
    ASSUME NEW pos \in Offset, NEW n \in Nat, NEW i \in Nat, n < i, i < Size, pos + n <= Size
    PROVE  At(Moved(pos, n), i - n) = At(pos, i)
<1>1. Size \in Nat /\ pos \in Nat /\ pos < Size
  BY ChrDevAssumption DEF Offset
<1>2. CASE n = Size - pos
  <2>1. ~(pos + i - 1 < Size) /\ pos + i - 1 - Size = i - n - 1
    BY <1>1, <1>2
  <2>2. At(pos, i) = i - n - 1
    BY <2>1 DEF At
  <2>3. 0 + (i - n) - 1 = i - n - 1 /\ i - n - 1 < Size
    BY <1>1
  <2>4. At(0, i - n) = i - n - 1
    BY <2>3 DEF At
  <2>5. Moved(pos, n) = 0
    BY <1>2 DEF Moved
  <2>6. QED
    BY <2>2, <2>4, <2>5
<1>3. CASE n # Size - pos
  <2>1. (pos + n) + (i - n) - 1 = pos + i - 1
    BY <1>1
  <2>2. At(pos + n, i - n) = At(pos, i)
    BY <1>1, <2>1 DEF At
  <2>3. Moved(pos, n) = pos + n
    BY <1>3 DEF Moved
  <2>4. QED
    BY <2>2, <2>3
<1>4. QED
  BY <1>2, <1>3

LEMMA FrontTaken ==
    ASSUME IInv, IInv', NEW n \in Nat, n <= Span(p_read, p_write), p_read + n <= Size,
           mem' = mem, p_write' = p_write, p_read' = Moved(p_read, n), got' = Slice(p_read, n)
    PROVE  got' \o Contents' = Contents
<1>1. p_read \in Offset /\ p_write \in Offset /\ Size \in Nat /\ mem \in [Offset -> Bytes]
  BY ChrDevAssumption DEF IInv, TypeOK
<1>2. got' \in Seq(Bytes) /\ Len(got') = n /\ \A i \in 1 .. n : got'[i] = mem[p_read + i - 1]
  <2>1. got' \in Seq(Bytes)
    BY DEF IInv, TypeOK
  <2>2. QED
    BY <2>1 DEF Slice
<1>3. Span(p_read', p_write') = Span(p_read, p_write) - n /\ Span(p_read, p_write) \in Nat
  BY <1>1 DEF Span, Moved, Offset
<1>4. Contents' = Queued(mem, p_read', p_write') /\ Contents' \in Seq(Bytes)
      /\ Len(Contents') = Span(p_read, p_write) - n
  <2>1. (Contents = Queued(mem, p_read, p_write) /\ Contents \in Seq(Bytes)
         /\ Len(Contents) = Span(p_read, p_write))'
    BY ContentsAreQueued, PTL
  <2>2. QED
    BY <1>3, <2>1 DEF Queued, At, Span
<1>5. Contents = Queued(mem, p_read, p_write) /\ Contents \in Seq(Bytes) /\ Len(Contents) = Span(p_read, p_write)
  BY ContentsAreQueued
<1>6. got' \o Contents' \in Seq(Bytes) /\ Len(got' \o Contents') = Span(p_read, p_write)
  BY <1>2, <1>3, <1>4, ConcatProperties
<1>7. ASSUME NEW i \in 1 .. Span(p_read, p_write)
      PROVE  (got' \o Contents')[i] = Contents[i]
  <2>0. i \in Nat /\ i <= Span(p_read, p_write) /\ i < Size
    BY <1>1, <1>3, <1>7 DEF Span, Offset
  <2>1. i \in 1 .. Len(got') + Len(Contents')
    BY <1>2, <1>3, <1>4, <1>7
  <2>2. (got' \o Contents')[i] = IF i <= n THEN got'[i] ELSE Contents'[i - n]
    <3>1. (got' \o Contents')[i] = IF i <= Len(got') THEN got'[i] ELSE Contents'[i - Len(got')]
      <4>1. got' \in Seq(Bytes) /\ Contents' \in Seq(Bytes)
        BY <1>2, <1>4
      <4>2. QED
        BY <2>1, <4>1, ConcatProperties
    <3>2. QED
      BY <1>2, <3>1
  <2>3. Contents[i] = mem[At(p_read, i)]
    BY <1>5 DEF Queued
  <2>4. CASE i <= n
    BY <1>1, <1>2, <1>3, <2>2, <2>3, <2>4 DEF At, Offset
  <2>5. CASE i > n
    <3>1. i - n \in 1 .. Span(p_read', p_write')
      BY <1>3, <2>5
    <3>2. Contents'[i - n] = mem[At(p_read', i - n)]
      BY <1>4, <3>1 DEF Queued
    <3>3. At(p_read', i - n) = At(p_read, i)
      BY <1>1, <2>0, <2>5, PlaceMoved
    <3>5. ~(i <= n)
      BY <2>0, <2>5
    <3>6. (got' \o Contents')[i] = Contents'[i - n]
      BY <2>2, <3>5
    <3>7. QED
      BY <2>3, <3>2, <3>3, <3>6
  <2>6. i <= n \/ i > n
    BY <2>0
  <2>7. QED
    BY <2>4, <2>5, <2>6
<1>8. QED
  BY <1>5, <1>6, <1>7, SeqEqual

\* A write reaches none of the places that are to be read.
LEMMA FreeUntouched ==
    ASSUME IInv, NEW n \in Nat, Span(p_read, p_write) + n <= Size - 1, p_write + n <= Size,
           mem' \in Filled(p_write, n)
    PROVE  \A i \in 1 .. Span(p_read, p_write) : mem'[At(p_read, i)] = mem[At(p_read, i)]
<1>1. p_read \in Offset /\ p_write \in Offset /\ Size \in Nat
  BY ChrDevAssumption DEF IInv, TypeOK
<1>2. Span(p_read, p_write) \in Nat
  BY <1>1 DEF Span, Offset
<1>3. SUFFICES ASSUME NEW i \in 1 .. Span(p_read, p_write)
      PROVE  At(p_read, i) \in Offset /\ At(p_read, i) \notin p_write .. p_write + n - 1
  <2>1. PICK s \in [p_write .. p_write + n - 1 -> Bytes] :
            mem' = [j \in Offset |-> IF j \in DOMAIN s THEN s[j] ELSE mem[j]]
    BY DEF Filled
  <2>2. DOMAIN s = p_write .. p_write + n - 1
    OBVIOUS
  <2>3. QED
    BY <1>3, <2>1, <2>2
<1>4. i \in Nat /\ 1 <= i /\ i <= Span(p_read, p_write)
  BY <1>2
<1>5. CASE p_read <= p_write
  <2>1. Span(p_read, p_write) = p_write - p_read
    BY <1>5 DEF Span
  <2>2. p_read + i - 1 < p_write /\ p_read + i - 1 < Size /\ p_read + i - 1 \in Nat
    BY <1>1, <1>4, <2>1 DEF Offset
  <2>3. At(p_read, i) = p_read + i - 1
    BY <2>2 DEF At
  <2>4. QED
    BY <1>1, <2>2, <2>3 DEF Offset
<1>6. CASE p_read > p_write
  <2>1. ~(p_read <= p_write)
    BY <1>1, <1>6 DEF Offset
  <2>2. Span(p_read, p_write) = p_write + Size - p_read
    BY <2>1 DEF Span
  <2>3. p_write + n < p_read
    BY <1>1, <2>2 DEF Offset
  <2>4. CASE p_read + i - 1 < Size
    <3>1. At(p_read, i) = p_read + i - 1
      BY <2>4 DEF At
    <3>2. QED
      BY <1>1, <1>4, <2>3, <2>4, <3>1 DEF Offset
  <2>5. CASE ~(p_read + i - 1 < Size)
    <3>1. At(p_read, i) = p_read + i - 1 - Size
      BY <2>5 DEF At
    <3>2. QED
      BY <1>1, <1>4, <2>2, <2>5, <3>1 DEF Offset
  <2>6. QED
    BY <2>4, <2>5
<1>7. QED
  BY <1>1, <1>5, <1>6 DEF Offset

LEMMA BackAdded ==
    ASSUME IInv, IInv', p_read' = p_read, Span(p_read, p_write) <= Span(p_read, p_write'),
           \A i \in 1 .. Span(p_read, p_write) : mem'[At(p_read, i)] = mem[At(p_read, i)]
    PROVE  /\ Fifo!IsPrefix(Contents, Contents')
           /\ Len(Contents') <= Size - 1
           /\ p_write' = p_write => Contents' = Contents
<1> DEFINE old == Contents
           new == Contents'
<1>1. old = Queued(mem, p_read, p_write) /\ old \in Seq(Bytes) /\ Len(old) = Span(p_read, p_write)
  BY ContentsAreQueued
<1>2. new = Queued(mem', p_read, p_write') /\ new \in Seq(Bytes) /\ Len(new) = Span(p_read, p_write')
  <2>1. (Contents = Queued(mem, p_read, p_write) /\ Contents \in Seq(Bytes)
         /\ Len(Contents) = Span(p_read, p_write))'
    BY ContentsAreQueued, PTL
  <2>2. QED
    BY <2>1 DEF Queued, At, Span
<1>3. p_read \in Offset /\ p_write \in Offset /\ p_write' \in Offset /\ Size \in Nat
  BY ChrDevAssumption DEF IInv, TypeOK, Offset
<1>4. Span(p_read, p_write) \in Nat /\ Span(p_read, p_write') \in Nat /\ Span(p_read, p_write') <= Size - 1
  <2>1. Span(p_read, p_write) \in Offset /\ Span(p_read, p_write') \in Offset
    BY <1>3, RingDistance
  <2>2. QED
    BY <1>3, <2>1 DEF Offset
<1>5. \A i \in 1 .. Len(old) : i \in 1 .. Len(new) /\ new[i] = old[i]
  BY <1>1, <1>2, <1>4 DEF Queued
<1> HIDE DEF old, new
<1>6. SubSeq(old, 1, Len(old)) = SubSeq(new, 1, Len(old))
  <2>1. SubSeq(old, 1, Len(old)) = [i \in 1 .. Len(old) |-> old[i]]
    BY <1>1, <1>4
  <2>2. SubSeq(new, 1, Len(old)) = [i \in 1 .. Len(old) |-> new[i]]
    BY <1>1, <1>2, <1>4
  <2>3. QED
    BY <1>5, <2>1, <2>2
<1>7. Fifo!IsPrefix(old, new)
  BY <1>1, <1>2, <1>6 DEF Fifo!IsPrefix
<1>8. p_write' = p_write => new = old
  <2>1. SUFFICES ASSUME p_write' = p_write PROVE old = new
    OBVIOUS
  <2>2. Len(old) = Len(new)
    BY <1>1, <1>2, <2>1
  <2>3. QED
    BY <1>1, <1>2, <1>5, <2>2, SeqEqual
<1>9. QED
  BY <1>2, <1>4, <1>7, <1>8 DEF old, new

\* How the places to be read grow when p_write moves on.
LEMMA SpanGrows ==
    ASSUME NEW r \in Offset, NEW w \in Offset, NEW n \in Nat,
           Span(r, w) + n <= Size - 1, w + n <= Size
    PROVE  Span(r, Moved(w, n)) = Span(r, w) + n
<1>1. Size \in Nat /\ r \in Nat /\ w \in Nat /\ r < Size /\ w < Size
  BY ChrDevAssumption DEF Offset
<1>2. CASE n = Size - w
  <2>1. Moved(w, n) = 0
    BY <1>2 DEF Moved
  <2>2. w >= r
    BY <1>1, <1>2 DEF Span
  <2>3. Span(r, w) = w - r /\ r # 0
    BY <1>1, <1>2, <2>2 DEF Span
  <2>4. Span(r, 0) = 0 + Size - r
    BY <1>1, <2>3 DEF Span
  <2>5. QED
    BY <1>1, <1>2, <2>1, <2>3, <2>4
<1>3. CASE n # Size - w
  <2>1. Moved(w, n) = w + n
    BY <1>3 DEF Moved
  <2>2. Span(r, w + n) = Span(r, w) + n
    BY <1>1 DEF Span
  <2>3. QED
    BY <2>1, <2>2
<1>4. QED
  BY <1>2, <1>3

LEMMA Stored ==
    ASSUME IInv, IInv', NEW n \in Nat, Span(p_read, p_write) + n <= Size - 1, p_write + n <= Size,
           mem' \in Filled(p_write, n), p_read' = p_read, UNCHANGED got
    PROVE  /\ p_write' = Moved(p_write, n) => Fifo!Put
           /\ p_write' = p_write => UNCHANGED <<Contents, got>>
<1>1. p_read \in Offset /\ p_write \in Offset
  BY DEF IInv, TypeOK
<1>2. Span(p_read, p_write) \in Nat
  BY <1>1, ChrDevAssumption DEF Span, Offset
<1>3. CASE p_write' = Moved(p_write, n)
  <2>1. Span(p_read, p_write') = Span(p_read, p_write) + n
    BY <1>1, <1>3, SpanGrows
  <2>2. Span(p_read, p_write) <= Span(p_read, p_write')
    BY <1>2, <2>1
  <2>3. Fifo!IsPrefix(Contents, Contents') /\ Len(Contents') <= Size - 1
    BY <2>2, FreeUntouched, BackAdded
  <2>4. Fifo!Put
    BY <2>3 DEF Fifo!Put
  <2>5. QED
    BY <2>4, FreeUntouched, BackAdded, <2>2
<1>4. CASE p_write' = p_write
  <2>1. Span(p_read, p_write) <= Span(p_read, p_write')
    BY <1>2, <1>4
  <2>2. Contents' = Contents /\ Fifo!IsPrefix(Contents, Contents') /\ Len(Contents') <= Size - 1
    BY <1>4, <2>1, FreeUntouched, BackAdded
  <2>3. Fifo!Put
    BY <2>2 DEF Fifo!Put
  <2>4. QED
    BY <2>2, <2>3
<1>5. QED
  BY <1>3, <1>4

FifoStep == Fifo!Next \/ faults' # 0 \/ \E p \in Procs : BufClear(p)

LEMMA WaitingKeepsQueue ==
    ASSUME NEW p \in Procs,
           \/ Start(p) \/ TakeSem(p) \/ MustWait(p) \/ Check(p) \/ Interrupted(p)
           \/ ReadWake(p) \/ ReadFault(p) \/ WriteWake(p)
    PROVE  UNCHANGED <<Contents, got>>
<1>1. UNCHANGED <<mem, p_read, p_write, got>>
  BY DEF Start, TakeSem, MustWait, Check, Interrupted, ReadWake, ReadFault, WriteWake
<1>2. QED
  BY <1>1 DEF Contents, Distance

LEMMA ReadStepsFifo ==
    ASSUME IInv, IInv', NEW p \in Procs, NEW n \in 0 .. Size,
           ReadOnce(p, n) \/ ReadFirst(p, n) \/ ReadSecond(p)
    PROVE  [FifoStep]_<<Contents, got>>
<1> SUFFICES ASSUME faults' = 0 PROVE [FifoStep]_<<Contents, got>>
  BY DEF FifoStep
<1>1. p_read \in Offset /\ p_write \in Offset /\ rest \in Offset /\ n \in Nat /\ Size \in Nat /\ Size > 1
  BY ChrDevAssumption DEF IInv, TypeOK
<1>2. faults = 0 /\ faults' # faults + 1
  BY ChrDevAssumption DEF IInv, TypeOK, ReadOnce, ReadFirst, ReadSecond, SplitFault
<1>3. ASSUME NEW k \in Nat, k <= Span(p_read, p_write), p_read + k <= Size,
             UNCHANGED <<mem, p_write>>, p_read' = Moved(p_read, k), got' = Slice(p_read, k)
      PROVE  FifoStep
  <2>1. got' \o Contents' = Contents
    BY <1>3, FrontTaken
  <2>2. Fifo!Get
    BY <2>1 DEF Fifo!Get
  <2>3. QED
    BY <2>2 DEF FifoStep, Fifo!Next
<1>4. CASE ReadOnce(p, n)
  <2>1. p_read' = Moved(p_read, n) /\ got' = Slice(p_read, n) /\ UNCHANGED <<mem, p_write>>
    BY <1>4 DEF ReadOnce
  <2>2. n <= Span(p_read, p_write) /\ p_read + n <= Size
    BY <1>1, <1>4 DEF ReadOnce, Readable, ReadToEnd, Span, Offset
  <2>3. QED
    BY <1>1, <1>3, <2>1, <2>2
<1>5. CASE ReadFirst(p, n)
  <2>1. p_read' = 0 /\ got' = Slice(p_read, ReadToEnd) /\ UNCHANGED <<mem, p_write>> /\ p_read > p_write
    BY <1>2, <1>5 DEF ReadFirst, SplitFault
  <2>2. ReadToEnd \in Nat /\ ReadToEnd <= Span(p_read, p_write) /\ p_read + ReadToEnd <= Size
    BY <1>1, <2>1 DEF ReadToEnd, Span, Offset
  <2>3. Moved(p_read, ReadToEnd) = 0
    BY DEF Moved, ReadToEnd
  <2>4. QED
    BY <1>3, <2>1, <2>2, <2>3
<1>6. CASE ReadSecond(p)
  <2>1. p_read' = p_read + rest /\ got' = Slice(p_read, rest) /\ UNCHANGED <<mem, p_write>>
    BY <1>2, <1>6 DEF ReadSecond, SplitFault
  <2>2. p_read = 0 /\ rest <= p_write
    BY <1>6 DEF IInv, Halves, ReadSecond
  <2>3. rest \in Nat /\ rest <= Span(p_read, p_write) /\ p_read + rest <= Size
    BY <1>1, <2>2 DEF Span, Offset
  <2>4. Moved(p_read, rest) = p_read + rest
    BY <1>1, <2>2 DEF Moved, Offset
  <2>5. QED
    BY <1>3, <2>1, <2>3, <2>4
<1>7. QED
  BY <1>4, <1>5, <1>6

LEMMA WriteStepsFifo ==
    ASSUME IInv, IInv', NEW p \in Procs, NEW n \in 0 .. Size,
           WriteOnce(p, n) \/ WriteFirst(p, n) \/ WriteSecond(p) \/ WriteFault(p, n)
    PROVE  [FifoStep]_<<Contents, got>>
<1> SUFFICES ASSUME faults' = 0 PROVE [FifoStep]_<<Contents, got>>
  BY DEF FifoStep
<1>1. p_read \in Offset /\ p_write \in Offset /\ rest \in Offset /\ n \in Nat /\ Size \in Nat /\ Size > 1
  BY ChrDevAssumption DEF IInv, TypeOK
<1>2. faults = 0 /\ faults' # faults + 1
  BY ChrDevAssumption DEF IInv, TypeOK, WriteOnce, WriteFirst, WriteSecond, WriteFault, SplitFault
<1>3. Free(p_read, p_write) = Size - 1 - Span(p_read, p_write) /\ Span(p_read, p_write) \in Nat
  BY <1>1, FreePlaces DEF Span, Offset
<1>4. ASSUME NEW k \in Nat, Span(p_read, p_write) + k <= Size - 1, p_write + k <= Size,
             mem' \in Filled(p_write, k), UNCHANGED <<p_read, got>>,
             p_write' = Moved(p_write, k) \/ p_write' = p_write
      PROVE  [FifoStep]_<<Contents, got>>
  <2>1. (p_write' = Moved(p_write, k) => Fifo!Put) /\ (p_write' = p_write => UNCHANGED <<Contents, got>>)
    BY <1>4, Stored
  <2>2. QED
    BY <1>4, <2>1 DEF FifoStep, Fifo!Next
<1>5. CASE WriteOnce(p, n) \/ WriteFault(p, n)
  <2>1. mem' \in Filled(p_write, n) /\ UNCHANGED <<p_read, got>>
        /\ (p_write' = Moved(p_write, n) \/ p_write' = p_write)
        /\ (p_read <= p_write => n <= WriteToEnd)
    BY <1>5 DEF WriteOnce, WriteFault
  <2>2. n <= Free(p_read, p_write)
    <3>1. Free(p_read, p_write) \in Int
      BY <1>1, <1>3
    <3>2. QED
      BY <1>5, <3>1 DEF WriteOnce, WriteFault
  <2>3. Span(p_read, p_write) + n <= Size - 1
    BY <1>1, <1>3, <2>2
  <2>4. p_write + n <= Size
    BY <1>1, <2>1, <2>2, WriteRoom DEF WriteToEnd, Offset
  <2>5. QED
    BY <1>1, <1>4, <2>1, <2>3, <2>4
<1>6. CASE WriteFirst(p, n)
  <2>1. mem' \in Filled(p_write, WriteToEnd) /\ UNCHANGED <<p_read, got>> /\ p_write' = 0
        /\ n <= Free(p_read, p_write) /\ n > WriteToEnd
    BY <1>6 DEF WriteFirst
  <2>2. WriteToEnd \in Nat /\ p_write + WriteToEnd <= Size /\ Moved(p_write, WriteToEnd) = 0
    BY <1>1 DEF WriteToEnd, Moved, Offset
  <2>3. Span(p_read, p_write) + WriteToEnd <= Size - 1
    BY <1>1, <1>3, <2>1, <2>2
  <2>4. QED
    BY <1>4, <2>1, <2>2, <2>3
<1>7. CASE WriteSecond(p)
  <2>1. mem' \in Filled(p_write, rest) /\ UNCHANGED <<p_read, got>> /\ p_write' = p_write + rest
    BY <1>2, <1>7 DEF WriteSecond, SplitFault
  <2>2. p_write = 0 /\ 0 < rest /\ rest < p_read
    BY <1>7 DEF IInv, Halves, WriteSecond
  <2>3. rest \in Nat /\ p_write + rest <= Size /\ Span(p_read, p_write) + rest <= Size - 1
    BY <1>1, <2>2 DEF Span, Offset
  <2>4. Moved(p_write, rest) = p_write + rest
    BY <1>1, <2>2 DEF Moved, Offset
  <2>5. QED
    BY <1>4, <2>1, <2>3, <2>4
<1>8. QED
  BY <1>5, <1>6, <1>7

LEMMA NextFifo == IInv /\ IInv' /\ [Next]_vars => [FifoStep]_<<Contents, got>>
<1> SUFFICES ASSUME IInv, IInv', [Next]_vars PROVE [FifoStep]_<<Contents, got>>
  OBVIOUS
<1>1. CASE UNCHANGED vars
  BY <1>1 DEF Contents, Distance, vars
<1>2. ASSUME NEW p \in Procs, BufClear(p)
      PROVE  FifoStep
  BY <1>2 DEF FifoStep
<1>3. 0 \in 0 .. Size
  BY ChrDevAssumption
<1>4. CASE Next
  BY <1>2, <1>3, <1>4, WaitingKeepsQueue, ReadStepsFifo, WriteStepsFifo DEF Next
<1>5. QED
  BY <1>1, <1>4

\* Until the copy of one of two parts fails, every step of the device is one of
\* a queue of at most Size - 1 bytes: what chrdev_read returns was written, in
\* order, and nothing is skipped, however the transfers wrap around.
THEOREM FifoStepsHolds == Spec => FifoSteps
<1>1. IInv /\ IInv' /\ [Next]_vars
        => [Fifo!Next \/ faults' # 0 \/ \E p \in Procs : BufClear(p)]_<<Contents, got>>
  BY NextFifo DEF FifoStep
<1>2. QED
  BY <1>1, Invariance, PTL DEF Spec, FifoSteps

=============================================================================
