-------------------------- MODULE ScullPipeProofs ---------------------------
(***************************************************************************)
(* Proofs about scullpipe, for any finite number of processes and any      *)
(* sizes of the buffer.                                                    *)
(***************************************************************************)
EXTENDS ScullPipe, FiniteSetTheorems, SequenceTheorems, TLAPS

---------------------------------------------------------------------------
(* TypeOK is not inductive: rp and wp move by what fits a buffer that      *)
(* exists, so a process that reads or writes must have the device open,    *)
(* and an open device a buffer with a size.  rp and wp are also inside     *)
(* what was allocated, until a copy has left it.                           *)

Reading == {"rdown", "rcheck", "rsleep", "rheld", "rmoved", "rwake"}
Writing == {"wdown", "wcheck", "wsleep", "wheld", "wmoved", "wwake"}

InUse ==
    /\ \A p \in Procs : pc[p] \in Reading => "r" \in mode[p]
    /\ \A p \in Procs : pc[p] \in Writing => "w" \in mode[p]
    /\ \A p \in Procs : mode[p] # {} => allocated # 0 /\ buffersize # 0
    /\ \A p \in Procs : mode[p] # {} => overrun \/ (rp <= allocated /\ wp <= allocated)
    /\ overrun => buffersize > allocated
    /\ \A p \in Procs : pc[p] = "opening" => allocated # 0 /\ mode[p] = {}

IInv == TypeOK /\ InUse

Openers(x) == {q \in Procs : x \in mode[q]}

LEMMA MaxSizeIsLargest == MaxSize \in Sizes /\ \A m \in Sizes : m <= MaxSize
  BY SizesAssumption DEF MaxSize

\* Opening adds a reader or a writer to the count, closing takes it away.
LEMMA CountOpen ==
    ASSUME TypeOK, NEW p \in Procs, NEW m \in SUBSET {"r", "w"}, mode[p] = {},
           mode' = [mode EXCEPT ![p] = m], NEW x \in {"r", "w"}
    PROVE  Cardinality({q \in Procs : x \in mode'[q]}) = Inc(Cardinality(Openers(x)), x \in m)
<1>0. IsFiniteSet(Openers(x))
  BY ProcsAssumption, FS_Subset DEF Openers
<1>1. CASE x \in m
  <2>1. {q \in Procs : x \in mode'[q]} = Openers(x) \cup {p}
    BY <1>1 DEF Openers, TypeOK
  <2>2. p \notin Openers(x)
    BY DEF Openers
  <2>3. QED
    BY <1>0, <1>1, <2>1, <2>2, FS_AddElement DEF Inc
<1>2. CASE x \notin m
  <2>1. {q \in Procs : x \in mode'[q]} = Openers(x)
    BY <1>2 DEF Openers, TypeOK
  <2>2. QED
    BY <1>2, <2>1 DEF Inc
<1>3. QED
  BY <1>1, <1>2

LEMMA CountClose ==
    ASSUME TypeOK, NEW p \in Procs, mode' = [mode EXCEPT ![p] = {}], NEW x \in {"r", "w"}
    PROVE  Cardinality({q \in Procs : x \in mode'[q]})
             = Dec(Cardinality(Openers(x)), x \in mode[p])
<1>0. IsFiniteSet(Openers(x))
  BY ProcsAssumption, FS_Subset DEF Openers
<1>1. {q \in Procs : x \in mode'[q]} = Openers(x) \ {p}
  BY DEF Openers, TypeOK
<1>2. CASE x \in mode[p]
  <2>1. p \in Openers(x)
    BY <1>2 DEF Openers
  <2>2. QED
    BY <1>0, <1>1, <1>2, <2>1, FS_RemoveElement DEF Dec
<1>3. CASE x \notin mode[p]
  <2>1. Openers(x) \ {p} = Openers(x)
    BY <1>3 DEF Openers
  <2>2. QED
    BY <1>1, <1>3, <2>1 DEF Dec
<1>4. QED
  BY <1>2, <1>3

\* Nobody counted means that nobody has the device open.
LEMMA NoneOpen ==
    ASSUME NEW f \in [Procs -> SUBSET {"r", "w"}],
           Cardinality({q \in Procs : "r" \in f[q]}) + Cardinality({q \in Procs : "w" \in f[q]}) = 0
    PROVE  \A q \in Procs : f[q] = {}
<1> DEFINE R == {q \in Procs : "r" \in f[q]}
           W == {q \in Procs : "w" \in f[q]}
<1>1. IsFiniteSet(R) /\ IsFiniteSet(W)
  BY ProcsAssumption, FS_Subset
<1>2. Cardinality(R) \in Nat /\ Cardinality(W) \in Nat
  BY <1>1, FS_CardinalityType
<1>3. Cardinality(R) = 0 /\ Cardinality(W) = 0
  <2> HIDE DEF R, W
  <2>1. Cardinality(R) + Cardinality(W) = 0
    BY DEF R, W
  <2>2. QED
    BY <1>2, <2>1
<1>4. R = {} /\ W = {}
  BY <1>1, <1>3, FS_EmptySet
<1>5. QED
  BY <1>4

---------------------------------------------------------------------------
(* BufferInUse, by the inductive invariant IInv.                           *)

LEMMA InitIInv == Init => IInv
<1> SUFFICES ASSUME Init PROVE IInv
  OBVIOUS
<1>1. {p \in Procs : "r" \in mode[p]} = {} /\ {p \in Procs : "w" \in mode[p]} = {}
  BY DEF Init
<1>2. nreaders = Cardinality({p \in Procs : "r" \in mode[p]})
      /\ nwriters = Cardinality({p \in Procs : "w" \in mode[p]})
  BY <1>1, FS_EmptySet DEF Init
<1>3. mem \in [0 .. MaxSize - 1 -> Bytes] /\ got \in Seq(Bytes)
  BY DEF Init
<1>4. sem = Nobody /\ \A p \in Procs : pc[p] = "idle" /\ mode[p] = {}
  BY DEF Init
<1>5. pc \in [Procs -> {"idle", "rwake", "wwake"} \cup Holding \cup Waiting]
      /\ mode \in [Procs -> SUBSET {"r", "w"}]
  BY DEF Init
<1>6. \A p \in Procs : pc[p] \in Holding <=> sem = p
  BY <1>4, ProcsAssumption DEF Holding
<1>7. TypeOK
  <2>1. 0 \in 0 .. 0
    OBVIOUS
  <2>2. QED
    BY <1>2, <1>3, <1>4, <1>5, <1>6, <2>1, SizesAssumption DEF Init, TypeOK
<1>8. InUse
  <2>1. overrun = FALSE
    BY DEF Init
  <2>2. QED
    BY <1>4, <2>1 DEF InUse, Reading, Writing
<1>9. QED
  BY <1>7, <1>8 DEF IInv

\* Steps that move control, the semaphore and the next size only.
LEMMA ControlIInv ==
    ASSUME IInv, NEW p \in Procs, NEW to \in {"idle", "rwake", "wwake"} \cup Holding \cup Waiting,
           Goto(p, to), UNCHANGED <<scull_p_buffer, dev, mode, got, readSince>>,
           \/ sem' = sem /\ pc[p] \notin Holding /\ to \notin Holding
           \/ Down(p) /\ to \in Holding \ {"opening"}
           \/ Up /\ pc[p] \in Holding \ {"rmoved", "wmoved"} /\ to \notin Holding,
           to \in Reading => "r" \in mode[p],
           to \in Writing => "w" \in mode[p]
    PROVE  IInv'
  BY ProcsAssumption
     DEF IInv, TypeOK, InUse, Goto, Down, Up, Reading, Writing, Holding, Waiting, dev

LEMMA OpenAllocateIInv ==
    ASSUME IInv, ~overrun, NEW p \in Procs, OpenAllocate(p) PROVE IInv'
  BY ProcsAssumption, SizesAssumption
     DEF IInv, TypeOK, InUse, OpenAllocate, Goto, Down, Reading, Writing, Holding, Waiting

LEMMA OpenResetIInv ==
    ASSUME IInv, ~overrun, NEW p \in Procs, NEW m \in SUBSET {"r", "w"}, m # {}, OpenReset(p, m)
    PROVE  IInv'
<1>1. mode[p] = {} /\ mode' = [mode EXCEPT ![p] = m]
  BY DEF IInv, InUse, OpenReset
<1>2. nreaders' = Cardinality({q \in Procs : "r" \in mode'[q]})
      /\ nwriters' = Cardinality({q \in Procs : "w" \in mode'[q]})
  BY <1>1, CountOpen DEF IInv, TypeOK, OpenReset, Openers
<1>3. buffersize' \in Nat /\ buffersize' \in Sizes /\ buffersize' # 0
  BY SizesAssumption DEF IInv, TypeOK, OpenReset
<1>4. \A q \in Procs : pc'[q] \in Holding <=> sem' = q
  BY ProcsAssumption DEF IInv, TypeOK, OpenReset, Goto, Up, Holding
<1>5. TypeOK'
  <2>1. rp' \in 0 .. buffersize' /\ wp' \in 0 .. buffersize' /\ rp' # buffersize' /\ wp' # buffersize'
    BY <1>3 DEF OpenReset
  <2>2. mode' \in [Procs -> SUBSET {"r", "w"}]
        /\ pc' \in [Procs -> {"idle", "rwake", "wwake"} \cup Holding \cup Waiting]
    BY <1>1 DEF IInv, TypeOK, OpenReset, Goto
  <2>3. QED
    BY <1>2, <1>3, <1>4, <2>1, <2>2 DEF IInv, TypeOK, OpenReset, Up
<1>6. InUse'
  <2>1. allocated' = allocated /\ allocated \in Nat /\ ~overrun' /\ rp' = 0 /\ wp' = 0
    BY SizesAssumption DEF IInv, TypeOK, OpenReset
  <2>2. rp' <= allocated' /\ wp' <= allocated'
    BY <2>1
  <2>3. QED
    BY <1>1, <1>3, <2>1, <2>2 DEF IInv, TypeOK, InUse, OpenReset, Goto, Reading, Writing
<1>7. QED
  BY <1>5, <1>6 DEF IInv

LEMMA ReleaseIInv ==
    ASSUME IInv, ~overrun, NEW p \in Procs, Release(p) PROVE IInv'
<1>1. mode' = [mode EXCEPT ![p] = {}] /\ mode' \in [Procs -> SUBSET {"r", "w"}]
  BY DEF IInv, TypeOK, Release
<1>2. nreaders' = Cardinality({q \in Procs : "r" \in mode'[q]})
      /\ nwriters' = Cardinality({q \in Procs : "w" \in mode'[q]})
  BY <1>1, CountClose DEF IInv, TypeOK, Release, Openers
<1>3. nreaders' + nwriters' = 0 => \A q \in Procs : mode'[q] = {}
  BY <1>1, <1>2, NoneOpen
<1>4. QED
  BY ZenonT(60), <1>1, <1>2, <1>3, ProcsAssumption, SizesAssumption
     DEF IInv, TypeOK, InUse, Release, LastFile, Reading, Writing, Holding, Waiting

LEMMA TouchIs ==
    ASSUME NEW pos, NEW n, Touch(pos, n) PROVE overrun' <=> overrun \/ pos + n > allocated
  BY DEF Touch

LEMMA SetSizeIInv ==
    ASSUME IInv, NEW n \in Sizes, SetSize(n) PROVE IInv'
  BY DEF IInv, TypeOK, InUse, SetSize, dev

LEMMA ReadCopyIInv ==
    ASSUME IInv, NEW p \in Procs, NEW n \in 0 .. MaxSize, ReadCopy(p, n) PROVE IInv'
<1>1. sem = p /\ buffersize \in Sizes /\ MaxSize \in Nat /\ buffersize \in Nat /\ buffersize <= MaxSize
  BY MaxSizeIsLargest, SizesAssumption DEF IInv, TypeOK, InUse, ReadCopy, Reading, Holding
<1>2. rp \in Nat /\ wp \in Nat /\ rp + n <= buffersize
  BY <1>1 DEF IInv, TypeOK, ReadCopy, ReadRoom
<1>3. got' \in Seq(Bytes)
  <2>1. got' \in [1 .. n -> Bytes] /\ n \in Nat
    BY <1>1 DEF ReadCopy
  <2>2. QED
    BY <2>1
<1>4. allocated \in Nat /\ overrun \in BOOLEAN
  BY SizesAssumption DEF IInv, TypeOK
<1>5. TypeOK'
  BY <1>1, <1>2, <1>3, <1>4, ProcsAssumption
     DEF IInv, TypeOK, InUse, ReadCopy, Touch, Goto, Holding, Waiting
<1>6. InUse'
  <2>1. (overrun' <=> overrun \/ rp + n > allocated) /\ rp' = rp + n /\ UNCHANGED <<wp, allocated, buffersize, mode>>
    BY TouchIs DEF ReadCopy
  <2>2. overrun' => buffersize > allocated
    BY <1>1, <1>2, <1>4, <2>1 DEF IInv, InUse
  <2>3. \A q \in Procs : mode[q] # {} => overrun' \/ (rp + n <= allocated /\ wp <= allocated)
    BY <1>1, <1>2, <1>4, <2>1 DEF IInv, InUse
  <2>4. QED
    BY <2>1, <2>2, <2>3 DEF IInv, TypeOK, InUse, ReadCopy, Goto, Reading, Writing
<1>7. QED
  BY <1>5, <1>6 DEF IInv

LEMMA ReadWrapIInv ==
    ASSUME IInv, NEW p \in Procs, ReadWrap(p) PROVE IInv'
  BY ProcsAssumption, SizesAssumption
     DEF IInv, TypeOK, InUse, ReadWrap, Wrapped, Goto, Up, Reading, Writing, Holding, Waiting

LEMMA ReadWakeIInv ==
    ASSUME IInv, NEW p \in Procs, ReadWake(p) PROVE IInv'
  BY ProcsAssumption
     DEF IInv, TypeOK, InUse, ReadWake, WriterWoken, Reading, Writing, Holding, Waiting, dev

LEMMA WriteCopyIInv ==
    ASSUME IInv, NEW p \in Procs, NEW n \in 0 .. MaxSize, WriteCopy(p, n) PROVE IInv'
<1>1. sem = p /\ buffersize \in Sizes /\ MaxSize \in Nat /\ buffersize \in Nat
      /\ buffersize <= MaxSize /\ buffersize # 0
  BY MaxSizeIsLargest, SizesAssumption DEF IInv, TypeOK, InUse, WriteCopy, Writing, Holding
<1>2. wp \in Nat /\ rp \in Nat /\ rp <= buffersize /\ wp <= buffersize
  BY <1>1 DEF IInv, TypeOK
<1>3. wp + n <= buffersize
  <2>1. (rp + buffersize - wp) % buffersize \in Int
    BY <1>1, <1>2
  <2>2. spacefree \in Int
    BY <1>1, <2>1 DEF spacefree, Free
  <2>3. n <= WriteRoom
    BY DEF WriteCopy
  <2>4. CASE wp < rp
    BY <1>1, <1>2, <2>3, <2>4 DEF WriteRoom
  <2>5. CASE ~(wp < rp)
    BY <1>1, <1>2, <2>2, <2>3, <2>5 DEF WriteRoom, ToEnd
  <2>6. QED
    BY <2>4, <2>5
<1>4. mem' \in [0 .. MaxSize - 1 -> Bytes]
  BY DEF IInv, TypeOK, WriteCopy
<1>5. allocated \in Nat /\ overrun \in BOOLEAN
  BY SizesAssumption DEF IInv, TypeOK
<1>6. TypeOK'
  BY <1>1, <1>2, <1>3, <1>4, <1>5, ProcsAssumption
     DEF IInv, TypeOK, InUse, WriteCopy, Touch, Goto, Holding, Waiting
<1>7. InUse'
  <2>1. (overrun' <=> overrun \/ wp + n > allocated) /\ wp' = wp + n /\ UNCHANGED <<rp, allocated, buffersize, mode>>
    BY TouchIs DEF WriteCopy
  <2>2. overrun' => buffersize > allocated
    BY <1>1, <1>2, <1>3, <1>5, <2>1 DEF IInv, InUse
  <2>3. \A q \in Procs : mode[q] # {} => overrun' \/ (wp + n <= allocated /\ rp <= allocated)
    BY <1>1, <1>2, <1>3, <1>5, <2>1 DEF IInv, InUse
  <2>4. QED
    BY <2>1, <2>2, <2>3 DEF IInv, TypeOK, InUse, WriteCopy, Goto, Reading, Writing
<1>8. QED
  BY <1>6, <1>7 DEF IInv

LEMMA WriteWrapIInv ==
    ASSUME IInv, NEW p \in Procs, WriteWrap(p) PROVE IInv'
  BY ProcsAssumption, SizesAssumption
     DEF IInv, TypeOK, InUse, WriteWrap, Wrapped, Goto, Up, Reading, Writing, Holding, Waiting

LEMMA WriteWakeIInv ==
    ASSUME IInv, NEW p \in Procs, WriteWake(p) PROVE IInv'
  BY ProcsAssumption
     DEF IInv, TypeOK, InUse, WriteWake, ReaderWoken, Reading, Writing, Holding, Waiting, dev

\* A copy that fails has touched no more than one that succeeds.
LEMMA CopyFaultIInv ==
    ASSUME IInv, NEW p \in Procs, CopyFault(p) PROVE IInv'
<1>1. sem = p /\ buffersize \in Nat /\ allocated \in Nat /\ overrun \in BOOLEAN /\ buffersize # 0
  BY SizesAssumption DEF IInv, TypeOK, InUse, CopyFault, Reading, Writing, Holding
<1>2. wp \in Nat /\ rp \in Nat /\ rp <= buffersize /\ wp <= buffersize
  BY <1>1 DEF IInv, TypeOK
<1>3. overrun' \in BOOLEAN /\ (overrun' => buffersize > allocated)
  <2>1. overrun => buffersize > allocated
    BY DEF IInv, InUse
  <2>2. CASE \E n \in 0 .. ReadRoom : Touch(rp, n)
    BY <1>1, <1>2, <2>1, <2>2 DEF ReadRoom, Touch
  <2>3. CASE \E n \in 0 .. WriteRoom : Touch(wp, n)
    <3>1. (rp + buffersize - wp) % buffersize \in Int
      BY <1>1, <1>2
    <3>2. spacefree \in Int
      BY <1>1, <3>1 DEF spacefree, Free
    <3>3. wp + WriteRoom <= buffersize /\ WriteRoom \in Int
      BY <1>1, <1>2, <3>2 DEF WriteRoom, ToEnd
    <3>4. QED
      BY <1>1, <1>2, <2>1, <2>3, <3>3 DEF Touch
  <2>4. QED
    BY <2>2, <2>3 DEF CopyFault
<1>4. TypeOK'
  BY <1>1, <1>3, ProcsAssumption DEF IInv, TypeOK, CopyFault, Goto, Up, Holding, Waiting
<1>5. overrun' = TRUE \/ overrun' = overrun
  BY <1>1 DEF CopyFault, Touch
<1>6. InUse'
  BY <1>3, <1>5 DEF IInv, TypeOK, InUse, CopyFault, Goto, Reading, Writing
<1>7. QED
  BY <1>4, <1>6 DEF IInv

LEMMA NextIInv == IInv /\ [Next]_vars => IInv'
<1> SUFFICES ASSUME IInv, [Next]_vars PROVE IInv'
  OBVIOUS
<1>1. ASSUME ~overrun, NEW p \in Procs, OpenOrClose(p) PROVE IInv'
  BY <1>1, OpenAllocateIInv, OpenResetIInv, ReleaseIInv DEF OpenOrClose
<1>2. ASSUME NEW p \in Procs, Read(p) PROVE IInv'
  <2>1. CASE ReadStart(p)
    BY <2>1, ControlIInv DEF ReadStart, Holding, Waiting, Reading, Writing, dev
  <2>2. CASE ReadDown(p)
    BY <2>2, ControlIInv DEF ReadDown, Down, Holding, Waiting, Reading, Writing, IInv, InUse, dev
  <2>3. CASE ReadEmpty(p)
    BY <2>3, ControlIInv DEF ReadEmpty, Holding, Waiting, Reading, Writing, IInv, InUse, dev
  <2>4. CASE ReadCheck(p)
    <3>1. "r" \in mode[p]
      BY <2>4 DEF ReadCheck, IInv, InUse, Reading
    <3>2. CASE rp # wp
      BY <2>4, <3>1, <3>2, ControlIInv DEF ReadCheck, Holding, Waiting, Reading, Writing
    <3>3. CASE rp = wp
      BY <2>4, <3>1, <3>3, ControlIInv DEF ReadCheck, Holding, Waiting, Reading, Writing
    <3>4. QED
      BY <3>2, <3>3
  <2>5. QED
    BY <1>2, <2>1, <2>2, <2>3, <2>4, ReadCopyIInv, ReadWrapIInv, ReadWakeIInv DEF Read
<1>3. ASSUME NEW p \in Procs, Write(p) PROVE IInv'
  <2>1. CASE WriteStart(p)
    BY <2>1, ControlIInv DEF WriteStart, Holding, Waiting, Reading, Writing, dev
  <2>2. CASE WriteDown(p)
    BY <2>2, ControlIInv DEF WriteDown, Down, Holding, Waiting, Reading, Writing, IInv, InUse, dev
  <2>3. CASE WriteFull(p)
    BY <2>3, ControlIInv DEF WriteFull, Holding, Waiting, Reading, Writing, IInv, InUse, dev
  <2>4. CASE WriteCheck(p)
    <3>1. "w" \in mode[p]
      BY <2>4 DEF WriteCheck, IInv, InUse, Writing
    <3>2. CASE spacefree = 0
      BY <2>4, <3>1, <3>2, ControlIInv DEF WriteCheck, Holding, Waiting, Reading, Writing
    <3>3. CASE spacefree # 0
      BY <2>4, <3>1, <3>3, ControlIInv DEF WriteCheck, Holding, Waiting, Reading, Writing
    <3>4. QED
      BY <3>2, <3>3
  <2>5. QED
    BY <1>3, <2>1, <2>2, <2>3, <2>4, WriteCopyIInv, WriteWrapIInv, WriteWakeIInv DEF Write
<1>4. ASSUME NEW p \in Procs, Interrupted(p) PROVE IInv'
  BY <1>4, ControlIInv DEF Interrupted, Holding, Waiting, Reading, Writing
<1>5. ASSUME NEW p \in Procs, CopyFault(p) PROVE IInv'
  BY <1>5, CopyFaultIInv
<1>6. ASSUME NEW n \in Sizes, SetSize(n) PROVE IInv'
  BY <1>6, SetSizeIInv
<1>7. CASE UNCHANGED vars
  BY <1>7 DEF vars, dev, IInv, TypeOK, InUse
<1>8. QED
  BY <1>1, <1>2, <1>3, <1>4, <1>5, <1>6, <1>7 DEF Next

LEMMA IInvHolds == Spec => []IInv
  BY InitIInv, NextIInv, PTL DEF Spec

\* An open device has a buffer, and rp, wp and the copies stay inside what was
\* allocated, unless an open gave the device a size larger than the buffer it
\* has (scull_p_open, scull_p_release, pipe.c:62-116).
THEOREM BufferInUseHolds == Spec => []BufferInUse
<1>1. IInv => BufferInUse
  BY DEF IInv, InUse, BufferInUse
<1>2. QED
  BY <1>1, IInvHolds, PTL

---------------------------------------------------------------------------
(* SleepersNotForgotten.  With IInv, and with the two positions looked at  *)
(* as they are once wrapped, it is inductive: a step that makes what a     *)
(* sleeper waits for leaves the process that is about to wake it.          *)

ReaderSafe ==
    (\E p \in Procs : pc[p] = "rsleep") /\ Wrapped(rp) # Wrapped(wp) =>
        \E q \in Procs : pc[q] \in {"wmoved", "wwake"}

WriterSafe ==
    readSince /\ (\E p \in Procs : pc[p] = "wsleep") /\ spacefree # 0 =>
        \E q \in Procs : pc[q] \in {"rmoved", "rwake"}

Attended == ReaderSafe /\ WriterSafe

LEMMA AroundTheEnd ==
    ASSUME NEW b \in Nat \ {0}
    PROVE  /\ b % b = 0 /\ (b + b) % b = 0
           /\ \A r \in 0 .. b - 1 : r % b = r /\ (r + b) % b = r
  BY SMT

\* Two positions that agree once wrapped leave nothing to read.
LEMMA NothingBetween == IInv /\ Wrapped(rp) = Wrapped(wp) => Contents = <<>>
<1> SUFFICES ASSUME IInv, Wrapped(rp) = Wrapped(wp), rp # wp PROVE Contents = <<>>
  BY DEF Contents
<1>1. buffersize \in Nat /\ rp \in 0 .. buffersize /\ wp \in 0 .. buffersize
  BY SizesAssumption DEF IInv, TypeOK
<1>2. buffersize # 0
  BY <1>1
<1>3. (wp + buffersize - rp) % buffersize = 0
  <2>1. \/ rp = 0 /\ wp = buffersize
        \/ rp = buffersize /\ wp = 0
    BY <1>1 DEF Wrapped
  <2>2. wp + buffersize - rp = 0 \/ wp + buffersize - rp = buffersize + buffersize
    BY <1>1, <2>1
  <2>3. 0 % buffersize = 0 /\ (buffersize + buffersize) % buffersize = 0
    BY <1>1, <1>2, AroundTheEnd
  <2>4. QED
    BY <2>2, <2>3
<1>4. 1 .. 0 = {}
  OBVIOUS
<1>5. Contents = [i \in {} |-> mem[(rp + i - 1) % buffersize]]
  BY <1>3, <1>4 DEF Contents
<1>6. QED
  BY <1>5

\* Nobody stands past the end while another process moves.
LEMMA OnlyMoversAtEnd ==
    ASSUME IInv, NEW p \in Procs, sem = p
    PROVE  /\ buffersize # 0 /\ pc[p] # "rmoved" => rp # buffersize
           /\ buffersize # 0 /\ pc[p] # "wmoved" => wp # buffersize
           /\ \A q \in Procs \ {p} : pc[q] \notin Holding
  BY DEF IInv, TypeOK, Holding

\* Steps that move control only and send nobody to sleep.
LEMMA ControlAttended ==
    ASSUME IInv, Attended, NEW p \in Procs,
           NEW to \in {"idle", "rwake", "wwake"} \cup Holding \cup (Waiting \ {"rsleep", "wsleep"}),
           Goto(p, to), UNCHANGED <<rp, wp, buffersize, readSince>>,
           pc[p] \notin {"rmoved", "wmoved", "rwake", "wwake"}
    PROVE  Attended'
  BY DEF IInv, TypeOK, Attended, ReaderSafe, WriterSafe, Wrapped, spacefree, Free, Goto,
         Holding, Waiting

LEMMA ReadCopyAttended ==
    ASSUME IInv, Attended, NEW p \in Procs, NEW n \in 0 .. MaxSize, ReadCopy(p, n)
    PROVE  Attended'
<1>1. sem = p /\ pc[p] = "rheld" /\ buffersize # 0
  BY DEF IInv, TypeOK, InUse, ReadCopy, Reading, Holding
<1>2. rp # buffersize /\ wp # buffersize
  BY <1>1, OnlyMoversAtEnd
<1>3. Wrapped(rp) # Wrapped(wp)
  BY <1>2 DEF Wrapped, ReadCopy
<1>4. ReaderSafe'
  BY <1>1, <1>3 DEF Attended, ReaderSafe, ReadCopy, Goto, IInv, TypeOK
<1>5. WriterSafe'
  BY DEF WriterSafe, ReadCopy, Goto, IInv, TypeOK
<1>6. QED
  BY <1>4, <1>5 DEF Attended

LEMMA ReadWrapAttended ==
    ASSUME IInv, Attended, NEW p \in Procs, ReadWrap(p) PROVE Attended'
<1>1. Wrapped(rp)' = Wrapped(rp) /\ Wrapped(wp)' = Wrapped(wp)
  BY DEF Wrapped, ReadWrap
<1>2. ReaderSafe'
  BY <1>1 DEF Attended, ReaderSafe, ReadWrap, Goto, IInv, TypeOK
<1>3. WriterSafe'
  BY DEF WriterSafe, ReadWrap, Goto, IInv, TypeOK
<1>4. QED
  BY <1>2, <1>3 DEF Attended

LEMMA ReadWakeAttended ==
    ASSUME IInv, Attended, NEW p \in Procs, ReadWake(p) PROVE Attended'
<1>1. Wrapped(rp)' = Wrapped(rp) /\ Wrapped(wp)' = Wrapped(wp)
  BY DEF Wrapped, ReadWake, dev
<1>2. ReaderSafe'
  BY <1>1 DEF Attended, ReaderSafe, ReadWake, WriterWoken
<1>3. WriterSafe'
  BY DEF WriterSafe, ReadWake, WriterWoken
<1>4. QED
  BY <1>2, <1>3 DEF Attended

LEMMA WriteCopyAttended ==
    ASSUME IInv, Attended, NEW p \in Procs, NEW n \in 0 .. MaxSize, WriteCopy(p, n)
    PROVE  Attended'
<1>1. ReaderSafe'
  BY DEF ReaderSafe, WriteCopy, Goto, IInv, TypeOK
<1>2. WriterSafe'
  BY DEF Attended, WriterSafe, WriteCopy, Goto, IInv, TypeOK
<1>3. QED
  BY <1>1, <1>2 DEF Attended

\* Wrapping wp frees nothing: a sleeping writer had room before, or has none.
LEMMA WriteWrapAttended ==
    ASSUME IInv, Attended, NEW p \in Procs, WriteWrap(p) PROVE Attended'
<1>1. sem = p /\ pc[p] = "wmoved" /\ buffersize # 0 /\ buffersize \in Nat
  BY SizesAssumption DEF IInv, TypeOK, InUse, WriteWrap, Writing, Holding
<1>2. rp \in 0 .. buffersize - 1 /\ wp \in 0 .. buffersize
  <2>1. rp # buffersize
    BY <1>1, OnlyMoversAtEnd
  <2>2. QED
    BY <1>1, <2>1 DEF IInv, TypeOK
<1>3. ReaderSafe'
  BY DEF ReaderSafe, WriteWrap, Goto, IInv, TypeOK
<1>4. spacefree' # 0 => spacefree # 0
  <2>1. CASE wp # buffersize
    BY <2>1 DEF WriteWrap, Wrapped, spacefree, Free
  <2>2. CASE wp = buffersize
    <3>1. spacefree = (rp % buffersize) - 1
      <4>1. rp + buffersize - wp = rp
        BY <1>1, <1>2, <2>2
      <4>2. QED
        BY <1>2, <2>2, <4>1 DEF spacefree, Free
    <3>2. spacefree = rp - 1
      BY <1>1, <1>2, <3>1, AroundTheEnd
    <3>3. CASE rp = 0
      BY <3>2, <3>3
    <3>4. CASE rp # 0
      <4>1. rp' = rp /\ wp' = 0 /\ buffersize' = buffersize
        BY <2>2 DEF WriteWrap, Wrapped
      <4>2. spacefree' = ((rp + buffersize - 0) % buffersize) - 1
        BY <3>4, <4>1 DEF spacefree, Free
      <4>3. rp + buffersize - 0 = rp + buffersize
        BY <1>1, <1>2
      <4>4. QED
        BY <1>1, <1>2, <3>2, <4>2, <4>3, AroundTheEnd
    <3>5. QED
      BY <3>3, <3>4
  <2>3. QED
    BY <2>1, <2>2
<1>5. WriterSafe'
  BY <1>1, <1>4 DEF Attended, WriterSafe, WriteWrap, Goto, IInv, TypeOK
<1>6. QED
  BY <1>3, <1>5 DEF Attended

LEMMA WriteWakeAttended ==
    ASSUME IInv, Attended, NEW p \in Procs, WriteWake(p) PROVE Attended'
<1>1. ReaderSafe'
  BY DEF ReaderSafe, WriteWake, ReaderWoken
<1>2. WriterSafe'
  BY DEF Attended, WriterSafe, WriteWake, ReaderWoken, spacefree, Free, dev
<1>3. QED
  BY <1>1, <1>2 DEF Attended

\* Opening empties the pipe, and from then on nothing has been read.
LEMMA OpenOrCloseAttended ==
    ASSUME IInv, Attended, NEW p \in Procs, OpenOrClose(p) PROVE Attended'
<1>1. CASE OpenAllocate(p)
  BY <1>1 DEF OpenAllocate, Attended, ReaderSafe, WriterSafe, Wrapped, spacefree, Free, Goto,
              IInv, TypeOK
<1>2. CASE \E m \in (SUBSET {"r", "w"}) \ {{}} : OpenReset(p, m)
  BY <1>2 DEF OpenReset, Attended, ReaderSafe, WriterSafe, Wrapped
<1>3. CASE Release(p)
  BY <1>3 DEF Release, Attended, ReaderSafe, WriterSafe, Wrapped, spacefree, Free
<1>4. QED
  BY <1>1, <1>2, <1>3 DEF OpenOrClose

LEMMA NextAttended == IInv /\ Attended /\ [Next]_vars => Attended'
<1> SUFFICES ASSUME IInv, Attended, [Next]_vars PROVE Attended'
  OBVIOUS
<1>1. ASSUME NEW p \in Procs, Read(p) PROVE Attended'
  <2>1. CASE ReadStart(p) \/ ReadDown(p) \/ ReadEmpty(p)
    BY <2>1, ControlAttended DEF ReadStart, ReadDown, ReadEmpty, Holding, Waiting, dev
  <2>2. CASE ReadCheck(p) /\ rp # wp
    BY <2>2, ControlAttended DEF ReadCheck, Holding, Waiting, dev
  <2>3. CASE ReadCheck(p) /\ rp = wp
    BY <2>3 DEF ReadCheck, Goto, Attended, ReaderSafe, WriterSafe, Wrapped, spacefree, Free,
                IInv, TypeOK, dev
  <2>4. QED
    BY <1>1, <2>1, <2>2, <2>3, ReadCopyAttended, ReadWrapAttended, ReadWakeAttended DEF Read
<1>2. ASSUME NEW p \in Procs, Write(p) PROVE Attended'
  <2>1. CASE WriteStart(p) \/ WriteDown(p) \/ WriteFull(p)
    BY <2>1, ControlAttended DEF WriteStart, WriteDown, WriteFull, Holding, Waiting, dev
  <2>2. CASE WriteCheck(p) /\ spacefree # 0
    BY <2>2, ControlAttended DEF WriteCheck, Holding, Waiting, dev
  <2>3. CASE WriteCheck(p) /\ spacefree = 0
    BY <2>3 DEF WriteCheck, Goto, Attended, ReaderSafe, WriterSafe, Wrapped, spacefree, Free,
                IInv, TypeOK, dev
  <2>4. QED
    BY <1>2, <2>1, <2>2, <2>3, WriteCopyAttended, WriteWrapAttended, WriteWakeAttended DEF Write
<1>3. ASSUME NEW p \in Procs, Interrupted(p) \/ CopyFault(p) PROVE Attended'
  BY <1>3, ControlAttended DEF Interrupted, CopyFault, Holding, Waiting, dev
<1>4. CASE (\E n \in Sizes : SetSize(n)) \/ UNCHANGED vars
  BY <1>4 DEF SetSize, vars, dev, Attended, ReaderSafe, WriterSafe, Wrapped, spacefree, Free
<1>5. QED
  BY <1>1, <1>2, <1>3, <1>4, OpenOrCloseAttended DEF Next

\* A process asleep on inq or outq has nothing to do, or somebody is about to
\* wake it, or the device was opened again and nothing was read since
\* (scull_p_read, scull_p_write and scull_getwritespace, pipe.c:119-228).
THEOREM SleepersNotForgottenHolds == Spec => []SleepersNotForgotten
<1>1. Init => Attended
  BY DEF Init, Attended, ReaderSafe, WriterSafe
<1>2. IInv /\ Attended => SleepersNotForgotten
  <2>1. IInv /\ ReaderSafe => ReadersNotForgotten
    BY NothingBetween DEF ReaderSafe, ReadersNotForgotten
  <2>2. WriterSafe => ForgottenByOpenOnly
    BY DEF WriterSafe, ForgottenByOpenOnly, WriterForgotten
  <2>3. QED
    BY <2>1, <2>2 DEF Attended, SleepersNotForgotten
<1>3. QED
  BY <1>1, <1>2, IInvHolds, NextAttended, PTL DEF Spec

---------------------------------------------------------------------------
(* A ring of b places, of which those from r up to w are a queue.          *)

Distance(b, r, w) == IF r <= w THEN w - r ELSE w + b - r
Place(b, r, i)    == IF r + i - 1 < b THEN r + i - 1 ELSE r + i - 1 - b
Queued(b, m, r, w) == [i \in 1 .. Distance(b, r, w) |-> m[Place(b, r, i)]]
Moved(b, pos, n)  == IF n = b - pos THEN 0 ELSE pos + n

Cells(size) == [0 .. size - 1 -> Bytes]

LEMMA DistanceInRing ==
    ASSUME NEW b \in Nat \ {0}, NEW r \in 0 .. b - 1, NEW w \in 0 .. b - 1
    PROVE  /\ Distance(b, r, w) \in Nat /\ Distance(b, r, w) < b
           /\ (w + b - r) % b = Distance(b, r, w)
<1>1. CASE r <= w
  <2>1. w - r \in 0 .. b - 1 /\ w + b - r = (w - r) + b
    BY <1>1
  <2>2. ((w - r) + b) % b = w - r
    BY <2>1, AroundTheEnd
  <2>3. QED
    BY <1>1, <2>1, <2>2 DEF Distance
<1>2. CASE r > w
  <2>1. w + b - r \in 0 .. b - 1
    BY <1>2
  <2>2. QED
    BY <1>2, <2>1, AroundTheEnd DEF Distance
<1>3. QED
  BY <1>1, <1>2

LEMMA PlaceInRing ==
    ASSUME NEW b \in Nat \ {0}, NEW r \in 0 .. b - 1, NEW i \in Nat, 1 <= i, i < b
    PROVE  Place(b, r, i) \in 0 .. b - 1 /\ (r + i - 1) % b = Place(b, r, i)
<1>1. CASE r + i - 1 < b
  <2>1. r + i - 1 \in 0 .. b - 1
    BY <1>1
  <2>2. (r + i - 1) % b = r + i - 1
    BY <2>1, AroundTheEnd
  <2>3. QED
    BY <1>1, <2>1, <2>2 DEF Place
<1>2. CASE ~(r + i - 1 < b)
  <2>1. r + i - 1 - b \in 0 .. b - 1 /\ (r + i - 1 - b) + b = r + i - 1
    BY <1>2
  <2>2. ((r + i - 1 - b) + b) % b = r + i - 1 - b
    BY <2>1, AroundTheEnd
  <2>3. QED
    BY <1>2, <2>1, <2>2 DEF Place
<1>3. QED
  BY <1>1, <1>2

LEMMA QueuedIsSeq ==
    ASSUME NEW size \in Nat, NEW b \in Nat \ {0}, b <= size, NEW m \in Cells(size),
           NEW r \in 0 .. b - 1, NEW w \in 0 .. b - 1
    PROVE  /\ Queued(b, m, r, w) \in Seq(Bytes) /\ Len(Queued(b, m, r, w)) = Distance(b, r, w)
           /\ \A i \in 1 .. Distance(b, r, w) : Queued(b, m, r, w)[i] = m[Place(b, r, i)]
<1>1. Distance(b, r, w) \in Nat /\ Distance(b, r, w) < b
  BY DistanceInRing
<1>2. \A i \in 1 .. Distance(b, r, w) : m[Place(b, r, i)] \in Bytes
  <2>1. TAKE i \in 1 .. Distance(b, r, w)
  <2>2. i \in Nat /\ 1 <= i /\ i < b
    BY <1>1
  <2>3. Place(b, r, i) \in 0 .. size - 1
    BY <2>2, PlaceInRing
  <2>4. QED
    BY <2>3 DEF Cells
<1>3. Queued(b, m, r, w) \in [1 .. Distance(b, r, w) -> Bytes]
  BY <1>2 DEF Queued
<1>4. QED
  BY <1>1, <1>3 DEF Queued

LEMMA FrontTaken ==
    ASSUME NEW size \in Nat, NEW b \in Nat \ {0}, b <= size, NEW m \in Cells(size),
           NEW r \in 0 .. b - 1, NEW w \in 0 .. b - 1,
           NEW n \in Nat, n <= Distance(b, r, w), r + n <= b
    PROVE  [i \in 1 .. n |-> m[r + i - 1]] \o Queued(b, m, Moved(b, r, n), w) = Queued(b, m, r, w)
<1> DEFINE front == [i \in 1 .. n |-> m[r + i - 1]]
           back  == Queued(b, m, Moved(b, r, n), w)
           all   == Queued(b, m, r, w)
<1>1. Moved(b, r, n) \in 0 .. b - 1 /\ Distance(b, Moved(b, r, n), w) = Distance(b, r, w) - n
  <2>1. CASE n = b - r
    <3>1. Moved(b, r, n) = 0
      BY <2>1 DEF Moved
    <3>2. r > w /\ Distance(b, 0, w) = w /\ Distance(b, r, w) = w + b - r
      BY <2>1 DEF Distance
    <3>3. QED
      BY <2>1, <3>1, <3>2
  <2>2. CASE n # b - r
    <3>1. Moved(b, r, n) = r + n
      BY <2>2 DEF Moved
    <3>2. Distance(b, r + n, w) = Distance(b, r, w) - n
      BY <2>2 DEF Distance
    <3>3. QED
      BY <2>2, <3>1, <3>2
  <2>3. QED
    BY <2>1, <2>2
<1>2. all \in Seq(Bytes) /\ Len(all) = Distance(b, r, w)
      /\ \A i \in 1 .. Distance(b, r, w) : all[i] = m[Place(b, r, i)]
  BY QueuedIsSeq
<1>3. back \in Seq(Bytes) /\ Len(back) = Distance(b, r, w) - n
      /\ \A i \in 1 .. Distance(b, r, w) - n : back[i] = m[Place(b, Moved(b, r, n), i)]
  <2>1. \A k \in 0 .. b - 1 :
            /\ Queued(b, m, k, w) \in Seq(Bytes) /\ Len(Queued(b, m, k, w)) = Distance(b, k, w)
            /\ \A i \in 1 .. Distance(b, k, w) : Queued(b, m, k, w)[i] = m[Place(b, k, i)]
    BY SMTT(30), QueuedIsSeq
  <2>2. QED
    BY <1>1, <2>1
<1>4. front \in Seq(Bytes) /\ Len(front) = n /\ \A i \in 1 .. n : front[i] = m[r + i - 1]
  <2>1. \A i \in 1 .. n : r + i - 1 \in 0 .. size - 1
    OBVIOUS
  <2>2. \A i \in 1 .. n : m[r + i - 1] \in Bytes
    BY <2>1 DEF Cells
  <2>3. QED
    BY <2>2
<1>5. Distance(b, r, w) \in Nat /\ Distance(b, r, w) < b
  BY DistanceInRing
<1> HIDE DEF front, back, all
<1>6. front \o back \in Seq(Bytes) /\ Len(front \o back) = Distance(b, r, w)
      /\ \A i \in 1 .. Distance(b, r, w) :
            (front \o back)[i] = IF i <= n THEN front[i] ELSE back[i - n]
  <2>1. Len(front) + Len(back) = Distance(b, r, w)
    BY <1>3, <1>4, <1>5
  <2>2. front \in Seq(Bytes) /\ back \in Seq(Bytes) /\ Len(front) = n
    BY <1>3, <1>4
  <2>3. front \o back \in Seq(Bytes) /\ Len(front \o back) = Len(front) + Len(back)
        /\ \A i \in 1 .. Len(front) + Len(back) :
              (front \o back)[i] = IF i <= Len(front) THEN front[i] ELSE back[i - Len(front)]
    BY <2>2, ConcatProperties
  <2>4. QED
    BY <2>1, <2>2, <2>3
<1>7. ASSUME NEW i \in 1 .. Distance(b, r, w)
      PROVE  (front \o back)[i] = all[i]
  <2>1. i \in Nat /\ 1 <= i /\ i <= Distance(b, r, w) /\ i < b
    BY <1>5
  <2>2. CASE i <= n
    <3>1. Place(b, r, i) = r + i - 1
      BY <2>1, <2>2 DEF Place
    <3>2. i \in 1 .. n
      BY <2>1, <2>2
    <3>3. QED
      BY <1>2, <1>4, <1>6, <2>2, <3>1, <3>2
  <2>3. CASE ~(i <= n)
    <3>1. Place(b, Moved(b, r, n), i - n) = Place(b, r, i)
      <4>1. CASE n = b - r
        <5>1. Moved(b, r, n) = 0 /\ r + i - 1 - b = i - n - 1 /\ 0 + (i - n) - 1 = i - n - 1
          BY <4>1, <2>1 DEF Moved
        <5>2. ~(r + i - 1 < b) /\ i - n - 1 < b
          BY <4>1, <2>1, <2>3
        <5>3. QED
          BY <5>1, <5>2 DEF Place
      <4>2. CASE n # b - r
        <5>1. (r + n) + (i - n) - 1 = r + i - 1
          BY <2>1
        <5>2. Place(b, r + n, i - n) = Place(b, r, i)
          BY <2>1, <5>1 DEF Place
        <5>3. QED
          BY <4>2, <5>2 DEF Moved
      <4>3. QED
        BY <4>1, <4>2
    <3>2. i - n \in 1 .. Distance(b, r, w) - n
      BY <1>5, <2>1, <2>3
    <3>3. QED
      BY <1>2, <1>3, <1>6, <2>3, <3>1, <3>2
  <2>4. QED
    BY <2>2, <2>3
<1>8. QED
  BY <1>2, <1>6, <1>7, SeqEqual DEF front, back, all

\* Places from w on are written, all of them before r: what is queued stays.
LEMMA BackAdded ==
    ASSUME NEW size \in Nat, NEW b \in Nat \ {0}, b <= size,
           NEW m \in Cells(size), NEW m2 \in Cells(size),
           NEW r \in 0 .. b - 1, NEW w \in 0 .. b - 1,
           NEW n \in Nat, Distance(b, r, w) + n <= b - 1, w + n <= b,
           \A j \in 0 .. size - 1 : j \notin w .. w + n - 1 => m2[j] = m[j]
    PROVE  /\ Fifo!IsPrefix(Queued(b, m, r, w), Queued(b, m2, r, Moved(b, w, n)))
           /\ Len(Queued(b, m2, r, Moved(b, w, n))) <= b - 1
<1> DEFINE old == Queued(b, m, r, w)
           new == Queued(b, m2, r, Moved(b, w, n))
<1>1. Moved(b, w, n) \in 0 .. b - 1 /\ Distance(b, r, Moved(b, w, n)) = Distance(b, r, w) + n
  <2>1. CASE n = b - w
    <3>1. Moved(b, w, n) = 0
      BY <2>1 DEF Moved
    <3>2. r <= w /\ r # 0
      BY <2>1 DEF Distance
    <3>3. Distance(b, r, 0) = 0 + b - r /\ Distance(b, r, w) = w - r
      BY <3>2 DEF Distance
    <3>4. QED
      BY <2>1, <3>1, <3>2, <3>3
  <2>2. CASE n # b - w
    <3>1. Moved(b, w, n) = w + n
      BY <2>2 DEF Moved
    <3>2. Distance(b, r, w + n) = Distance(b, r, w) + n
      BY <2>2 DEF Distance
    <3>3. QED
      BY <2>2, <3>1, <3>2
  <2>3. QED
    BY <2>1, <2>2
<1>2. old \in Seq(Bytes) /\ Len(old) = Distance(b, r, w)
      /\ \A i \in 1 .. Distance(b, r, w) : old[i] = m[Place(b, r, i)]
  BY QueuedIsSeq
<1>3. new \in Seq(Bytes) /\ Len(new) = Distance(b, r, w) + n
      /\ \A i \in 1 .. Distance(b, r, w) + n : new[i] = m2[Place(b, r, i)]
  <2>1. \A k \in 0 .. b - 1 :
            /\ Queued(b, m2, r, k) \in Seq(Bytes) /\ Len(Queued(b, m2, r, k)) = Distance(b, r, k)
            /\ \A i \in 1 .. Distance(b, r, k) : Queued(b, m2, r, k)[i] = m2[Place(b, r, i)]
    BY ZenonT(60), QueuedIsSeq
  <2>2. QED
    BY <1>1, <2>1
<1>4. Distance(b, r, w) \in Nat /\ Distance(b, r, w) < b
  BY DistanceInRing
<1>5. ASSUME NEW i \in 1 .. Distance(b, r, w)
      PROVE  m2[Place(b, r, i)] = m[Place(b, r, i)]
  <2>1. i \in Nat /\ 1 <= i /\ i <= Distance(b, r, w) /\ i < b
    BY <1>4
  <2>2. Place(b, r, i) \in 0 .. b - 1
    BY <2>1, PlaceInRing
  <2>3. Place(b, r, i) \notin w .. w + n - 1
    <3>1. CASE r <= w
      <4>1. Distance(b, r, w) = w - r /\ r + i - 1 < w
        BY <2>1, <3>1 DEF Distance
      <4>2. r + i - 1 < b
        BY <2>1, <4>1
      <4>3. Place(b, r, i) = r + i - 1
        BY <4>2 DEF Place
      <4>4. QED
        BY <2>1, <4>1, <4>3
    <3>2. CASE ~(r <= w)
      <4>1. Distance(b, r, w) = w + b - r
        BY <3>2 DEF Distance
      <4>2. w + n < r /\ r + i - 1 - b < w
        BY <2>1, <4>1
      <4>3. CASE r + i - 1 < b
        <5>1. Place(b, r, i) = r + i - 1
          BY <4>3 DEF Place
        <5>2. QED
          BY <2>1, <4>2, <5>1
      <4>4. CASE ~(r + i - 1 < b)
        <5>1. Place(b, r, i) = r + i - 1 - b
          BY <4>4 DEF Place
        <5>2. QED
          BY <2>1, <4>2, <5>1
      <4>5. QED
        BY <4>3, <4>4
    <3>3. QED
      BY <3>1, <3>2
  <2>4. QED
    BY <2>2, <2>3
<1>6. \A i \in 1 .. Len(old) : i \in 1 .. Len(new) /\ new[i] = old[i]
  BY SMTT(30), <1>2, <1>3, <1>4, <1>5
<1> HIDE DEF old, new
<1>7. SubSeq(old, 1, Len(old)) = SubSeq(new, 1, Len(old))
  <2>1. SubSeq(old, 1, Len(old)) = [i \in 1 .. Len(old) |-> old[i]]
    BY <1>2, <1>4
  <2>2. SubSeq(new, 1, Len(old)) = [i \in 1 .. Len(old) |-> new[i]]
    BY <1>2, <1>3, <1>4
  <2>3. QED
    BY <1>6, <2>1, <2>2
<1>8. Len(old) <= Len(new) /\ Len(new) <= b - 1
  BY <1>2, <1>3, <1>4
<1>9. Fifo!IsPrefix(old, new)
  BY <1>7, <1>8 DEF Fifo!IsPrefix
<1>10. QED
  BY <1>8, <1>9 DEF old, new

---------------------------------------------------------------------------
(* The pipe implements the queue.                                          *)

Queue == Queued(buffersize, mem, Wrapped(rp), Wrapped(wp))

LEMMA SizesFit ==
    ASSUME IInv
    PROVE  /\ buffersize \in Nat /\ MaxSize \in Nat /\ buffersize <= MaxSize
           /\ mem \in Cells(MaxSize)
           /\ rp \in 0 .. buffersize /\ wp \in 0 .. buffersize
           /\ buffersize # 0 =>
                 Wrapped(rp) \in 0 .. buffersize - 1 /\ Wrapped(wp) \in 0 .. buffersize - 1
<1>1. buffersize \in Sizes \cup {0} /\ MaxSize \in Sizes
  BY MaxSizeIsLargest DEF IInv, TypeOK
<1>2. buffersize \in Nat /\ MaxSize \in Nat
  BY <1>1, SizesAssumption
<1>3. buffersize <= MaxSize
  BY <1>1, <1>2, MaxSizeIsLargest
<1>4. QED
  BY <1>2, <1>3 DEF IInv, TypeOK, Cells, Wrapped

\* Wherever rp and wp stand, one past the end included, Contents is the queue.
LEMMA ContentsAreQueued ==
    ASSUME IInv
    PROVE  /\ buffersize = 0 => Contents = <<>>
           /\ buffersize # 0 => Contents = Queue
<1>1. CASE buffersize = 0
  <2>1. rp = wp
    BY <1>1, SizesFit
  <2>2. QED
    BY <1>1, <2>1 DEF Contents
<1>2. CASE buffersize # 0
  <2> DEFINE b == buffersize
             r == Wrapped(rp)
             w == Wrapped(wp)
  <2>1. b \in Nat \ {0} /\ r \in 0 .. b - 1 /\ w \in 0 .. b - 1 /\ rp \in 0 .. b /\ wp \in 0 .. b
    BY <1>2, SizesFit
  <2>2. CASE rp = wp
    <3>1. Distance(b, r, w) = 0
      BY <2>1, <2>2 DEF Distance
    <3>2. Queue = [i \in {} |-> mem[Place(b, r, i)]]
      <4>1. 1 .. 0 = {}
        OBVIOUS
      <4>2. QED
        BY <3>1, <4>1 DEF Queue, Queued
    <3>3. Queue = <<>>
      BY <3>2
    <3>4. QED
      BY <1>2, <2>2, <3>3 DEF Contents
  <2>3. CASE rp # wp
    <3>1. (wp + b - rp) % b = Distance(b, r, w)
      <4>1. CASE rp # b /\ wp # b
        BY <2>1, <4>1, DistanceInRing DEF Wrapped
      <4>2. CASE rp = b /\ wp # b
        <5>1. r = 0 /\ w = wp /\ wp + b - rp = wp /\ wp \in 0 .. b - 1
          BY <2>1, <4>2 DEF Wrapped
        <5>2. wp % b = wp /\ Distance(b, 0, wp) = wp
          BY <2>1, <5>1, AroundTheEnd DEF Distance
        <5>3. QED
          BY <5>1, <5>2
      <4>3. CASE rp # b /\ wp = b
        <5>1. r = rp /\ w = 0 /\ wp + b - rp = (b - rp) + b
          BY <2>1, <4>3 DEF Wrapped
        <5>2. CASE rp = 0
          <6>1. (b - rp) + b = b + b /\ (b + b) % b = 0
            BY <2>1, <5>2, AroundTheEnd
          <6>2. Distance(b, r, w) = 0
            BY <5>1, <5>2 DEF Distance
          <6>3. QED
            BY <5>1, <6>1, <6>2
        <5>3. CASE rp # 0
          <6>1. b - rp \in 0 .. b - 1
            BY <2>1, <5>3
          <6>2. ((b - rp) + b) % b = b - rp
            BY <2>1, <6>1, AroundTheEnd
          <6>3. Distance(b, r, w) = b - rp
            BY <2>1, <5>1, <5>3 DEF Distance
          <6>4. QED
            BY <5>1, <6>2, <6>3
        <5>4. QED
          BY <5>2, <5>3
      <4>4. QED
        BY <2>3, <4>1, <4>2, <4>3
    <3>2. Distance(b, r, w) \in Nat /\ Distance(b, r, w) < b
      BY <2>1, DistanceInRing
    <3>3. ASSUME NEW i \in 1 .. Distance(b, r, w)
          PROVE  (rp + i - 1) % b = Place(b, r, i)
      <4>1. i \in Nat /\ 1 <= i /\ i < b
        BY <2>1, <3>2
      <4>2. CASE rp # b
        <5>1. r = rp
          BY <4>2 DEF Wrapped
        <5>2. QED
          BY <2>1, <4>1, <5>1, PlaceInRing
      <4>3. CASE rp = b
        <5>1. r = 0
          BY <4>3 DEF Wrapped
        <5>2. i - 1 \in 0 .. b - 1 /\ rp + i - 1 = (i - 1) + b /\ 0 + i - 1 = i - 1 /\ i - 1 < b
          BY <2>1, <4>1, <4>3
        <5>3. ((i - 1) + b) % b = i - 1
          BY <2>1, <5>2, AroundTheEnd
        <5>4. Place(b, 0, i) = i - 1
          BY <5>2 DEF Place
        <5>5. QED
          BY <5>1, <5>2, <5>3, <5>4
      <4>4. QED
        BY <4>2, <4>3
    <3>4. Contents = [i \in 1 .. Distance(b, r, w) |-> mem[(rp + i - 1) % b]]
      BY <2>3, <3>1 DEF Contents
    <3>5. Queue = [i \in 1 .. Distance(b, r, w) |-> mem[Place(b, r, i)]]
      BY DEF Queue, Queued
    <3>6. QED
      BY <1>2, <3>3, <3>4, <3>5
  <2>4. QED
    BY <2>2, <2>3
<1>3. QED
  BY <1>1, <1>2

\* A pointer at the end and one at the start are the same to the queue.
LEMMA QueueKept ==
    ASSUME IInv, IInv', UNCHANGED <<buffersize, mem>>,
           Wrapped(rp)' = Wrapped(rp), Wrapped(wp)' = Wrapped(wp)
    PROVE  Contents' = Contents
<1>1. (buffersize' = 0 => Contents' = <<>>) /\ (buffersize' # 0 => Contents' = Queue')
  <2>1. ((buffersize = 0 => Contents = <<>>) /\ (buffersize # 0 => Contents = Queue))'
    BY ContentsAreQueued, PTL
  <2>2. QED
    BY <2>1
<1>2. Queue' = Queue
  BY DEF Queue, Queued, Distance, Place
<1>3. QED
  BY <1>1, <1>2, ContentsAreQueued

LEMMA ReadCopyFifo ==
    ASSUME IInv, IInv', ~overrun', NEW p \in Procs, NEW n \in 0 .. MaxSize, ReadCopy(p, n)
    PROVE  Fifo!Get
<1> DEFINE b == buffersize
           r == rp
           w == wp
<1>1. sem = p /\ pc[p] = "rheld" /\ b # 0
  BY DEF IInv, TypeOK, InUse, ReadCopy, Reading, Holding
<1>2. rp # b /\ wp # b
  BY <1>1, OnlyMoversAtEnd
<1>3. Wrapped(rp) = rp /\ Wrapped(wp) = wp
  BY <1>2 DEF Wrapped
<1>4. b \in Nat \ {0} /\ MaxSize \in Nat /\ b <= MaxSize /\ mem \in Cells(MaxSize)
      /\ rp \in 0 .. b - 1 /\ wp \in 0 .. b - 1 /\ n \in Nat
  BY <1>1, <1>3, SizesFit
<1>5. n <= Distance(b, rp, wp) /\ rp + n <= b
  <2>1. n <= ReadRoom /\ rp # wp
    BY DEF ReadCopy
  <2>2. QED
    BY <1>4, <2>1 DEF ReadRoom, Distance
<1>6. UNCHANGED <<buffersize, mem, wp, nreaders, nwriters>> /\ rp' = rp + n
      /\ got' = [i \in 1 .. n |-> mem[rp + i - 1]]
  <2>1. UNCHANGED <<buffersize, mem, wp, nreaders, nwriters>> /\ rp' = rp + n
    BY DEF ReadCopy
  <2>2. allocated \in Nat /\ ~(rp + n > allocated)
    BY SizesAssumption, TouchIs DEF ReadCopy, IInv, TypeOK
  <2>3. \A i \in 1 .. n : rp + i - 1 < allocated
    BY <1>4, <2>2
  <2>4. got' \in [1 .. n -> Bytes] /\ \A i \in 1 .. n : got'[i] = mem[rp + i - 1]
    BY <2>3 DEF ReadCopy
  <2>5. QED
    BY <2>1, <2>4
<1>7. Wrapped(rp)' = Moved(b, rp, n) /\ Wrapped(wp)' = wp
  BY <1>2, <1>4, <1>5, <1>6 DEF Wrapped, Moved
<1>8. Contents' = Queued(b, mem, Moved(b, rp, n), wp)
  <2>1. (buffersize # 0 => Contents = Queue)'
    BY ContentsAreQueued, PTL
  <2>2. Queue' = Queued(b, mem, Moved(b, rp, n), wp)
    BY <1>6, <1>7 DEF Queue, Queued, Distance, Place
  <2>3. QED
    BY <1>1, <1>6, <2>1, <2>2
<1>9. Contents = Queued(b, mem, rp, wp)
  BY <1>1, <1>3, ContentsAreQueued DEF Queue
<1>10. got' \o Contents' = Contents
  BY ZenonT(60), <1>4, <1>5, <1>6, <1>8, <1>9, FrontTaken
<1>11. QED
  BY <1>6, <1>10 DEF Fifo!Get

LEMMA WriteCopyFifo ==
    ASSUME IInv, IInv', ~overrun', NEW p \in Procs, NEW n \in 0 .. MaxSize, WriteCopy(p, n)
    PROVE  Fifo!Put
<1> DEFINE b == buffersize
<1>1. sem = p /\ pc[p] = "wheld" /\ b # 0
  BY DEF IInv, TypeOK, InUse, WriteCopy, Writing, Holding
<1>2. rp # b /\ wp # b
  BY <1>1, OnlyMoversAtEnd
<1>3. Wrapped(rp) = rp /\ Wrapped(wp) = wp
  BY <1>2 DEF Wrapped
<1>4. b \in Nat \ {0} /\ MaxSize \in Nat /\ b <= MaxSize /\ mem \in Cells(MaxSize)
      /\ rp \in 0 .. b - 1 /\ wp \in 0 .. b - 1 /\ n \in Nat
  BY <1>1, <1>3, SizesFit
<1>5. Distance(b, rp, wp) + n <= b - 1 /\ wp + n <= b
  <2>1. n <= WriteRoom
    BY DEF WriteCopy
  <2>2. (rp + b - wp) % b = Distance(b, wp, rp) /\ Distance(b, wp, rp) \in Nat
    BY <1>4, DistanceInRing
  <2>3. CASE wp < rp
    BY <1>4, <2>1, <2>3 DEF WriteRoom, Distance
  <2>4. CASE wp = rp
    <3>1. spacefree = b - 1
      BY <2>4 DEF spacefree, Free
    <3>2. n <= b - 1 /\ n <= b - wp
      BY <1>4, <2>1, <2>4, <3>1 DEF WriteRoom, ToEnd
    <3>3. QED
      BY <1>4, <2>4, <3>2 DEF Distance
  <2>5. CASE wp > rp
    <3>1. Distance(b, wp, rp) = rp + b - wp /\ Distance(b, rp, wp) = wp - rp
      BY <1>4, <2>5 DEF Distance
    <3>2. spacefree = rp + b - wp - 1
      BY <1>4, <2>2, <2>5, <3>1 DEF spacefree, Free
    <3>3. n <= rp + b - wp - 1 /\ n <= b - wp
      BY <1>4, <2>1, <2>5, <3>2 DEF WriteRoom, ToEnd
    <3>4. QED
      BY <1>4, <3>1, <3>3
  <2>6. QED
    BY <1>4, <2>3, <2>4, <2>5
<1>6. UNCHANGED <<buffersize, rp, nreaders, nwriters, got>> /\ wp' = wp + n
  BY DEF WriteCopy
<1>7. Wrapped(wp)' = Moved(b, wp, n) /\ Wrapped(rp)' = rp
  BY <1>2, <1>4, <1>5, <1>6 DEF Wrapped, Moved
<1>8. mem' \in Cells(MaxSize) /\ \A j \in 0 .. MaxSize - 1 : j \notin wp .. wp + n - 1 => mem'[j] = mem[j]
  <2>1. PICK s \in [wp .. wp + n - 1 -> Bytes] :
            mem' = [i \in DOMAIN mem |-> IF i \in DOMAIN s /\ i < allocated THEN s[i] ELSE mem[i]]
    BY DEF WriteCopy
  <2>2. DOMAIN s = wp .. wp + n - 1 /\ DOMAIN mem = 0 .. MaxSize - 1
    BY <1>4 DEF Cells
  <2>3. QED
    BY <1>4, <2>1, <2>2 DEF Cells
<1>9. Contents' = Queued(b, mem', rp, Moved(b, wp, n))
  <2>1. (buffersize # 0 => Contents = Queue)'
    BY ContentsAreQueued, PTL
  <2>2. Queue' = Queued(b, mem', rp, Moved(b, wp, n))
    BY <1>6, <1>7 DEF Queue, Queued, Distance, Place
  <2>3. QED
    BY <1>1, <1>6, <2>1, <2>2
<1>10. Contents = Queued(b, mem, rp, wp)
  BY <1>1, <1>3, ContentsAreQueued DEF Queue
<1>11. Fifo!IsPrefix(Contents, Contents') /\ Len(Contents') <= b - 1
  BY <1>4, <1>5, <1>8, <1>9, <1>10, BackAdded
<1>12. Len(Contents') <= MaxSize - 1
  <2>1. Len(Contents') \in Nat
    <3>1. Moved(b, wp, n) \in 0 .. b - 1
      BY <1>4, <1>5 DEF Moved
    <3>2. QED
      BY <1>4, <1>8, <1>9, <3>1, QueuedIsSeq
  <2>2. QED
    BY <1>4, <1>11, <2>1
<1>13. QED
  BY <1>6, <1>11, <1>12 DEF Fifo!Put

LEMMA CountsAreNat == TypeOK => nreaders \in Nat /\ nwriters \in Nat
<1>1. \A x \in {"r", "w"} : Cardinality({q \in Procs : x \in mode[q]}) \in Nat
  <2>1. TAKE x \in {"r", "w"}
  <2>2. IsFiniteSet({q \in Procs : x \in mode[q]})
    BY ProcsAssumption, FS_Subset
  <2>3. QED
    BY <2>2, FS_CardinalityType
<1>2. QED
  BY <1>1 DEF TypeOK

LEMMA OpenResetFifo ==
    ASSUME IInv, NEW p \in Procs, NEW m \in (SUBSET {"r", "w"}) \ {{}}, OpenReset(p, m)
    PROVE  Fifo!Open
<1>1. nreaders \in Nat /\ nwriters \in Nat
  BY CountsAreNat DEF IInv
<1>2. "r" \in m \/ "w" \in m
  OBVIOUS
<1>3. nreaders' = Inc(nreaders, "r" \in m) /\ nwriters' = Inc(nwriters, "w" \in m)
      /\ rp' = 0 /\ wp' = 0 /\ got' = got
  BY DEF OpenReset
<1>4. nreaders' + nwriters' > nreaders + nwriters
  BY <1>1, <1>2, <1>3 DEF Inc
<1>5. Contents' = <<>>
  BY <1>3 DEF Contents
<1>6. QED
  BY <1>3, <1>4, <1>5 DEF Fifo!Open

LEMMA ReleaseFifo ==
    ASSUME IInv, NEW p \in Procs, Release(p)
    PROVE  Fifo!Close
<1>1. nreaders \in Nat /\ nwriters \in Nat
  BY CountsAreNat DEF IInv
<1>2. "r" \in mode[p] \/ "w" \in mode[p]
  BY DEF IInv, TypeOK, Release
<1>3. nreaders' = Dec(nreaders, "r" \in mode[p]) /\ nwriters' = Dec(nwriters, "w" \in mode[p])
      /\ UNCHANGED <<mem, buffersize, rp, wp, got>>
  BY DEF Release
<1>4. nreaders' + nwriters' < nreaders + nwriters
  BY <1>1, <1>2, <1>3 DEF Dec
<1>5. Contents' = Contents
  BY <1>3 DEF Contents
<1>6. QED
  BY <1>3, <1>4, <1>5 DEF Fifo!Close

\* Nothing but the two copies, open and release shows in the queue.
LEMMA QuietFifo ==
    ASSUME IInv, IInv', NEW p \in Procs,
           \/ OpenAllocate(p) \/ Interrupted(p) \/ CopyFault(p)
           \/ ReadStart(p) \/ ReadDown(p) \/ ReadEmpty(p) \/ ReadCheck(p) \/ ReadWrap(p) \/ ReadWake(p)
           \/ WriteStart(p) \/ WriteDown(p) \/ WriteFull(p) \/ WriteCheck(p) \/ WriteWrap(p) \/ WriteWake(p)
    PROVE  UNCHANGED Fifo!fvars
<1>1. UNCHANGED <<mem, buffersize, nreaders, nwriters, got>>
  BY DEF OpenAllocate, Interrupted, CopyFault, ReadStart, ReadDown, ReadEmpty, ReadCheck, ReadWrap,
         ReadWake, WriteStart, WriteDown, WriteFull, WriteCheck, WriteWrap, WriteWake, dev
<1>2. Wrapped(rp)' = Wrapped(rp) /\ Wrapped(wp)' = Wrapped(wp)
  <2>1. CASE ReadWrap(p)
    BY <2>1 DEF ReadWrap, Wrapped
  <2>2. CASE WriteWrap(p)
    BY <2>2 DEF WriteWrap, Wrapped
  <2>3. CASE UNCHANGED <<rp, wp>>
    BY <1>1, <2>3 DEF Wrapped
  <2>4. QED
    BY <2>1, <2>2, <2>3
       DEF OpenAllocate, Interrupted, CopyFault, ReadStart, ReadDown, ReadEmpty, ReadCheck,
           ReadWake, WriteStart, WriteDown, WriteFull, WriteCheck, WriteWake, dev
<1>3. Contents' = Contents
  BY <1>1, <1>2, QueueKept
<1>4. QED
  BY <1>1, <1>3 DEF Fifo!fvars

LEMMA NextFifo == IInv /\ IInv' /\ [Next]_vars => [~overrun' => Fifo!Next]_Fifo!fvars
<1> SUFFICES ASSUME IInv, IInv', [Next]_vars, ~overrun' PROVE [Fifo!Next]_Fifo!fvars
  OBVIOUS
<1>1. ASSUME NEW p \in Procs, OpenOrClose(p) PROVE [Fifo!Next]_Fifo!fvars
  BY <1>1, QuietFifo, OpenResetFifo, ReleaseFifo DEF OpenOrClose, Fifo!Next
<1>2. ASSUME NEW p \in Procs, Read(p) PROVE [Fifo!Next]_Fifo!fvars
  BY <1>2, QuietFifo, ReadCopyFifo DEF Read, Fifo!Next
<1>3. ASSUME NEW p \in Procs, Write(p) PROVE [Fifo!Next]_Fifo!fvars
  BY <1>3, QuietFifo, WriteCopyFifo DEF Write, Fifo!Next
<1>4. ASSUME NEW p \in Procs, Interrupted(p) \/ CopyFault(p) PROVE [Fifo!Next]_Fifo!fvars
  BY <1>4, QuietFifo
<1>5. CASE (\E n \in Sizes : SetSize(n)) \/ UNCHANGED vars
  <2>1. UNCHANGED <<mem, buffersize, rp, wp, nreaders, nwriters, got>>
    BY <1>5 DEF SetSize, vars, dev
  <2>2. QED
    BY <2>1 DEF Contents, Fifo!fvars
<1>6. QED
  BY <1>1, <1>2, <1>3, <1>4, <1>5 DEF Next

\* Whoever reads and writes, and however the transfers wrap around the end of
\* the buffer, the pipe is a queue of at most MaxSize - 1 bytes that only an
\* open empties (scull_p_open, scull_p_read, scull_p_write), until a copy
\* leaves the allocation.
THEOREM FifoImplemented == Spec => ImplementsFifo
<1>1. Init => Fifo!Init
  BY DEF Init, Contents, Fifo!Init
<1>2. QED
  BY <1>1, IInvHolds, NextFifo, PTL DEF Spec, ImplementsFifo, Fifo!Spec

=============================================================================
