----------------------------- MODULE ScullPipe ------------------------------
(***************************************************************************)
(* One scullpipe device: a circular buffer that processes open, read and   *)
(* write, sleeping when it is empty or full.  A process has at most one    *)
(* file open.  Everything under the semaphore that another process cannot  *)
(* see is one step; what can be seen without it (rp and wp in the wait     *)
(* conditions, scull_p_buffer in open) is not.                             *)
(*                                                                         *)
(* Addresses are offsets from dev->buffer, so dev->end is buffersize.      *)
(***************************************************************************)
EXTENDS Naturals, Sequences, FiniteSets

CONSTANTS
    Procs,
    Bytes,
    Sizes,      \* sizes the ioctl may set
    FirstSize   \* SCULL_P_BUFFER

ASSUME SizesAssumption ==
    /\ Sizes \subseteq Nat \ {0}
    /\ \E n \in Sizes : \A m \in Sizes : m <= n
    /\ FirstSize \in Sizes

VARIABLES
    scull_p_buffer,  \* the size of the next buffer
    allocated,       \* size of dev->buffer, 0 when it is NULL
    mem,             \* its contents
    buffersize, rp, wp, nreaders, nwriters, sem,   \* the fields of dev
    pc,              \* control of the processes
    mode,            \* what their file is open for, if anything
    got,             \* what the last read returned
    readSince,       \* something was read since the last open
    overrun          \* a copy went past the end of what was allocated

dev  == <<allocated, mem, buffersize, rp, wp, nreaders, nwriters, overrun>>
vars == <<scull_p_buffer, dev, sem, pc, mode, got, readSince>>

MaxSize == CHOOSE n \in Sizes : \A m \in Sizes : m <= n
Nobody  == "nobody"

ASSUME ProcsAssumption == IsFiniteSet(Procs) /\ Nobody \notin Procs

Holding == {"opening", "rheld", "rmoved", "wheld", "wmoved"}
Waiting == {"rdown", "rcheck", "rsleep", "wdown", "wcheck", "wsleep"}

TypeOK ==
    /\ scull_p_buffer \in Sizes
    /\ allocated \in Sizes \cup {0}
    /\ mem \in [0 .. MaxSize - 1 -> Bytes]
    /\ buffersize \in Sizes \cup {0}
    /\ rp \in 0 .. buffersize
    /\ wp \in 0 .. buffersize
    /\ sem \in Procs \cup {Nobody}
    /\ pc \in [Procs -> {"idle", "rwake", "wwake"} \cup Holding \cup Waiting]
    /\ mode \in [Procs -> SUBSET {"r", "w"}]
    /\ nreaders = Cardinality({p \in Procs : "r" \in mode[p]})
    /\ nwriters = Cardinality({p \in Procs : "w" \in mode[p]})
    /\ got \in Seq(Bytes)
    /\ {readSince, overrun} \subseteq BOOLEAN
    /\ \A p \in Procs : pc[p] \in Holding <=> sem = p
    /\ buffersize # 0 /\ rp = buffersize => \E p \in Procs : pc[p] = "rmoved"
    /\ buffersize # 0 /\ wp = buffersize => \E p \in Procs : pc[p] = "wmoved"

Init ==
    /\ scull_p_buffer = FirstSize
    /\ allocated = 0
    /\ mem \in [0 .. MaxSize - 1 -> Bytes]
    /\ buffersize = 0
    /\ rp = 0
    /\ wp = 0
    /\ nreaders = 0
    /\ nwriters = 0
    /\ sem = Nobody
    /\ pc = [p \in Procs |-> "idle"]
    /\ mode = [p \in Procs |-> {}]
    /\ got = <<>>
    /\ readSince = FALSE
    /\ overrun = FALSE

Goto(p, next) == pc' = [pc EXCEPT ![p] = next]
Down(p)       == sem = Nobody /\ sem' = p
Up            == sem' = Nobody
Inc(n, c)     == IF c THEN n + 1 ELSE n
Dec(n, c)     == IF c THEN n - 1 ELSE n

---------------------------------------------------------------------------
(* scull_p_open, scull_p_release, scull_ioctl                              *)

\* The size is read twice, here and in OpenReset, and the ioctl that sets it
\* does not take the semaphore.  (-ENOMEM leaves everything as it was.)
OpenAllocate(p) ==
    /\ pc[p] = "idle"
    /\ mode[p] = {}
    /\ Down(p)
    /\ allocated' = IF allocated = 0 THEN scull_p_buffer ELSE allocated
    /\ Goto(p, "opening")
    /\ UNCHANGED <<scull_p_buffer, mem, buffersize, rp, wp, nreaders, nwriters,
                   mode, got, readSince, overrun>>

\* Whoever opens the device, reading and writing start over.  A buffer that
\* was there already keeps its size, whatever dev->end says.
OpenReset(p, m) ==
    /\ pc[p] = "opening"
    /\ buffersize' = scull_p_buffer
    /\ rp' = 0
    /\ wp' = 0
    /\ mode' = [mode EXCEPT ![p] = m]
    /\ nreaders' = Inc(nreaders, "r" \in m)
    /\ nwriters' = Inc(nwriters, "w" \in m)
    /\ readSince' = FALSE
    /\ Up
    /\ Goto(p, "idle")
    /\ UNCHANGED <<scull_p_buffer, allocated, mem, got, overrun>>

\* The buffer goes with the last file.  (A slip would look at readers only.)
LastReader(readers, writers) == readers = 0
LastFile(readers, writers) == readers + writers = 0

Release(p) ==
    /\ pc[p] = "idle"
    /\ mode[p] # {}
    /\ sem = Nobody
    /\ nreaders' = Dec(nreaders, "r" \in mode[p])
    /\ nwriters' = Dec(nwriters, "w" \in mode[p])
    /\ allocated' = IF LastFile(nreaders', nwriters') THEN 0 ELSE allocated
    /\ mode' = [mode EXCEPT ![p] = {}]
    /\ UNCHANGED <<scull_p_buffer, mem, buffersize, rp, wp, sem, pc, got,
                   readSince, overrun>>

SetSize(n) ==
    /\ n # scull_p_buffer
    /\ scull_p_buffer' = n
    /\ UNCHANGED <<dev, sem, pc, mode, got, readSince>>

\* A signal ends any wait, for the semaphore or for data.
Interrupted(p) ==
    /\ pc[p] \in Waiting
    /\ Goto(p, "idle")
    /\ UNCHANGED <<scull_p_buffer, dev, sem, mode, got, readSince>>

\* rp or wp has reached dev->end.
Wrapped(pos) == IF pos = buffersize THEN 0 ELSE pos

\* A copy of n bytes at pos is recorded when it leaves the allocation.
Touch(pos, n) == overrun' = (overrun \/ pos + n > allocated)

---------------------------------------------------------------------------
(* scull_p_read                                                            *)

ReadStart(p) ==
    /\ pc[p] = "idle"
    /\ "r" \in mode[p]
    /\ Goto(p, "rdown")
    /\ UNCHANGED <<scull_p_buffer, dev, sem, mode, got, readSince>>

ReadDown(p) ==
    /\ pc[p] = "rdown"
    /\ Down(p)
    /\ Goto(p, "rheld")
    /\ UNCHANGED <<scull_p_buffer, dev, mode, got, readSince>>

\* Nothing to read: -EAGAIN, or wait_event_interruptible.
ReadEmpty(p) ==
    /\ pc[p] = "rheld"
    /\ rp = wp
    /\ Up
    /\ Goto(p, "idle") \/ Goto(p, "rcheck")
    /\ UNCHANGED <<scull_p_buffer, dev, mode, got, readSince>>

ReadCheck(p) ==
    /\ pc[p] = "rcheck"
    /\ Goto(p, IF rp # wp THEN "rdown" ELSE "rsleep")
    /\ UNCHANGED <<scull_p_buffer, dev, sem, mode, got, readSince>>

ReadRoom == IF wp > rp THEN wp - rp ELSE buffersize - rp

\* What lies past the allocation is somebody else's, and may be anything.
ReadCopy(p, n) ==
    /\ pc[p] = "rheld"
    /\ rp # wp
    /\ n <= ReadRoom
    /\ got' \in {s \in [1 .. n -> Bytes] :
                  \A i \in 1 .. n : rp + i - 1 < allocated => s[i] = mem[rp + i - 1]}
    /\ rp' = rp + n
    /\ Touch(rp, n)
    /\ Goto(p, "rmoved")
    /\ UNCHANGED <<scull_p_buffer, allocated, mem, buffersize, wp, nreaders,
                   nwriters, sem, mode, readSince>>

ReadWrap(p) ==
    /\ pc[p] = "rmoved"
    /\ rp' = Wrapped(rp)
    /\ Up
    /\ Goto(p, "rwake")
    /\ UNCHANGED <<scull_p_buffer, allocated, mem, buffersize, wp, nreaders,
                   nwriters, mode, got, readSince, overrun>>

\* wake_up_interruptible(&dev->outq).  (A slip would not.)
NoWriterWoken(state) == state
WriterWoken(state) == IF state = "wsleep" THEN "wdown" ELSE state

ReadWake(p) ==
    /\ pc[p] = "rwake"
    /\ pc' = [q \in Procs |-> IF q = p THEN "idle" ELSE WriterWoken(pc[q])]
    /\ readSince' = TRUE
    /\ UNCHANGED <<scull_p_buffer, dev, sem, mode, got>>

---------------------------------------------------------------------------
(* scull_p_write                                                           *)

\* spacefree: one byte stays free.  (A slip would not keep it.)
FreeAll(r, w) == IF r = w THEN buffersize
                 ELSE (r + buffersize - w) % buffersize
Free(r, w) == IF r = w THEN buffersize - 1
              ELSE ((r + buffersize - w) % buffersize) - 1

spacefree == Free(rp, wp)

WriteStart(p) ==
    /\ pc[p] = "idle"
    /\ "w" \in mode[p]
    /\ Goto(p, "wdown")
    /\ UNCHANGED <<scull_p_buffer, dev, sem, mode, got, readSince>>

WriteDown(p) ==
    /\ pc[p] = "wdown"
    /\ Down(p)
    /\ Goto(p, "wheld")
    /\ UNCHANGED <<scull_p_buffer, dev, mode, got, readSince>>

\* scull_getwritespace: -EAGAIN, or prepare_to_wait and look again.
WriteFull(p) ==
    /\ pc[p] = "wheld"
    /\ spacefree = 0
    /\ Up
    /\ Goto(p, "idle") \/ Goto(p, "wcheck")
    /\ UNCHANGED <<scull_p_buffer, dev, mode, got, readSince>>

WriteCheck(p) ==
    /\ pc[p] = "wcheck"
    /\ Goto(p, IF spacefree = 0 THEN "wsleep" ELSE "wdown")
    /\ UNCHANGED <<scull_p_buffer, dev, sem, mode, got, readSince>>

ToEnd     == buffersize - wp
WriteRoom == IF wp < rp THEN rp - wp - 1
             ELSE IF spacefree < ToEnd THEN spacefree ELSE ToEnd

WriteCopy(p, n) ==
    /\ pc[p] = "wheld"
    /\ spacefree # 0
    /\ n <= WriteRoom
    /\ \E s \in [wp .. wp + n - 1 -> Bytes] :
         mem' = [i \in DOMAIN mem |-> IF i \in DOMAIN s /\ i < allocated THEN s[i] ELSE mem[i]]
    /\ wp' = wp + n
    /\ Touch(wp, n)
    /\ Goto(p, "wmoved")
    /\ UNCHANGED <<scull_p_buffer, allocated, buffersize, rp, nreaders,
                   nwriters, sem, mode, got, readSince>>

WriteWrap(p) ==
    /\ pc[p] = "wmoved"
    /\ wp' = Wrapped(wp)
    /\ Up
    /\ Goto(p, "wwake")
    /\ UNCHANGED <<scull_p_buffer, allocated, mem, buffersize, rp, nreaders,
                   nwriters, mode, got, readSince, overrun>>

\* wake_up_interruptible(&dev->inq).  (A slip would not.)
NoReaderWoken(state) == state
ReaderWoken(state) == IF state = "rsleep" THEN "rcheck" ELSE state

WriteWake(p) ==
    /\ pc[p] = "wwake"
    /\ pc' = [q \in Procs |-> IF q = p THEN "idle" ELSE ReaderWoken(pc[q])]
    /\ UNCHANGED <<scull_p_buffer, dev, sem, mode, got, readSince>>

\* copy_to_user or copy_from_user fails: the pointers stay where they are, and
\* what the copy left in the free part of the buffer is never read.
CopyFault(p) ==
    /\ \/ pc[p] = "rheld" /\ rp # wp /\ \E n \in 0 .. ReadRoom : Touch(rp, n)
       \/ pc[p] = "wheld" /\ spacefree # 0 /\ \E n \in 0 .. WriteRoom : Touch(wp, n)
    /\ Up
    /\ Goto(p, "idle")
    /\ UNCHANGED <<scull_p_buffer, allocated, mem, buffersize, rp, wp, nreaders,
                   nwriters, mode, got, readSince>>

---------------------------------------------------------------------------
OpenOrClose(p) ==
    \/ OpenAllocate(p)
    \/ \E m \in (SUBSET {"r", "w"}) \ {{}} : OpenReset(p, m)
    \/ Release(p)

Read(p) ==
    \/ ReadStart(p) \/ ReadDown(p) \/ ReadEmpty(p) \/ ReadCheck(p)
    \/ \E n \in 0 .. MaxSize : ReadCopy(p, n)
    \/ ReadWrap(p) \/ ReadWake(p)

Write(p) ==
    \/ WriteStart(p) \/ WriteDown(p) \/ WriteFull(p) \/ WriteCheck(p)
    \/ \E n \in 0 .. MaxSize : WriteCopy(p, n)
    \/ WriteWrap(p) \/ WriteWake(p)

\* Once a copy has left the allocation, which any other user of the kernel's
\* memory may own, nothing is said of what the processes do.
Next ==
    \/ /\ ~overrun
       /\ \E p \in Procs : OpenOrClose(p) \/ Read(p) \/ Write(p)
                           \/ Interrupted(p) \/ CopyFault(p)
    \/ \E n \in Sizes : SetSize(n)

Spec == Init /\ [][Next]_vars

---------------------------------------------------------------------------
(* What the pipe promises.                                                 *)

\* The bytes between rp and wp.
Contents ==
    IF rp = wp THEN <<>>
    ELSE [i \in 1 .. (wp + buffersize - rp) % buffersize
            |-> mem[(rp + i - 1) % buffersize]]

\* Reads return what was written, in order, whoever reads and writes; only
\* opening the device again discards bytes (scull_p_open's rp = wp = buffer).
\* That ends with the first copy that leaves the allocation: its bytes are
\* another's, before or after.
Fifo == INSTANCE ByteFifo WITH queue <- Contents, Capacity <- MaxSize - 1,
                               files <- nreaders + nwriters
ImplementsFifo == Fifo!Init /\ [][~overrun' => Fifo!Next]_Fifo!fvars

\* Nobody reads or writes a buffer that was freed (scull_p_release's kfree),
\* and rp, wp and every copy stay inside what was allocated, unless an open
\* gave the device a larger size than the buffer it has (pipe.c:71-81).
BufferInUse ==
    /\ TypeOK
    /\ \A p \in Procs : mode[p] # {} =>
          allocated # 0 /\ (overrun \/ (rp <= allocated /\ wp <= allocated))
    /\ overrun => buffersize > allocated

\* A reader never sleeps while there is something to read, unless the writer
\* that put it there is about to wake it (scull_p_write's wake_up of inq).
ReadersNotForgotten ==
    (\E p \in Procs : pc[p] = "rsleep") /\ Contents # <<>> =>
        \E q \in Procs : pc[q] \in {"wmoved", "wwake"}

\* A writer sleeps although there is room, and nobody is about to wake it.
WriterForgotten ==
    /\ \E p \in Procs : pc[p] = "wsleep"
    /\ spacefree # 0
    /\ \A q \in Procs : pc[q] \notin {"rmoved", "rwake"}

\* That happens only when the device was opened again while it slept, and
\* nothing has been read since.
ForgottenByOpenOnly == WriterForgotten => ~readSince

\* Nobody is forgotten in inq or outq but a writer by an open
\* (scull_p_open empties the buffer and wakes nobody, pipe.c:81).
SleepersNotForgotten == ReadersNotForgotten /\ ForgottenByOpenOnly

=============================================================================
