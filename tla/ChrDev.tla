------------------------------- MODULE ChrDev -------------------------------
(***************************************************************************)
(* One chardevice: a circular buffer with an explicit count of the bytes   *)
(* in it.  Unlike scull's pipe, a transfer that reaches the end of the     *)
(* buffer goes on at its start, with a second copy to or from user space,  *)
(* and either copy may fail; what is left behind then is modelled in full.  *)
(*                                                                         *)
(* Pointers are offsets from dev->mem, so mem_end is Size - 1.  A process  *)
(* has the device open from the start: open and release change nothing.    *)
(***************************************************************************)
EXTENDS Integers, Sequences

CONSTANTS
    Procs,
    Bytes,
    Zero,       \* the byte 0
    Size,       \* mem_size
    MaxFaults   \* bound on failed copies of transfers in two parts

ASSUME ChrDevAssumption ==
    /\ Size \in Nat /\ Size > 1
    /\ Zero \in Bytes
    /\ MaxFaults \in Nat

VARIABLES
    mem, p_read, p_write, cur_size, sem,   \* the fields of dev
    pc,       \* control of the processes
    rest,     \* what the second copy is to transfer
    ret,      \* what the read under way will return
    got,      \* the bytes copied to a user last
    faults    \* failed copies of transfers in two parts

vars == <<mem, p_read, p_write, cur_size, sem, pc, rest, ret, got, faults>>

Offset == 0 .. Size - 1
Nobody == "nobody"
EFAULT == 14

ASSUME ProcsAssumption == Nobody \notin Procs

Holding == {"rheld", "rhalf", "wheld", "whalf", "wwake"}
Waiting == {"rdown", "rcheck", "rsleep", "wdown", "wcheck", "wsleep"}

TypeOK ==
    /\ mem \in [Offset -> Bytes]
    /\ p_read \in Offset
    /\ p_write \in Offset
    /\ cur_size \in Int
    /\ sem \in Procs \cup {Nobody}
    /\ pc \in [Procs -> {"idle", "rwake"} \cup Holding \cup Waiting]
    /\ rest \in Offset
    /\ ret \in Offset \cup {-EFAULT}
    /\ got \in Seq(Bytes)
    /\ faults \in 0 .. MaxFaults
    /\ \A p \in Procs : pc[p] \in Holding <=> sem = p

Init ==
    /\ mem = [i \in Offset |-> Zero]
    /\ p_read = 0
    /\ p_write = 0
    /\ cur_size = 0
    /\ sem = Nobody
    /\ pc = [p \in Procs |-> "idle"]
    /\ rest = 0
    /\ ret = 0
    /\ got = <<>>
    /\ faults = 0

Goto(p, next) == pc' = [pc EXCEPT ![p] = next]
Down(p)       == sem = Nobody /\ sem' = p
Up            == sem' = Nobody

SplitFault == faults < MaxFaults /\ faults' = faults + 1

\* A pointer that reaches the end goes back to the start.
Moved(pos, n) == IF n = Size - pos THEN 0 ELSE pos + n

\* get_freespace_num: one byte stays free.  (A slip would not keep it.)
FreeAll(r, w) == IF r = w THEN Size ELSE (r + Size - w) % Size
Free(r, w) == IF r = w THEN Size - 1 ELSE ((r + Size - w) % Size) - 1

\* The n bytes of the buffer from pos on, and the buffer with n bytes there.
Slice(pos, n) == [i \in 1 .. n |-> mem[pos + i - 1]]
Filled(pos, n) ==
    {[i \in Offset |-> IF i \in DOMAIN s THEN s[i] ELSE mem[i]] :
        s \in [pos .. pos + n - 1 -> Bytes]}

---------------------------------------------------------------------------
(* Waiting, in chrdev_read and in chrdev_write.                            *)

Start(p) ==
    /\ pc[p] = "idle"
    /\ Goto(p, "rdown") \/ Goto(p, "wdown")
    /\ UNCHANGED <<mem, p_read, p_write, cur_size, sem, rest, ret, got, faults>>

TakeSem(p) ==
    /\ pc[p] \in {"rdown", "wdown"}
    /\ Down(p)
    /\ Goto(p, IF pc[p] = "rdown" THEN "rheld" ELSE "wheld")
    /\ UNCHANGED <<mem, p_read, p_write, cur_size, rest, ret, got, faults>>

Readable == p_read # p_write
Writable == Free(p_read, p_write) # 0

\* Nothing to read, or no space: -EAGAIN, or wait_event_interruptible.
MustWait(p) ==
    /\ \/ pc[p] = "rheld" /\ ~Readable /\ Goto(p, "rcheck")
       \/ pc[p] = "wheld" /\ ~Writable /\ Goto(p, "wcheck")
       \/ pc[p] = "rheld" /\ ~Readable /\ Goto(p, "idle")
       \/ pc[p] = "wheld" /\ ~Writable /\ Goto(p, "idle")
    /\ Up
    /\ UNCHANGED <<mem, p_read, p_write, cur_size, rest, ret, got, faults>>

\* The condition is evaluated without the semaphore.
Check(p) ==
    /\ \/ pc[p] = "rcheck" /\ Goto(p, IF Readable THEN "rdown" ELSE "rsleep")
       \/ pc[p] = "wcheck" /\ Goto(p, IF Writable THEN "wdown" ELSE "wsleep")
    /\ UNCHANGED <<mem, p_read, p_write, cur_size, sem, rest, ret, got, faults>>

\* A signal ends any wait.
Interrupted(p) ==
    /\ pc[p] \in Waiting
    /\ Goto(p, "idle")
    /\ UNCHANGED <<mem, p_read, p_write, cur_size, sem, rest, ret, got, faults>>

---------------------------------------------------------------------------
(* chrdev_read, with something to read.                                    *)

ReadToEnd == Size - p_read

\* All of it lies before the end of the buffer, or before p_write.
ReadOnce(p, n) ==
    /\ pc[p] = "rheld"
    /\ Readable
    /\ n <= IF p_read < p_write THEN p_write - p_read ELSE ReadToEnd
    /\ got' = Slice(p_read, n)
    /\ p_read' = Moved(p_read, n)
    /\ cur_size' = cur_size - n
    /\ Up
    /\ Goto(p, "rwake")
    /\ UNCHANGED <<mem, p_write, rest, ret, faults>>

\* The first part of two: p_read goes back to the start even if it failed.
ReadFirst(p, n) ==
    /\ pc[p] = "rheld"
    /\ p_read > p_write
    /\ n > ReadToEnd
    /\ \/ /\ got' = Slice(p_read, ReadToEnd)
          /\ ret' = ReadToEnd
          /\ UNCHANGED faults
       \/ /\ SplitFault
          /\ ret' = -EFAULT
          /\ UNCHANGED got
    /\ p_read' = 0
    /\ rest' = IF n - ReadToEnd < p_write THEN n - ReadToEnd ELSE p_write
    /\ Goto(p, "rhalf")
    /\ UNCHANGED <<mem, p_write, cur_size, sem>>

\* cur_size -= ret, whatever ret has become.
ReadSecond(p) ==
    /\ pc[p] = "rhalf"
    /\ \/ /\ got' = Slice(p_read, rest)
          /\ cur_size' = cur_size - (ret + rest)
          /\ p_read' = p_read + rest
          /\ UNCHANGED faults
       \/ /\ rest > 0
          /\ SplitFault
          /\ UNCHANGED <<got, cur_size, p_read>>
    /\ Up
    /\ Goto(p, "rwake")
    /\ UNCHANGED <<mem, p_write, rest, ret>>

\* wake_up_interruptible(&dev->write_queue), after the semaphore was released.
ReadWake(p) ==
    /\ pc[p] = "rwake"
    /\ pc' = [q \in Procs |-> IF q = p THEN "idle"
                              ELSE IF pc[q] = "wsleep" THEN "wcheck" ELSE pc[q]]
    /\ UNCHANGED <<mem, p_read, p_write, cur_size, sem, rest, ret, got, faults>>

---------------------------------------------------------------------------
(* chrdev_write, with space to write.                                      *)

WriteToEnd == Size - p_write

\* cur_size += to_end_count.  (A slip: only once both parts are written.)
CountLater(n) == 0
CountNow(n) == n

WriteOnce(p, n) ==
    /\ pc[p] = "wheld"
    /\ n <= Free(p_read, p_write)
    /\ p_read <= p_write => n <= WriteToEnd
    /\ mem' \in Filled(p_write, n)
    /\ p_write' = Moved(p_write, n)
    /\ cur_size' = cur_size + n
    /\ Goto(p, "wwake")
    /\ UNCHANGED <<p_read, sem, rest, ret, got, faults>>

\* p_write goes back to the start even if the copy failed; a copy from user
\* space that fails has filled the buffer in part, or with 0.
WriteFirst(p, n) ==
    /\ pc[p] = "wheld"
    /\ n <= Free(p_read, p_write)
    /\ p_read <= p_write
    /\ n > WriteToEnd
    /\ mem' \in Filled(p_write, WriteToEnd)
    /\ \/ /\ cur_size' = cur_size + CountNow(WriteToEnd)
          /\ UNCHANGED faults
       \/ /\ SplitFault
          /\ UNCHANGED cur_size
    /\ p_write' = 0
    /\ rest' = n - WriteToEnd
    /\ Goto(p, "whalf")
    /\ UNCHANGED <<p_read, sem, ret, got>>

WriteSecond(p) ==
    /\ pc[p] = "whalf"
    /\ mem' \in Filled(p_write, rest)
    /\ \/ /\ p_write' = p_write + rest
          /\ cur_size' = cur_size + rest
          /\ UNCHANGED faults
       \/ /\ SplitFault
          /\ UNCHANGED <<p_write, cur_size>>
    /\ Goto(p, "wwake")
    /\ UNCHANGED <<p_read, sem, rest, ret, got>>

\* wake_up_interruptible(&dev->read_queue).  (A slip would not.)
NoReaderWoken(state) == state
ReaderWoken(state) == IF state = "rsleep" THEN "rcheck" ELSE state

WriteWake(p) ==
    /\ pc[p] = "wwake"
    /\ pc' = [q \in Procs |-> IF q = p THEN "idle" ELSE ReaderWoken(pc[q])]
    /\ Up
    /\ UNCHANGED <<mem, p_read, p_write, cur_size, rest, ret, got, faults>>

\* The only copy of a transfer in one part fails: no pointer moves, but the
\* other side is woken all the same.
ReadFault(p) ==
    /\ pc[p] = "rheld"
    /\ Readable
    /\ Up
    /\ Goto(p, "rwake")
    /\ UNCHANGED <<mem, p_read, p_write, cur_size, rest, ret, got, faults>>

WriteFault(p, n) ==
    /\ pc[p] = "wheld"
    /\ n \in 1 .. Free(p_read, p_write)
    /\ p_read <= p_write => n <= WriteToEnd
    /\ mem' \in Filled(p_write, n)
    /\ Goto(p, "wwake")
    /\ UNCHANGED <<p_read, p_write, cur_size, sem, rest, ret, got, faults>>

---------------------------------------------------------------------------
\* CHRDEV_IOC_BUFCLEAR: the bytes become 0, and remain as many.
BufClear(p) ==
    /\ pc[p] = "idle"
    /\ sem = Nobody
    /\ mem' = [i \in Offset |-> Zero]
    /\ UNCHANGED <<p_read, p_write, cur_size, sem, pc, rest, ret, got, faults>>

Next ==
    \E p \in Procs :
        \/ Start(p) \/ TakeSem(p) \/ MustWait(p) \/ Check(p) \/ Interrupted(p)
        \/ \E n \in 0 .. Size : ReadOnce(p, n) \/ ReadFirst(p, n)
        \/ ReadSecond(p) \/ ReadWake(p)
        \/ \E n \in 0 .. Size :
              WriteOnce(p, n) \/ WriteFirst(p, n) \/ WriteFault(p, n)
        \/ WriteSecond(p) \/ WriteWake(p) \/ ReadFault(p) \/ BufClear(p)

Spec == Init /\ [][Next]_vars

---------------------------------------------------------------------------
(* What the device promises.                                               *)

\* The bytes between p_read and p_write.
Distance == (p_write + Size - p_read) % Size
Contents == [i \in 1 .. Distance |-> mem[(p_read + i - 1) % Size]]

\* Until the copy of one of two parts fails, reads return what was written,
\* in order; only BUFCLEAR changes bytes, to 0 (chrdev_read, chrdev_write).
Fifo == INSTANCE ByteFifo WITH queue <- Contents, Capacity <- Size - 1,
                               files <- 0
FifoSteps ==
    [][Fifo!Next \/ faults' # 0 \/ \E p \in Procs : BufClear(p)]_<<Contents, got>>

\* Nobody sleeps while it could go on, unless it is about to be woken, and
\* that whatever copy has failed (the wake_up at the end of each).
SleepersNotForgotten ==
    /\ (\E p \in Procs : pc[p] = "rsleep") /\ Readable =>
           \E q \in Procs : pc[q] \in {"whalf", "wwake", "rhalf"}
    /\ (\E p \in Procs : pc[p] = "wsleep") /\ Writable =>
           \E q \in Procs : pc[q] \in {"rhalf", "rwake", "whalf"}

\* cur_size is how much there is to read, as long as no copy of one of two
\* parts has failed (what CHRDEV_IOC_SIZE tells the user).
CountExact == sem = Nobody /\ faults = 0 => cur_size = Distance

=============================================================================
