------------------------------ MODULE ShortIrq ------------------------------
(***************************************************************************)
(* short: every interrupt leaves a line with its time in a circular text   *)
(* buffer, written by the handler itself or by a bottom half that empties  *)
(* a ring of times.  All lines have 16 bytes and the page is a multiple of *)
(* that, so that the buffer is counted in lines.  Nothing is locked: the   *)
(* bottom half and the readers may be on other processors than the         *)
(* handler, and readers are not kept apart.                                *)
(***************************************************************************)
EXTENDS Integers, Sequences, SequencesExt

CONSTANTS
    ShReaders,
    ShPage,      \* lines in the buffer
    ShRing,      \* NR_TIMEVAL
    MaxTime      \* bound: interrupts

ASSUME ShortAssumption == {ShPage, ShRing, MaxTime} \subseteq Nat \ {0, 1}

VARIABLES
    halves,      \* is there a bottom half (wq or tasklet)
    time,        \* the last interrupt
    line, shHead, shTail,          \* short_buffer, short_head, short_tail
    tv, tvHead, tvTail,        \* tv_data
    wqCount, shQueued,           \* short_wq_count; is the bottom half scheduled
    th,          \* the top half: about to add 1 to the count, or what it has read
    bh,          \* the bottom half
    rd,          \* the readers
    told,        \* history: what the readers were given
    unread,      \* history: lines written since the last one read
    printed,     \* history: the sum of the counts printed
    recounted,   \* history: the sum of what was stored again after a reset
    lost,        \* history: head has run into tail, in either ring
    again,       \* history: the bottom half ran and had nothing to do
    shared       \* history: two readers were past the look at the same time

shVars == <<halves, time, line, shHead, shTail, tv, tvHead, tvTail, wqCount, shQueued, th,
            bh, rd, told, unread, printed, recounted, lost, again, shared>>
shRings == <<line, shHead, unread, tvHead, tvTail, tv, lost>>

\* short_incr_bp.
Incr(i, n) == IF i + n >= ShPage THEN 0 ELSE i + n
NextTv(i) == (i + 1) % ShRing

ThOff == [pc |-> "off", n |-> 0, stale |-> FALSE]

ShInit ==
    /\ halves \in BOOLEAN
    /\ time = 0 /\ wqCount = 0 /\ printed = 0 /\ shQueued = FALSE
    /\ line = [i \in 0 .. ShPage - 1 |-> 0] /\ shHead = 0 /\ shTail = 0
    /\ tv = [i \in 0 .. ShRing - 1 |-> 0] /\ tvHead = 0 /\ tvTail = 0
    /\ bh = [pc |-> "off", saved |-> 0]
    /\ th = ThOff /\ recounted = 0
    /\ rd = [r \in ShReaders |-> [pc |-> "out", n |-> 0]]
    /\ told = <<>> /\ unread = 0
    /\ lost = FALSE /\ again = FALSE /\ shared = FALSE

\* One line is written; 0 stands for "bh after ...".
Write(t) ==
    /\ line' = [line EXCEPT ![shHead] = t]
    /\ shHead' = Incr(shHead, 1) /\ unread' = unread + 1

\* prepare_to_wait looks again, so that the wake-up is not needed by anybody
\* who has not slept yet.  (A slip: no wake-up.)
WakeNobody == UNCHANGED rd
Wake == rd' = [r \in ShReaders |-> IF rd[r].pc = "asleep" THEN [rd[r] EXCEPT !.pc = "look"] ELSE rd[r]]

-----------------------------------------------------------------------------
\* short_interrupt
Handler(t) ==
    /\ ~halves /\ time' = t
    /\ Write(t) /\ lost' = (lost \/ unread + 1 = ShPage)
    /\ Wake
    /\ UNCHANGED <<halves, shTail, tv, tvHead, tvTail, wqCount, shQueued, th, bh, told, printed,
                   recounted, again, shared>>

\* short_wq_interrupt and short_tl_interrupt, until the bottom half is scheduled
TopHalf(t) ==
    /\ halves /\ time' = t
    /\ th.pc = "off" /\ th' = [th EXCEPT !.pc = "read"]
    /\ tv' = [tv EXCEPT ![tvHead] = t] /\ tvHead' = NextTv(tvHead)
    /\ lost' = (lost \/ NextTv(tvHead) = tvTail)
    /\ shQueued' = TRUE
    /\ UNCHANGED <<halves, line, shHead, shTail, tvTail, wqCount, bh, rd, told, unread, printed,
                   recounted, again, shared>>

\* ... and short_wq_count++, a read and a write that the reset may come between.
TopCount ==
    /\ \/ /\ th.pc = "read" /\ th' = [pc |-> "store", n |-> wqCount, stale |-> FALSE]
          /\ UNCHANGED <<wqCount, recounted>>
       \/ /\ th.pc = "store" /\ th' = ThOff
          /\ wqCount' = th.n + 1
          /\ recounted' = recounted + IF th.stale THEN th.n ELSE 0
    /\ UNCHANGED <<halves, time, line, shHead, shTail, tv, tvHead, tvTail, shQueued, bh, rd, told,
                   unread, printed, lost, again, shared>>

-----------------------------------------------------------------------------
\* short_do_tasklet.  It is off the queue before it runs, and the count is
\* read before it is reset.
BhStart ==
    /\ bh.pc = "off" /\ shQueued /\ shQueued' = FALSE
    /\ bh' = [pc |-> "reset", saved |-> wqCount]
    /\ again' = (again \/ tvTail = tvHead)
    /\ UNCHANGED <<shRings, wqCount, th, rd, printed>>

NoCount == 0

BhReset ==
    /\ bh.pc = "reset" /\ wqCount' = NoCount
    /\ th' = [th EXCEPT !.stale = (th.pc = "store")]
    /\ Write(0) /\ lost' = (lost \/ unread + 1 = ShPage)
    /\ printed' = printed + bh.saved
    /\ bh' = [bh EXCEPT !.pc = "loop"]
    /\ UNCHANGED <<tv, tvHead, tvTail, shQueued, rd, again>>

\* The loop looks whether there is more after the first.
More == NextTv(tvTail) # tvHead

BhLine ==
    /\ bh.pc = "loop"
    /\ Write(tv[tvTail]) /\ lost' = (lost \/ unread + 1 = ShPage)
    /\ tvTail' = NextTv(tvTail)
    /\ bh' = [bh EXCEPT !.pc = IF More THEN "loop" ELSE "wake"]
    /\ UNCHANGED <<tv, tvHead, wqCount, shQueued, th, rd, printed, again>>

BhWake ==
    /\ bh.pc = "wake" /\ Wake /\ bh' = [pc |-> "off", saved |-> 0]
    /\ UNCHANGED <<shRings, wqCount, shQueued, th, printed, again>>

BottomHalf ==
    /\ BhStart \/ BhReset \/ BhLine \/ BhWake
    /\ UNCHANGED <<halves, time, shTail, told, recounted, shared>>

-----------------------------------------------------------------------------
\* short_i_read; n is the count of the caller, and then what is copied.
Go(r, pc, n) == rd' = [rd EXCEPT ![r] = [pc |-> pc, n |-> n]]

\* (A slip: all that is unread is taken to lie in one piece.)
OnePiece == (shHead - shTail) % ShPage
Readable == IF shHead < shTail THEN ShPage - shTail ELSE shHead - shTail

Read(r) ==
    \/ /\ rd[r].pc = "out" /\ \E n \in 1 .. ShPage : Go(r, "look", n)
       /\ UNCHANGED <<shTail, told, unread, shared>>
    \/ /\ rd[r].pc = "look"
       /\ Go(r, IF shHead = shTail THEN "asleep" ELSE "count", rd[r].n)
       /\ UNCHANGED <<shTail, told, unread, shared>>
    \/ /\ rd[r].pc \in {"asleep", "copy"} /\ Go(r, "out", 0)    \* a signal, a fault
       /\ UNCHANGED <<shTail, told, unread, shared>>
    \/ /\ rd[r].pc = "count"
       /\ Go(r, "copy", IF Readable < rd[r].n THEN Readable ELSE rd[r].n)
       /\ shared' = (shared \/ \E o \in ShReaders \ {r} : rd[o].pc \in {"count", "copy", "advance"})
       /\ UNCHANGED <<shTail, told, unread>>
    \/ /\ rd[r].pc = "copy"
       /\ told' = told \o [i \in 1 .. rd[r].n |-> line[(shTail + i - 1) % ShPage]]
       /\ Go(r, "advance", rd[r].n)
       /\ UNCHANGED <<shTail, unread, shared>>
    \/ /\ rd[r].pc = "advance"
       /\ shTail' = Incr(shTail, rd[r].n) /\ unread' = unread - rd[r].n
       /\ Go(r, "out", 0)
       /\ UNCHANGED <<told, shared>>

\* After an overrun or a race of readers the buffer holds anything.
ShRunning == ~lost /\ ~shared

ShNext ==
    /\ ShRunning
    /\ \/ time < MaxTime /\ (Handler(time + 1) \/ TopHalf(time + 1))
       \/ TopCount \/ BottomHalf
       \/ \E r \in ShReaders :
             /\ Read(r)
             /\ UNCHANGED <<halves, time, line, shHead, tv, tvHead, tvTail, wqCount, shQueued, th,
                            bh, printed, recounted, lost, again>>

ShSpec == ShInit /\ [][ShNext]_shVars

-----------------------------------------------------------------------------
\* Head and tail stay in their rings.
ShTypeOK ==
    /\ shHead \in 0 .. ShPage - 1 /\ shTail \in 0 .. ShPage - 1
    /\ tvHead \in 0 .. ShRing - 1 /\ tvTail \in 0 .. ShRing - 1

\* The readers are given the times of the interrupts in their order, each
\* once and none left out, as long as readers do not race, no ring is overrun,
\* and the bottom half is not run a second time for interrupts it has already
\* dealt with.
Times == {i \in DOMAIN told : told[i] # 0}
ShTimesInOrder ==
    ShRunning /\ ~again =>
        /\ \A i, j \in Times : i < j => told[i] < told[j]
        /\ \A i \in Times : told[i] = 1 \/ \E j \in Times : told[j] = told[i] - 1

\* A reader does not sleep while there are lines, except while the bottom
\* half is still at work on them.
ShReadersNotForgotten ==
    (\E r \in ShReaders : rd[r].pc = "asleep") /\ ShRunning => shHead = shTail \/ bh.pc # "off"

\* "bh after N": an interrupt that comes between the reading of the count and
\* its reset (short.c:384-385) is not counted, and none is counted twice, but
\* those that a handler had read before a reset and stores again after it
\* (short.c:422, 436).
ShCountsNoMore == printed + wqCount <= time + recounted

-----------------------------------------------------------------------------
(***************************************************************************)
(* shortprint: writers put bytes into a ring, a work queue hands them to   *)
(* the printer one by one, each on the interrupt for the one before, and a *)
(* timer stands in for interrupts that do not come.  The lock covers       *)
(* output_active and the tail, but the timer looks at output_active before *)
(* it has the lock, and the head moves without it.                         *)
(***************************************************************************)

CONSTANTS
    SpWriters,
    SpPage,
    MaxBytes     \* bound: bytes ever written

\* The ring is a page (PAGE_SIZE): with two cells it could not be more than
\* half free, and a writer that sleeps would not be woken.
ASSUME ShortPrintAssumption == SpPage \in Nat \ {0, 1, 2} /\ MaxBytes \in Nat

VARIABLES
    cells, spHead, spTail,   \* shortp_out_buffer, _head, _tail
    active, spTimer,       \* shortp_output_active; is the timer pending
    spQueued,              \* is the work in the queue
    worker, tm,          \* "off", or where the work and the timer function are
    owed,                \* interrupts the printer will send or lose
    w,                   \* the writers: pc, and the bytes they have left
    closer,              \* a process in shortp_release
    put, out,            \* history: bytes accepted; what was printed
    spDouble,              \* history: add_timer found the timer pending
    spLate                 \* history: the timer was set while output was not
                         \* active, or by its function while it was pending

spVars == <<cells, spHead, spTail, active, spTimer, spQueued, worker, tm, owed, w, closer, put, out, spDouble, spLate>>

SpInit ==
    /\ cells = [i \in 0 .. SpPage - 1 |-> 0] /\ spHead = 0 /\ spTail = 0
    /\ active = FALSE /\ spTimer = FALSE /\ spQueued = FALSE
    /\ worker = "off" /\ tm = "off" /\ owed = 0
    /\ w = [t \in SpWriters |-> [pc |-> "out", left |-> 0]]
    /\ closer = "out" /\ put = 0 /\ out = <<>> /\ spDouble = FALSE /\ spLate = FALSE

\* shortp_out_space.
OutSpace == IF spHead >= spTail THEN SpPage - spHead - (IF spTail = 0 THEN 1 ELSE 0) ELSE spTail - spHead - 1

W(t, pc, left) == w' = [w EXCEPT ![t] = [pc |-> pc, left |-> left]]
OutSem == \A t \in SpWriters : w[t].pc = "out"

-----------------------------------------------------------------------------
(* shortp_write and shortp_release                                         *)

Begin(t) ==
    /\ w[t].pc = "out" /\ OutSem
    /\ \E n \in 1 .. MaxBytes - put : W(t, "space", n)
    /\ UNCHANGED <<cells, spHead, active, spTimer, spQueued, closer, put, spDouble>>

\* The bytes are in place before the head moves; a fault ends the call.
Move(t) ==
    /\ w[t].pc = "space"
    /\ LET n == IF OutSpace > w[t].left THEN w[t].left ELSE OutSpace
       IN \/ /\ OutSpace <= 0 /\ W(t, "asleep", w[t].left)
             /\ UNCHANGED <<cells, spHead, put>>
          \/ /\ OutSpace > 0
             /\ cells' = [i \in DOMAIN cells |->
                             IF i \in spHead .. spHead + n - 1 THEN put + 1 + i - spHead ELSE cells[i]]
             /\ spHead' = (spHead + n) % SpPage /\ put' = put + n
             /\ W(t, "start", w[t].left - n)
          \/ /\ OutSpace > 0 /\ W(t, "out", 0)
             /\ UNCHANGED <<cells, spHead, put>>
    /\ UNCHANGED <<active, spTimer, spQueued, closer, spDouble>>

\* Under the lock; shortp_start_output.
IfActive(t) == active

Start(t) ==
    /\ w[t].pc = "start"
    /\ IF IfActive(t) THEN UNCHANGED <<active, spTimer, spQueued, spDouble>>
       ELSE /\ active' = TRUE /\ spTimer' = TRUE /\ spQueued' = TRUE
            /\ spDouble' = (spDouble \/ spTimer)
    /\ W(t, IF w[t].left > 0 THEN "space" ELSE "out", w[t].left)
    /\ UNCHANGED <<cells, spHead, closer, put>>

\* A signal may end a sleep.
Interrupted(t) ==
    /\ w[t].pc = "asleep" /\ W(t, "out", 0)
    /\ UNCHANGED <<cells, spHead, active, spTimer, spQueued, closer, put, spDouble>>

SpRelease ==
    /\ \/ closer = "out" /\ closer' = "look"
       \/ closer = "look" /\ closer' = IF active THEN "asleep" ELSE "out"
       \/ closer = "asleep" /\ closer' = "out"
    /\ UNCHANGED <<cells, spHead, active, spTimer, spQueued, w, put, spDouble>>

Process ==
    /\ (\E t \in SpWriters : Begin(t) \/ Move(t) \/ Start(t) \/ Interrupted(t)) \/ SpRelease
    /\ UNCHANGED <<spTail, worker, tm, owed, out, spLate>>

-----------------------------------------------------------------------------
\* shortp_do_work; it waits for the printer before it takes the lock.
HalfFree(i) == (SpPage + i - spHead) % SpPage > SpPage \div 2

NextTail == (spTail + 1) % SpPage

NoTimer == FALSE
Awake == IF closer = "asleep" THEN "look" ELSE closer

Work ==
    \/ /\ worker = "off" /\ spQueued
       /\ spQueued' = FALSE /\ worker' = "wait"
       /\ UNCHANGED <<spTail, active, spTimer, owed, w, closer, out, spLate>>
    \/ /\ worker = "wait" /\ worker' = "off"
       /\ IF spHead = spTail
            THEN /\ active' = FALSE /\ spTimer' = NoTimer /\ closer' = Awake
                 /\ UNCHANGED <<spTail, owed, out, spLate>>
            ELSE /\ spTimer' = TRUE /\ out' = Append(out, cells[spTail]) /\ spTail' = NextTail
                 /\ owed' = owed + 1 /\ spLate' = (spLate \/ ~active)
                 /\ UNCHANGED <<active, closer>>
       /\ w' = [t \in SpWriters |-> IF w[t].pc = "asleep" /\ HalfFree(spTail')
                                      THEN [w[t] EXCEPT !.pc = "space"] ELSE w[t]]
       /\ UNCHANGED spQueued

\* shortp_interrupt, or an interrupt that is lost
Irq ==
    /\ owed > 0 /\ owed' = owed - 1
    /\ spQueued' = (spQueued \/ active) \/ UNCHANGED spQueued
    /\ UNCHANGED <<spTimer, tm, spDouble, spLate>>

\* shortp_timeout, to its lock and from there.  A printer that is still busy
\* gets more time.  (A slip: the timer is not set again.)
NoMoreTime == FALSE
MoreTime == TRUE

SpTimeout ==
    \/ /\ tm = "off" /\ spTimer
       /\ spTimer' = FALSE /\ tm' = IF active THEN "lock" ELSE "off"
       /\ UNCHANGED <<spQueued, spDouble, spLate>>
    \/ /\ tm = "lock" /\ tm' = "off"
       /\ \/ /\ spTimer' = MoreTime /\ spDouble' = (spDouble \/ spTimer)
             /\ spLate' = (spLate \/ spTimer \/ ~active)
             /\ UNCHANGED spQueued
          \/ /\ spQueued' = (spQueued \/ active)
             /\ UNCHANGED <<spTimer, spDouble, spLate>>

SpNext ==
    /\ ~spDouble                     \* add_timer of a pending timer is a BUG
    /\ \/ Process
       \/ Work /\ UNCHANGED <<cells, spHead, tm, put, spDouble>>
       \/ /\ Irq \/ (SpTimeout /\ UNCHANGED owed)
          /\ UNCHANGED <<cells, spHead, spTail, active, worker, w, closer, put, out>>

SpSpec == SpInit /\ [][SpNext]_spVars

-----------------------------------------------------------------------------
SpTypeOK ==
    /\ spHead \in 0 .. SpPage - 1 /\ spTail \in 0 .. SpPage - 1
    /\ \A s, t \in SpWriters : s # t => w[s].pc = "out" \/ w[t].pc = "out"

\* The bytes come out as they were accepted, each once and in order.
SpPrintsInOrder == out = [i \in 1 .. Len(out) |-> i]

\* Bytes in the ring are on their way: output is active, or the writer that
\* put them there has yet to take the lock and start it.
SpOutputStarted == spHead # spTail => active \/ \E t \in SpWriters : w[t].pc = "start"

\* While output is active something will come for the next byte even if all
\* interrupts are lost: the work is queued or running, or the timer is
\* pending or its function about to decide.
SpSomethingComing == active => spQueued \/ worker # "off" \/ spTimer \/ tm # "off"

\* Nobody sleeps without a cause: a writer because bytes are still going out,
\* a process in shortp_release because output is active.
SpSleepersNotForgotten ==
    /\ (\E t \in SpWriters : w[t].pc = "asleep") => spHead # spTail /\ active
    /\ closer = "asleep" => active

\* "When output is active, the timer is too ... Hold shortp_out_lock if you
\* mess with the timer" (shortprint.c:146).  add_timer meets a pending timer,
\* a BUG, only because the timer function decides on what it read before it
\* had the lock (shortprint.c:384), or because the work was queued twice and
\* its second run finds bytes whose writer has not started output yet.
SpTimerAddedOnce == spDouble => spLate
=============================================================================
