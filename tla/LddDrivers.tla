----------------------------- MODULE LddDrivers -----------------------------
(***************************************************************************)
(* Two drivers of ldd3_codes that share nothing: snull, and then sbull.    *)
(*                                                                         *)
(* snull: two network interfaces, each of which receives what the other    *)
(* one sends.  A packet travels in a buffer of the sender's pool, which    *)
(* the receiver gives back; the sender's queue is stopped while the pool   *)
(* is empty.  "Interrupts" are calls by whoever sends, so that two         *)
(* processors may be in one device at a time; the lock does not cover the  *)
(* |= on status, nor the look at pkt->next after a buffer was given back.  *)
(*                                                                         *)
(* A thread of a device is its transmit path, which the kernel serialises  *)
(* with its watchdog; with NAPI each device has a poll function besides.   *)
(***************************************************************************)
EXTENDS Integers, Sequences, FiniteSets, SequencesExt

CONSTANTS
    Loads,       \* pairs: a pool_size, and the devices somebody sends with
    Quota        \* packets that one poll may handle

ASSUME SnullAssumption ==
    /\ Quota \in Nat \ {0}
    /\ Loads \subseteq (Nat \ {0}) \X SUBSET {0, 1} /\ IsFiniteSet(Loads)

Devs     == {0, 1}           \* snull_devs
Twin(d)  == 1 - d
Owner(p) == p[1]             \* pkt->dev
NoPacket == <<>>

VARIABLES
    load,        \* the member of Loads this is
    napi,        \* use_napi
    ppool,       \* the stack of free buffers of each device
    rxQueue,     \* the stack of packets that have arrived
    bottom,      \* the buffers whose next is NULL
    status, rxInt, stopped, up,
    skb,         \* the last skb of each device: held or freed
    tx, poll,    \* threads: their control, the buffer in hand, and so on
    torn,        \* history: a |= on status wrote back an old value, or the
                 \* watchdog dropped a bit
    forced,      \* history: devices started by the watchdog or by open while
                 \* some of their buffers were away, or just coming back, or by
                 \* the return of a buffer that had already been taken again
    early,       \* history: the watchdog came although no skb was on its way, or
                 \* a transmission began with the bit of a locked-up one set
    lockedUp,    \* history: devices stopped by lockup, and not started since
    missed,      \* history: devices to which a packet came between the last look
                 \* of a poll and the enabling of interrupts, until the next poll
    deaf         \* history: devices whose receive interrupts were disabled for a
                 \* poll while they were down: nothing enables them again

snVars == <<load, napi, ppool, rxQueue, bottom, status, rxInt, stopped, up, skb, tx, poll,
            torn, forced, early, lockedUp, missed, deaf>>

Packets == Devs \X (1 .. load[1])

Idle == [pc |-> "idle", hand |-> NoPacket, seen |-> {}, next |-> "idle"]
Off  == [pc |-> "off", hand |-> NoPacket, count |-> 0, sched |-> FALSE]

SnTypeOK ==
    /\ \A d \in Devs : /\ ToSet(ppool[d]) \subseteq {d} \X (1 .. load[1])
                       /\ ToSet(rxQueue[d]) \subseteq Packets
                       /\ status[d] \subseteq {"RX", "TX"}
                       /\ tx[d].hand \in Packets \cup {NoPacket}
                       /\ poll[d].hand \in Packets \cup {NoPacket}
    /\ bottom \subseteq Packets /\ stopped \subseteq Devs /\ up \subseteq Devs
    /\ rxInt \subseteq Devs
    /\ ~napi => rxInt = Devs /\ \A d \in Devs : poll[d] = Off

SnInit ==
    /\ load \in Loads /\ napi \in BOOLEAN
    /\ ppool = [d \in Devs |-> [i \in 1 .. load[1] |-> <<d, i>>]]
    /\ rxQueue = [d \in Devs |-> <<>>]
    /\ bottom = {<<d, load[1]>> : d \in Devs}
    /\ status = [d \in Devs |-> {}]
    /\ rxInt = Devs /\ stopped = {} /\ up = Devs
    /\ skb = [d \in Devs |-> "none"]
    /\ tx = [d \in Devs |-> Idle] /\ poll = [d \in Devs |-> Off]
    /\ torn = FALSE /\ forced = {} /\ early = FALSE /\ lockedUp = {} /\ missed = {}
    /\ deaf = {}

TxTo(d, pc) == tx' = [tx EXCEPT ![d].pc = pc]

-----------------------------------------------------------------------------
(* Buffers.                                                                *)

\* snull_get_tx_buffer.
StopIfEmpty(d) == IF Len(ppool[d]) = 1 THEN stopped \cup {d} ELSE stopped

GetTxBuffer(d) ==
    /\ tx[d].pc = "buffer"
    /\ IF ppool[d] = <<>>
         THEN /\ TxTo(d, "oops")      \* NULL->next
              /\ UNCHANGED <<ppool, stopped>>
         ELSE /\ tx' = [tx EXCEPT ![d].pc = "enqueue", ![d].hand = Head(ppool[d])]
              /\ ppool' = [ppool EXCEPT ![d] = Tail(@)]
              /\ stopped' = StopIfEmpty(d)
    /\ UNCHANGED <<napi, rxQueue, bottom, status, rxInt, up, skb, poll, torn, forced, early, lockedUp, missed, deaf>>

\* snull_release_buffer, to the unlock: back to the pool it came from.
Chained(p, list) == IF list = <<>> THEN bottom \cup {p} ELSE bottom \ {p}
PoolOf(p) == Owner(p)

\* (A slip: the buffer is not linked to those that are there.)
Unlinked(p) ==
    /\ ppool' = [ppool EXCEPT ![PoolOf(p)] = <<p>>]
    /\ bottom' = Chained(p, ppool[PoolOf(p)])

GiveBack(p) ==
    /\ ppool' = [ppool EXCEPT ![PoolOf(p)] = <<p>> \o @]
    /\ bottom' = Chained(p, ppool[PoolOf(p)])

\* ... and after it.
WakeIfFirst(p) == IF p \in bottom THEN stopped \ {Owner(p)} ELSE stopped

WakeUp(p) ==
    /\ stopped' = WakeIfFirst(p)
    /\ forced' = IF ppool[Owner(p)] = <<>> THEN forced \cup {Owner(p)} ELSE forced

Enqueue(d) ==
    /\ tx[d].pc = "enqueue"
    /\ rxQueue' = [rxQueue EXCEPT ![Twin(d)] = <<tx[d].hand>> \o @]
    /\ bottom' = Chained(tx[d].hand, rxQueue[Twin(d)])
    /\ tx' = [tx EXCEPT ![d].hand = NoPacket,
                        ![d].pc = "rxcheck"]
    /\ UNCHANGED <<napi, ppool, status, rxInt, stopped, up, skb, poll, torn, forced, early, lockedUp, missed, deaf>>

-----------------------------------------------------------------------------
(* Interrupts.                                                             *)

\* status |= bit, outside the lock: read, then write.
Raise(d, here, dev, bit, there) ==
    \/ /\ tx[d].pc = here /\ tx[d].next # here
       /\ tx' = [tx EXCEPT ![d].seen = status[dev], ![d].next = here]
       /\ UNCHANGED <<status, torn>>
    \/ /\ tx[d].pc = here /\ tx[d].next = here
       /\ status' = [status EXCEPT ![dev] = tx[d].seen \cup {bit}]
       /\ torn' = (torn \/ status[dev] # tx[d].seen)
       /\ tx' = [tx EXCEPT ![d].pc = there, ![d].seen = {}, ![d].next = "idle"]

Cleared(dev) == {}

\* netif_rx_schedule(dev) does nothing for an interface that is down.
RxSchedule(dev) == poll' = IF dev \in up THEN [poll EXCEPT ![dev].sched = TRUE] ELSE poll

\* The handlers, to the unlock; the thread of d goes on at next, perhaps
\* with a buffer to give back first.
Interrupt(d, here, dev, next) ==
    LET rx == "RX" \in status[dev] /\ ~napi /\ rxQueue[dev] # <<>>
    IN /\ tx[d].pc = here
       /\ status' = [status EXCEPT ![dev] = Cleared(dev)]
       /\ IF rx
            THEN /\ tx' = [tx EXCEPT ![d].pc = "free", ![d].next = next,
                                     ![d].hand = Head(rxQueue[dev])]
                 /\ rxQueue' = [rxQueue EXCEPT ![dev] = Tail(@)]
            ELSE TxTo(d, next) /\ UNCHANGED rxQueue
       /\ IF "RX" \in status[dev] /\ napi
            THEN /\ rxInt' = rxInt \ {dev} /\ RxSchedule(dev)
                 /\ missed' = IF dev \in up THEN missed \ {dev} ELSE missed
                 /\ deaf' = IF dev \in up THEN deaf ELSE deaf \cup {dev}
            ELSE UNCHANGED <<rxInt, poll, missed, deaf>>
       /\ skb' = IF "TX" \in status[dev]
                   THEN [skb EXCEPT ![dev] = IF @ = "held" THEN "freed" ELSE "twice"]
                   ELSE skb
       /\ UNCHANGED <<napi, ppool, bottom, stopped, up, torn, forced, early, lockedUp>>

AfterInterrupt(d) ==
    \/ /\ tx[d].pc = "free"
       /\ GiveBack(tx[d].hand)
       /\ TxTo(d, "wake")
       /\ UNCHANGED <<stopped, forced>>
    \/ /\ tx[d].pc = "wake"
       /\ WakeUp(tx[d].hand)
       /\ tx' = [tx EXCEPT ![d].pc = tx[d].next, ![d].hand = NoPacket, ![d].next = "idle"]
       /\ UNCHANGED <<ppool, bottom>>

-----------------------------------------------------------------------------
(* snull_tx and snull_hw_tx; lockup may drop the transmit interrupt.       *)

StartTx(d) ==
    /\ tx[d].pc = "idle" /\ d \in (load[2] \cap up) \ stopped
    /\ skb' = [skb EXCEPT ![d] = "held"]
    /\ early' = (early \/ "TX" \in status[d])
    /\ TxTo(d, "buffer")
    /\ UNCHANGED <<napi, ppool, rxQueue, bottom, status, rxInt, stopped, up, poll, torn, forced, lockedUp, missed, deaf>>

RxEnabled(d) ==
    /\ tx[d].pc = "rxcheck"
    /\ TxTo(d, IF Twin(d) \in rxInt THEN "rxraise" ELSE "txraise")
    /\ missed' = IF Twin(d) \notin rxInt /\ poll[Twin(d)].pc = "enable" THEN missed \cup {Twin(d)} ELSE missed
    /\ UNCHANGED <<napi, ppool, rxQueue, bottom, status, rxInt, stopped, up, skb, poll, torn, forced, early, lockedUp, deaf>>

Lockup(d) ==
    /\ tx[d].pc = "txdone"
    /\ stopped' = stopped \cup {d}
    /\ TxTo(d, "idle")
    /\ lockedUp' = lockedUp \cup {d}
    /\ UNCHANGED <<napi, ppool, rxQueue, bottom, status, rxInt, up, skb, poll, torn, forced, early, missed, deaf>>

\* snull_tx_timeout
AllHome(d) == /\ Len(ppool[d]) = load[1]
              /\ \A e \in Devs : \A p \in Packets :
                    Owner(p) = d => tx[e].hand # p /\ poll[e].hand # p
Forced(d) == IF AllHome(d) THEN forced ELSE forced \cup {d}

Timeout(d) ==
    \/ /\ tx[d].pc = "idle" /\ d \in up \cap stopped
       /\ status' = [status EXCEPT ![d] = {"TX"}]
       /\ torn' = (torn \/ "RX" \in status[d])
       /\ early' = (early \/ skb[d] # "held")
       /\ TxTo(d, "wdintr")
       /\ UNCHANGED <<stopped, forced, lockedUp>>
    \/ /\ tx[d].pc = "wdwake"
       /\ stopped' = stopped \ {d} /\ forced' = Forced(d)
       /\ lockedUp' = lockedUp \ {d}
       /\ TxTo(d, "idle")
       /\ UNCHANGED <<status, torn, early>>

OpenRelease(d) ==
    /\ tx[d].pc = "idle" /\ d \in Devs
    /\ \/ d \in up /\ up' = up \ {d} /\ stopped' = stopped \cup {d} /\ UNCHANGED forced
       \/ d \notin up /\ up' = up \cup {d} /\ stopped' = stopped \ {d} /\ forced' = Forced(d)
    /\ UNCHANGED <<napi, ppool, rxQueue, bottom, status, rxInt, skb, tx, poll, torn, early, lockedUp, missed, deaf>>

-----------------------------------------------------------------------------
(* snull_poll                                                              *)
PollTo(d, pc) == poll' = [poll EXCEPT ![d].pc = pc]

PollStart(d) ==
    /\ poll[d].pc = "off" /\ poll[d].sched
    /\ poll' = [poll EXCEPT ![d].pc = "loop", ![d].count = 0]
    /\ UNCHANGED <<ppool, rxQueue, bottom, rxInt, stopped, forced>>

\* A packet that finds no memory does not count.
PollTake(d) ==
    /\ poll[d].pc = "loop" /\ poll[d].count < Quota /\ rxQueue[d] # <<>>
    /\ rxQueue' = [rxQueue EXCEPT ![d] = Tail(@)]
    /\ \E one \in {0, 1} : poll' = [poll EXCEPT ![d].pc = "free", ![d].hand = Head(rxQueue[d]),
                                                ![d].count = @ + one]
    /\ UNCHANGED <<ppool, bottom, rxInt, stopped, forced>>

PollFree(d) ==
    \/ /\ poll[d].pc = "free" /\ GiveBack(poll[d].hand) /\ PollTo(d, "wake")
       /\ UNCHANGED <<rxQueue, rxInt, stopped, forced>>
    \/ /\ poll[d].pc = "wake" /\ WakeUp(poll[d].hand)
       /\ poll' = [poll EXCEPT ![d].pc = "loop", ![d].hand = NoPacket]
       /\ UNCHANGED <<ppool, rxQueue, bottom, rxInt>>

\* Done when the queue is empty; otherwise it stays scheduled.
AllDone(d) == rxQueue[d] = <<>>

PollEnd(d) ==
    \/ /\ poll[d].pc = "loop" /\ (poll[d].count = Quota \/ rxQueue[d] = <<>>)
       /\ IF AllDone(d) THEN poll' = [poll EXCEPT ![d].pc = "enable", ![d].sched = FALSE, ![d].count = 0]
                        ELSE poll' = [poll EXCEPT ![d].pc = "off", ![d].count = 0]
       /\ UNCHANGED <<ppool, rxQueue, bottom, rxInt, stopped, forced>>
    \/ /\ poll[d].pc = "enable" /\ PollTo(d, "off")
       /\ rxInt' = rxInt \cup {d}
       /\ UNCHANGED <<ppool, rxQueue, bottom, stopped, forced>>

Poll(d) ==
    /\ PollStart(d) \/ PollTake(d) \/ PollFree(d) \/ PollEnd(d)
    /\ UNCHANGED <<napi, status, up, skb, tx, torn, early, lockedUp, missed, deaf>>

Transmit(d) ==
    \/ StartTx(d) \/ GetTxBuffer(d) \/ Enqueue(d) \/ RxEnabled(d) \/ Lockup(d) \/ OpenRelease(d)
    \/ /\ \/ Raise(d, "rxraise", Twin(d), "RX", "rxintr")
          \/ Raise(d, "txraise", d, "TX", "txdone")
       /\ UNCHANGED <<napi, ppool, rxQueue, bottom, rxInt, stopped, up, skb, poll, forced, early, lockedUp, missed, deaf>>
    \/ Interrupt(d, "rxintr", Twin(d), "txraise")
    \/ Interrupt(d, "txdone", d, "idle")
    \/ Interrupt(d, "wdintr", d, "wdwake")
    \/ /\ AfterInterrupt(d)
       /\ UNCHANGED <<napi, rxQueue, status, rxInt, up, skb, poll, torn, early, lockedUp, missed, deaf>>
    \/ /\ Timeout(d)
       /\ UNCHANGED <<napi, ppool, rxQueue, bottom, rxInt, up, skb, poll, missed, deaf>>

\* What happens after a crash, or once the books of a transmission are
\* wrong, is not followed.
SnRunning == ~torn /\ ~early /\ \A d \in Devs : tx[d].pc # "oops"

SnNext == SnRunning /\ UNCHANGED load /\ \E d \in Devs : Transmit(d) \/ Poll(d)

SnSpec == SnInit /\ [][SnNext]_snVars

-----------------------------------------------------------------------------
\* Every buffer is in exactly one place: the pool it belongs to, a receive
\* queue, or the hands of one thread that has not given it back yet.
InHands(p) == {d \in Devs : tx[d].hand = p /\ tx[d].pc # "wake"}
              \cup {2 + d : d \in {e \in Devs : poll[e].hand = p /\ poll[e].pc # "wake"}}

InList(lists, p) == {at \in UNION {{d} \X DOMAIN lists[d] : d \in Devs} : lists[at[1]][at[2]] = p}

SnBuffersConserved ==
    \A p \in Packets :
        Cardinality(InHands(p)) + Cardinality(InList(ppool, p)) + Cardinality(InList(rxQueue, p)) = 1

\* snull_get_tx_buffer finds a buffer whenever it is called, unless the
\* watchdog or ifconfig up has started the queue while buffers were away
\* (neither looks: snull.c:214, 547), or snull_release_buffer has looked at
\* pkt->next, after its unlock, when its buffer was already gone again.
SnPoolNotEmpty == \A d \in Devs : tx[d].pc = "oops" => d \in forced

\* The skb is freed once, by the interrupt of its own transmission, unless
\* a |= on status has brought a bit back, the watchdog came for a queue
\* whose transmission was over, or a buffer's return has restarted a queue
\* that was locked up.
SnFreedOnce == \A d \in Devs : skb[d] = "twice" => torn \/ early

\* Nobody forgets a packet: one that has arrived has an interrupt coming or
\* a poll scheduled, unless a bit of status was lost or it came between the
\* last look of snull_poll and its enabling of interrupts (snull.c:320), or
\* the interrupts were disabled when the interface was down, so that there is
\* no poll to enable them (405).
Coming(d) == tx[Twin(d)].pc \in {"rxcheck", "rxraise", "rxintr"}

SnPacketsAwaited ==
    \A d \in Devs : rxQueue[d] # <<>> =>
        Coming(d) \/ poll[d].sched \/ poll[d].pc = "enable" \/ torn \/ d \in missed \cup deaf

\* A queue is not left stopped with a buffer at hand: somebody is about to
\* look at pkt->next, unless the interface is down, was locked up, or was
\* started at a wrong moment.
SnQueueNotForgotten ==
    \A d \in up : d \in stopped /\ ppool[d] # <<>> =>
        \/ \E e \in Devs : \E t \in {tx[e], poll[e]} :
              t.pc = "wake" /\ Owner(t.hand) = d
        \/ tx[d].pc \in {"wdintr", "wdwake"} \/ d \in lockedUp \cup forced

-----------------------------------------------------------------------------
(***************************************************************************)
(* sbull: a disk in memory whose medium is "changed" when nobody has had   *)
(* it open for a while.  open stops the timer before it takes the lock,    *)
(* and release starts it under the lock; open looks for a change under the *)
(* lock, which the driver's revalidation does not take.                    *)
(***************************************************************************)

CONSTANTS
    SbUsers,
    SbSectors,
    SbData       \* what a sector may hold; 0 is what a new medium holds

ASSUME SbullAssumption == SbSectors \in Nat \ {0} /\ 0 \in SbData

VARIABLES
    bios,        \* request_mode: whole bios (RM_FULL, RM_NOQUEUE), or by segment
    disk,        \* dev->data, by sector
    users, mediaChange, sbTimer,
    expired,     \* the timer function is waiting for the lock
    by,          \* the processes: "out", "opening" or "in"
    wrote,       \* history: what was last written, or cleared while closed
    uneven,      \* history: sectors that a bio with segments of different lengths
                 \* left out, or wrote behind its end
    sbLate,        \* history: a release started the timer after an open had stopped it
    insane,      \* history: "timer sanity check failed"
    sbDouble       \* history: add_timer of a pending timer

sbVars == <<bios, disk, users, mediaChange, sbTimer, expired, by, wrote, uneven, sbLate, insane, sbDouble>>

Sectors == 0 .. SbSectors - 1

SbInit ==
    /\ bios \in BOOLEAN
    /\ disk = [s \in Sectors |-> 0] /\ wrote = disk /\ uneven = {}
    /\ users = 0 /\ mediaChange = FALSE /\ sbTimer = FALSE /\ expired = FALSE
    /\ by = [u \in SbUsers |-> "out"]
    /\ sbLate = FALSE /\ insane = FALSE /\ sbDouble = FALSE

-----------------------------------------------------------------------------
\* del_timer_sync also waits for a timer function that is running.
SbStop(u) ==
    /\ by[u] = "out" /\ ~expired
    /\ sbTimer' = FALSE /\ by' = [by EXCEPT ![u] = "opening"]
    /\ UNCHANGED <<disk, users, mediaChange, wrote, uneven, sbLate, sbDouble>>

\* The rest of sbull_open; the first user has check_disk_change call
\* sbull_media_changed and sbull_revalidate.
FirstUser == users = 0

SbOpen(u) ==
    /\ by[u] = "opening" /\ by' = [by EXCEPT ![u] = "in"]
    /\ users' = users + 1
    /\ sbLate' = (sbLate \/ sbTimer \/ expired)
    /\ IF FirstUser /\ mediaChange
         THEN /\ mediaChange' = FALSE
              /\ disk' = [s \in Sectors |-> 0]
              /\ IF users = 0 THEN wrote' = disk' /\ uneven' = {} ELSE UNCHANGED <<wrote, uneven>>
         ELSE UNCHANGED <<mediaChange, disk, wrote, uneven>>
    /\ UNCHANGED <<sbTimer, sbDouble>>

\* sbull_release.
LastUser == users = 1

SbRelease(u) ==
    /\ by[u] = "in" /\ by' = [by EXCEPT ![u] = "out"]
    /\ users' = users - 1
    /\ sbTimer' = (sbTimer \/ LastUser)
    /\ sbDouble' = (sbDouble \/ (LastUser /\ sbTimer))
    /\ UNCHANGED <<disk, mediaChange, wrote, uneven, sbLate>>

\* sbull_invalidate; the timer goes off before it has the lock.
\* (A slip: users are not looked at.)
Unused == TRUE
NotInUse == users = 0

SbTimer ==
    \/ sbTimer /\ ~expired /\ sbTimer' = FALSE /\ expired' = TRUE /\ UNCHANGED <<mediaChange, insane>>
    \/ /\ expired /\ expired' = FALSE
       /\ IF NotInUse THEN mediaChange' = TRUE /\ UNCHANGED insane
                      ELSE insane' = TRUE /\ UNCHANGED mediaChange
       /\ UNCHANGED sbTimer

-----------------------------------------------------------------------------
\* sbull_transfer: what ends beyond the disk is left out, and "succeeds".
Moved(s, n) == IF s + n > SbSectors THEN {} ELSE s .. s + n - 1

\* bio_cur_sectors is the length of the first segment, whichever is moved.
LengthTaken(n, m) == IF bios /\ m > 0 THEN n ELSE m

\* A write of two segments of n and m sectors, or of one; what lies behind
\* the buffer of the second may be anything.  Bound: two segments of at most
\* two sectors.
SbWrite(u) ==
    /\ by[u] = "in"
    /\ \E s \in Sectors, n \in 1 .. 2, m \in 0 .. 2, b, c, x \in SbData :
          LET first  == s .. s + n - 1
              second == s + n .. s + n + m - 1
              moved  == Moved(s + n, LengthTaken(n, m))
              right  == first \cup (second \cap moved)
          IN /\ s + n + m <= SbSectors
             /\ wrote' = [i \in Sectors |-> IF i \in first THEN b ELSE IF i \in second THEN c ELSE wrote[i]]
             /\ disk' = [i \in Sectors |-> IF i \in right THEN wrote'[i] ELSE IF i \in moved THEN x ELSE disk[i]]
             /\ uneven' = (uneven \ right) \cup (second \ moved) \cup (moved \ second)
    /\ UNCHANGED <<users, mediaChange, sbTimer, by, sbLate, sbDouble>>

SbNext ==
    /\ ~sbDouble /\ UNCHANGED bios
    /\ \/ \E u \in SbUsers : (SbStop(u) \/ SbOpen(u) \/ SbRelease(u) \/ SbWrite(u)) /\ UNCHANGED <<expired, insane>>
       \/ SbTimer /\ UNCHANGED <<disk, users, by, wrote, uneven, sbLate, sbDouble>>

SbSpec == SbInit /\ [][SbNext]_sbVars

-----------------------------------------------------------------------------
SbTypeOK ==
    /\ users = Cardinality({u \in SbUsers : by[u] = "in"})
    /\ DOMAIN disk = Sectors

\* The medium is neither changed nor marked as changed under a user: what was
\* written while the device is open stays there until it has been closed.
\* When whole bios are transferred, that is not so of the sectors for which
\* sbull_xfer_bio takes a wrong length (sbull.c:138-140).
SbMediumKept ==
    /\ \A s \in Sectors \ uneven : disk[s] = wrote[s]
    /\ ~bios => uneven = {}
    /\ mediaChange => users = 0

\* The timer finds a user only if a release had started it after that user's
\* open had stopped it (sbull.c:210, 229); the same race may add it twice.
SbTimerSane == insane \/ sbDouble => sbLate
=============================================================================
