---------------------------- MODULE FifoDrivers -----------------------------
(***************************************************************************)
(* Three FIFO drivers whose readers and writers sleep in wait queues:      *)
(* globalfifo, scull_kfifo and ctest, one after the other.  They share no  *)
(* state.                                                                  *)
(***************************************************************************)
EXTENDS Integers, Sequences, SequencesExt, FiniteSetsExt

-----------------------------------------------------------------------------
(***************************************************************************)
(* globalfifo: a FIFO that readers and writers wait for in two queues.     *)
(* The code tests for data once, with if, before it sleeps and not again   *)
(* after it; and a reader that joined r_wait leaves "w_wait".              *)
(*                                                                         *)
(* The operations on a wait queue take that queue's spinlock, and are an   *)
(* interval here: a task in one of ListOps is working on a list.           *)
(***************************************************************************)

CONSTANTS GfTasks, GfBytes, GfSize

Unlocked == "unlocked"

ASSUME GfAssumption == GfSize \in Nat \ {0} /\ Unlocked \notin GfTasks

VARIABLES
    mem,       \* dev->mem, its first current_len bytes
    gfSem,     \* dev->sem
    gfPc,      \* control of the tasks
    woken,     \* asleep no more, but not yet running
    nothing,   \* the last step was a read that was to move something and
               \* returned 0 bytes
    excused,   \* history: readers that were woken by a write of 0 bytes into
               \* the empty FIFO, or that were woken and then others took or
               \* cleared the last of the data
    cleared    \* history: a clear since the last write or read

gfVars == <<mem, gfSem, gfPc, woken, nothing, excused, cleared>>

\* Working on a wait list, by the lock that is held meanwhile, and by list.
LockR == {"radd", "wwake"}
LockW == {"wadd", "rwake", "rout", "wout"}
ListR == {"radd", "wwake", "rout"}
ListW == {"wadd", "rwake", "wout"}

Held == {"radd", "rcopy", "rwake", "wadd", "wcopy", "wwake"}

GfTypeOK ==
    /\ mem \in Seq(GfBytes) /\ Len(mem) <= GfSize
    /\ gfSem \in GfTasks \cup {Unlocked}
    /\ gfPc \in [GfTasks -> {"idle", "rdown", "rsleep", "ragain", "rleave", "rout",
                             "wdown", "wsleep", "wagain", "wleave", "wout"} \cup Held]
    /\ \A t \in GfTasks : gfPc[t] \in Held <=> gfSem = t

GfInit ==
    /\ mem = <<>> /\ gfSem = Unlocked
    /\ gfPc = [t \in GfTasks |-> "idle"]
    /\ woken = {} /\ nothing = FALSE /\ excused = {} /\ cleared = FALSE

Move(t, pc) == gfPc' = [gfPc EXCEPT ![t] = pc]
Quiet(lock) == \A t \in GfTasks : gfPc[t] \notin lock
Take(t)     == gfSem = Unlocked /\ gfSem' = t
Give        == gfSem' = Unlocked

\* Everybody in the queue who sleeps is woken.  (A slip: only one of them.)
WakesFirst(pc) == IF {t \in GfTasks : gfPc[t] = pc} = {} THEN {}
                  ELSE {CHOOSE t \in GfTasks : gfPc[t] = pc}
Wakes(pc) == {t \in GfTasks : gfPc[t] = pc}

\* The last of the bytes others may count on has gone.
Gone(t) == excused' = IF mem' # <<>> THEN excused
                      ELSE excused \cup ((woken \cup {r \in GfTasks : gfPc[r] = "ragain"}) \ {t})

-----------------------------------------------------------------------------
GfStart(t) ==
    /\ gfPc[t] = "idle"
    /\ Move(t, "rdown") \/ Move(t, "wdown")
    /\ nothing' = FALSE
    /\ UNCHANGED <<mem, gfSem, woken, excused, cleared>>

GfDown(t) ==
    /\ Take(t)
    /\ \/ gfPc[t] = "rdown" /\ Quiet(LockR) /\ Move(t, "radd")
       \/ gfPc[t] = "wdown" /\ Quiet(LockW) /\ Move(t, "wadd")
    /\ nothing' = FALSE
    /\ UNCHANGED <<mem, woken, excused, cleared>>

\* Having joined a queue, sleep, give up (O_NONBLOCK), or go on.
GfJoined(t) ==
    /\ \/ /\ gfPc[t] = "radd" /\ mem = <<>>
          /\ Move(t, "rsleep") \/ Move(t, "rleave")
          /\ Give
       \/ gfPc[t] = "radd" /\ mem # <<>> /\ Move(t, "rcopy") /\ UNCHANGED gfSem
       \/ /\ gfPc[t] = "wadd" /\ Len(mem) = GfSize
          /\ Move(t, "wsleep") \/ Move(t, "wleave")
          /\ Give
       \/ gfPc[t] = "wadd" /\ Len(mem) < GfSize /\ Move(t, "wcopy") /\ UNCHANGED gfSem
    /\ nothing' = FALSE
    /\ UNCHANGED <<mem, woken, excused, cleared>>

\* After schedule(): a signal or a wake-up.
GfRuns(t) ==
    /\ \/ gfPc[t] = "rsleep" /\ (Move(t, "rleave") \/ (t \in woken /\ Move(t, "ragain")))
       \/ gfPc[t] = "wsleep" /\ (Move(t, "wleave") \/ (t \in woken /\ Move(t, "wagain")))
    /\ woken' = woken \ {t}
    /\ excused' = IF gfPc'[t] = "rleave" THEN excused \ {t} ELSE excused
    /\ nothing' = FALSE
    /\ UNCHANGED <<mem, gfSem, cleared>>

GfAgain(t) ==
    /\ Take(t)
    /\ \/ gfPc[t] = "ragain" /\ Move(t, "rcopy")
       \/ gfPc[t] = "wagain" /\ Move(t, "wcopy")
    /\ nothing' = FALSE
    /\ UNCHANGED <<mem, woken, excused, cleared>>

\* What a read or a write of n bytes may move.  (A slip: a byte is
\* kept back.)
ButOne(n)   == IF n > Len(mem) - 1 THEN Len(mem) - 1 ELSE n
Readable(n) == IF n > Len(mem) THEN Len(mem) ELSE n
Writable(n) == IF n > GfSize - Len(mem) THEN GfSize - Len(mem) ELSE n

\* memcpy moves the rest to the front.  (A slip: it stays.)
Unmoved(n) == SubSeq(mem, 1, Len(mem) - n)
Moved(n)   == SubSeq(mem, n + 1, Len(mem))

GfRead(t, asked) ==
    /\ gfPc[t] = "rcopy" /\ Quiet(LockW)
    /\ mem' = Moved(Readable(asked))
    /\ nothing' = (asked > 0 /\ Readable(asked) = 0)
    /\ Move(t, "rwake")
    /\ Gone(t)
    /\ cleared' = FALSE
    /\ UNCHANGED <<gfSem, woken>>

GfWrite(t, bytes) ==
    /\ gfPc[t] = "wcopy" /\ Quiet(LockR)
    /\ mem' = mem \o SubSeq(bytes, 1, Writable(Len(bytes)))
    /\ Move(t, "wwake")
    /\ nothing' = FALSE
    /\ UNCHANGED <<gfSem, woken, excused, cleared>>

GfFault(t) ==
    /\ \/ gfPc[t] = "rcopy" /\ Move(t, "rleave")
       \/ gfPc[t] = "wcopy" /\ Move(t, "wleave")
    /\ Give
    /\ nothing' = FALSE
    /\ excused' = excused \ {t}
    /\ UNCHANGED <<mem, woken, cleared>>

GfWake(t) ==
    /\ \/ /\ gfPc[t] = "rwake" /\ Move(t, "rleave")
          /\ woken' = woken \cup Wakes("wsleep")
          /\ excused' = excused \ {t}
       \/ /\ gfPc[t] = "wwake" /\ Move(t, "wleave")
          /\ woken' = woken \cup Wakes("rsleep")
          /\ excused' = (excused \cup IF mem = <<>> THEN woken' \ woken ELSE {}) \ {t}
    /\ Give
    /\ nothing' = FALSE
    /\ UNCHANGED <<mem, cleared>>

\* out2: both functions leave their queue with the lock of w_wait.
GfLeave(t) ==
    /\ \/ gfPc[t] = "rleave" /\ Quiet(LockW) /\ Move(t, "rout")
       \/ gfPc[t] = "wleave" /\ Quiet(LockW) /\ Move(t, "wout")
       \/ gfPc[t] \in {"rout", "wout"} /\ Move(t, "idle")
    /\ nothing' = FALSE
    /\ UNCHANGED <<mem, gfSem, woken, excused, cleared>>

\* FIFO_CLEAR, by a task that is in no other call.  Nobody is woken.
GfClear(t) ==
    /\ gfPc[t] = "idle" /\ gfSem = Unlocked
    /\ mem' = <<>>
    /\ Gone(t)
    /\ cleared' = TRUE
    /\ nothing' = FALSE
    /\ UNCHANGED <<gfSem, gfPc, woken>>

Messages == {<<>>} \cup {<<b>> : b \in GfBytes} \cup {<<b, c>> : b, c \in GfBytes}

GfTask(t) ==
    \/ GfStart(t) \/ GfDown(t) \/ GfJoined(t) \/ GfRuns(t) \/ GfAgain(t)
    \/ \E n \in 0 .. GfSize : GfRead(t, n)
    \/ \E m \in Messages : GfWrite(t, m)
    \/ GfFault(t) \/ GfWake(t) \/ GfLeave(t) \/ GfClear(t)

GfNext == \E t \in GfTasks : GfTask(t)

GfSpec == GfInit /\ [][GfNext]_gfVars

-----------------------------------------------------------------------------
\* Bytes leave the FIFO in the order they entered it, from its head, and a
\* clear alone drops them (globalfifo_read moves the rest to the front).
GfStepInOrder ==
    \/ IsPrefix(mem, mem')
    \/ IsSuffix(mem', mem) /\ \E t \in GfTasks : gfPc[t] = "rcopy" /\ gfPc'[t] = "rwake"
    \/ \E t \in GfTasks : GfClear(t)

\* Although a woken reader does not look again whether there is anything
\* (globalfifo.c:121 is an if), a read of some bytes returns 0 only when others
\* took or cleared the last of the data after the wake-up, or when what woke
\* the reader was a write of 0 bytes (globalfifo.c:205-219): there is no other
\* way to read "end of file" out of a FIFO that has none.
GfEmptyReadExplained ==
    nothing' => \E t \in GfTasks : gfPc[t] = "rcopy" /\ gfPc'[t] = "rwake" /\ t \in excused

\* Nobody sleeps through a change he waits for, with one exception: clearing
\* makes room and wakes no writer.
GfSleepersNotForgotten ==
    \A t \in GfTasks \ woken :
        /\ gfPc[t] = "rsleep" =>
              mem = <<>> \/ \E w \in GfTasks : gfPc[w] = "wwake"
        /\ gfPc[t] = "wsleep" =>
              Len(mem) = GfSize \/ cleared \/ \E r \in GfTasks : gfPc[r] = "rwake"

\* Two tasks work on one wait list at a time only if one of them is a reader
\* that leaves: it holds the lock of the other queue (globalfifo.c:164).
GfListsAlone ==
    \A t, u \in GfTasks :
        t # u /\ (\/ gfPc[t] \in ListW /\ gfPc[u] \in ListW
                  \/ gfPc[t] \in ListR /\ gfPc[u] \in ListR)
            => gfPc[t] = "rout" \/ gfPc[u] = "rout"

-----------------------------------------------------------------------------
(***************************************************************************)
(* scull_kfifo: a kernel kfifo behind a semaphore, with one bounce buffer  *)
(* (the global tekkaman) for all copies.  A read takes its bytes out of    *)
(* the kfifo before it copies them to the user; RESET empties the kfifo    *)
(* without the semaphore.                                                  *)
(***************************************************************************)

CONSTANTS KfTasks, KfBytes, KfSize

NoTask == "nobody"

ASSUME KfAssumption == KfSize \in Nat \ {0} /\ NoTask \notin KfTasks

VARIABLES
    kfifo,    \* the bytes in tekkamankfifo
    bounce,   \* tekkaman: what the copy under way has put there
    kfSem,    \* dev->sem
    kfPc,     \* control of the tasks
    kfWoken,  \* tasks woken from inq
    kfGot,    \* what the last step copied to a user
    kfHit     \* history: a reset came between a reader's look and its get

kfVars == <<kfifo, bounce, kfSem, kfPc, kfWoken, kfGot, kfHit>>

KfHeld == {"rlook", "rget", "rcopy", "wput"}

KfTypeOK ==
    /\ kfifo \in Seq(KfBytes) /\ Len(kfifo) <= KfSize
    /\ bounce \in Seq(KfBytes) /\ Len(bounce) <= KfSize
    /\ kfSem \in KfTasks \cup {NoTask}
    /\ kfPc \in [KfTasks -> {"idle", "rdown", "rwait", "rsleep", "wdown", "wwake"} \cup KfHeld]
    /\ \A t \in KfTasks : kfPc[t] \in KfHeld => kfSem = t

KfInit ==
    /\ kfifo = <<>> /\ bounce = <<>> /\ kfSem = NoTask
    /\ kfPc = [t \in KfTasks |-> "idle"]
    /\ kfWoken = {} /\ kfGot = <<>> /\ kfHit = FALSE

KfGo(t, pc) == kfPc' = [kfPc EXCEPT ![t] = pc]

KfStart(t) ==
    /\ kfPc[t] = "idle"
    /\ KfGo(t, "rdown") \/ KfGo(t, "wdown")
    /\ kfGot' = <<>>
    /\ UNCHANGED <<kfifo, bounce, kfSem, kfWoken, kfHit>>

\* down_interruptible, which a signal may end.
KfDown(t) ==
    /\ kfPc[t] \in {"rdown", "wdown"}
    /\ \/ KfGo(t, "idle") /\ UNCHANGED kfSem
       \/ /\ kfSem = NoTask /\ kfSem' = t
          /\ KfGo(t, IF kfPc[t] = "rdown" THEN "rlook" ELSE "wput")
    /\ kfGot' = <<>>
    /\ UNCHANGED <<kfifo, bounce, kfWoken, kfHit>>

\* Nothing there: give the semaphore up; return (O_NONBLOCK) or wait.
KfEmpty(t) ==
    /\ kfPc[t] = "rlook" /\ kfifo = <<>>
    /\ kfSem' = NoTask
    /\ KfGo(t, "idle") \/ KfGo(t, "rwait")
    /\ kfGot' = <<>>
    /\ UNCHANGED <<kfifo, bounce, kfWoken, kfHit>>

\* wait_event_interruptible joins inq, looks, and sleeps.
KfWait(t) ==
    /\ \/ kfPc[t] = "rwait" /\ KfGo(t, IF kfifo = <<>> THEN "rsleep" ELSE "rdown")
       \/ kfPc[t] = "rsleep" /\ (KfGo(t, "idle") \/ (t \in kfWoken /\ KfGo(t, "rwait")))
    /\ kfWoken' = kfWoken \ {t}
    /\ kfGot' = <<>>
    /\ UNCHANGED <<kfifo, bounce, kfSem, kfHit>>

\* The semaphore during the copy to the user.
DuringCopy == kfSem

KfLook(t) ==
    /\ kfPc[t] = "rlook" /\ kfifo # <<>>
    /\ KfGo(t, "rget")
    /\ kfGot' = <<>> /\ kfHit' = FALSE
    /\ UNCHANGED <<kfifo, bounce, kfSem, kfWoken>>

\* What kfifo_get finds.
Available(asked) == Min({asked, Len(kfifo)})

KfGet(t, asked) ==
    /\ kfPc[t] = "rget"
    /\ LET n == Available(asked) IN
          /\ bounce' = SubSeq(kfifo, 1, n)
          /\ kfifo' = SubSeq(kfifo, n + 1, Len(kfifo))
    /\ KfGo(t, "rcopy")
    /\ kfSem' = DuringCopy
    /\ kfGot' = <<>>
    /\ UNCHANGED <<kfWoken, kfHit>>

KfCopied(t) ==
    /\ kfPc[t] = "rcopy"
    /\ kfGot' = bounce /\ bounce' = <<>>
    /\ kfSem' = NoTask
    /\ KfGo(t, "idle")
    /\ UNCHANGED <<kfifo, kfWoken, kfHit>>

\* copy_to_user fails: the bytes are out of the kfifo, and lost.
KfCopyFault(t) ==
    /\ kfPc[t] = "rcopy"
    /\ bounce' = <<>> /\ kfGot' = <<>>
    /\ kfSem' = NoTask
    /\ KfGo(t, "idle")
    /\ UNCHANGED <<kfifo, kfWoken, kfHit>>

\* The bytes a write has room for.
Room(bytes) == [i \in 1 .. Min({Len(bytes), KfSize - Len(kfifo)}) |-> bytes[i]]

\* A write never waits: it stores what there is room for, perhaps nothing.
KfPut(t, bytes) ==
    /\ kfPc[t] = "wput"
    /\ bounce' = <<>>
    /\ \/ kfifo' = kfifo \o Room(bytes) /\ KfGo(t, "wwake")
       \/ UNCHANGED kfifo /\ KfGo(t, "idle")     \* copy_from_user fails
    /\ kfSem' = NoTask
    /\ kfGot' = <<>>
    /\ UNCHANGED <<kfWoken, kfHit>>

KfSleepers == {t \in KfTasks : kfPc[t] = "rsleep"}

KfWakes == KfSleepers

KfWake(t) ==
    /\ kfPc[t] = "wwake"
    /\ kfWoken' = kfWoken \cup KfWakes
    /\ KfGo(t, "idle")
    /\ kfGot' = <<>>
    /\ UNCHANGED <<kfifo, bounce, kfSem, kfHit>>

\* SCULL_KFIFO_RESET, at any time.
KfReset ==
    /\ kfifo' = <<>>
    /\ kfGot' = <<>> /\ kfHit' = TRUE
    /\ UNCHANGED <<bounce, kfSem, kfPc, kfWoken>>

KfMessages == {<<>>} \cup {<<b>> : b \in KfBytes} \cup {<<b, c>> : b, c \in KfBytes}

KfTask(t) ==
    \/ KfStart(t) \/ KfDown(t) \/ KfEmpty(t) \/ KfWait(t) \/ KfLook(t)
    \/ \E n \in 1 .. KfSize : KfGet(t, n)
    \/ KfCopied(t) \/ KfCopyFault(t)
    \/ \E m \in KfMessages : KfPut(t, m)
    \/ KfWake(t)

KfNext == (\E t \in KfTasks : KfTask(t)) \/ KfReset

KfSpec == KfInit /\ [][KfNext]_kfVars

-----------------------------------------------------------------------------
\* With the bytes that are on their way to a user, the device is a FIFO:
\* every byte goes to exactly one reader, in order, but for a reset and for
\* the bytes of a read whose copy fails (scull_kfifo.c:92), which are lost.
InTransit == bounce \o kfifo

KfStepInOrder ==
    \/ IsPrefix(InTransit, InTransit') /\ kfGot' = <<>>
    \/ kfGot' \o InTransit' = InTransit
    \/ KfReset
    \/ \E t \in KfTasks : KfCopyFault(t)

\* A reader that sleeps while bytes wait is about to be woken by the writer
\* that stored them: neither the reset without the semaphore nor another
\* reader can make the wake-up get lost.
KfSleepersNotForgotten ==
    \A t \in KfSleepers \ kfWoken :
        kfifo = <<>> \/ \E w \in KfTasks : kfPc[w] = "wwake"

\* A read of the kfifo finds nothing only when a reset came between the
\* look (scull_kfifo.c:67) and kfifo_get: the while, unlike globalfifo's if,
\* makes a woken reader look again.
KfEmptyReadExplained ==
    (\E t \in KfTasks : kfPc[t] = "rget" /\ kfPc'[t] = "rcopy") /\ bounce' = <<>> => kfHit

-----------------------------------------------------------------------------
(***************************************************************************)
(* ctest: a ring of CtSize places between r_index and w_index, one of them *)
(* always free, that readers and writers wait for in two queues as those   *)
(* of globalfifo do.  A call that is to wait first wakes the other queue.  *)
(* The code that would look at a signal is switched off, and nobody tests  *)
(* again for data or room after schedule(): a call may move nothing and    *)
(* return 0.  A reader leaves "w_wait" here, too.                          *)
(***************************************************************************)

CONSTANTS CtTasks, CtBytes, CtSize

ASSUME CtAssumption == CtSize \in Nat \ {0, 1} /\ Unlocked \notin CtTasks

VARIABLES
    ctMem, ctR, ctW,   \* the ring; r_index and w_index, as offsets
    ctSem,             \* dev->sem
    ctPc,              \* control of the tasks
    ctWoken,           \* asleep no more, but not yet running
    ctMoved,           \* bytes that the last step moved; -1: it was to move none
    ctExcused,         \* history: calls that ran on a signal, that were woken
                       \* by a call that moved nothing, or that were woken and
                       \* then others took what they were woken for
    ctCleared          \* history: a clear, and no reader since who woke w_wait

ctVars == <<ctMem, ctR, ctW, ctSem, ctPc, ctWoken, ctMoved, ctExcused, ctCleared>>

\* Working on a wait list, by the lock that is held meanwhile, and by list.
CtLockR == {"radd", "wnone", "wwake"}
CtLockW == {"wadd", "rnone", "rwake", "rout", "wout"}
CtListR == {"radd", "wnone", "wwake", "rout"}
CtListW == {"wadd", "rnone", "rwake", "wout"}

CtInside == {"radd", "rnone", "rcopy", "rwake", "wadd", "wnone", "wcopy", "wwake"}

CtEmpty == ctR = ctW
CtFull  == ctW + 1 = ctR \/ ctW - ctR = CtSize - 1

\* The bytes from r_index on.
CtHeld == LET n == (ctW - ctR) % CtSize IN [k \in 1 .. n |-> ctMem[(ctR + k - 1) % CtSize]]

CtTypeOK ==
    /\ ctMem \in [0 .. CtSize - 1 -> CtBytes]
    /\ {ctR, ctW} \subseteq 0 .. CtSize - 1
    /\ ctSem \in CtTasks \cup {Unlocked}
    /\ ctPc \in [CtTasks -> {"idle", "rsleep", "rleave", "rout", "wsleep", "wleave", "wout"}
                            \cup CtInside]
    /\ \A t \in CtTasks : ctPc[t] \in CtInside <=> ctSem = t
    /\ \A t \in ctWoken : t \in CtTasks /\ ctPc[t] \in {"rsleep", "wsleep"}

CtInit ==
    /\ ctMem \in [0 .. CtSize - 1 -> CtBytes] /\ ctR = 0 /\ ctW = 0
    /\ ctSem = Unlocked
    /\ ctPc = [t \in CtTasks |-> "idle"]
    /\ ctWoken = {} /\ ctMoved = -1 /\ ctExcused = {} /\ ctCleared = FALSE

CtGo(t, pc)   == ctPc' = [ctPc EXCEPT ![t] = pc]
CtQuiet(lock) == \A t \in CtTasks : ctPc[t] \notin lock
CtTake(t)     == ctSem = Unlocked /\ ctSem' = t
CtGive        == ctSem' = Unlocked
CtBuffer        == <<ctMem, ctR, ctW>>

\* wake_up_interruptible.
CtWakes(pc) == ctWoken \cup {t \in CtTasks : ctPc[t] = pc}

\* Others that were woken for the same may find it gone.
CtGone(t, pc) == {u \in ctWoken \ {t} : ctPc[u] = pc}

-----------------------------------------------------------------------------
CtStart(t) ==
    /\ ctPc[t] = "idle" /\ CtTake(t)
    /\ \/ CtQuiet(CtLockR) /\ CtGo(t, "radd")
       \/ CtQuiet(CtLockW) /\ CtGo(t, "wadd")
    /\ ctMoved' = -1
    /\ UNCHANGED <<CtBuffer, ctWoken, ctExcused, ctCleared>>

CtJoined(t) ==
    /\ \/ /\ ctPc[t] = "radd"
          /\ IF CtEmpty THEN CtQuiet(CtLockW) /\ CtGo(t, "rnone") ELSE CtGo(t, "rcopy")
       \/ /\ ctPc[t] = "wadd"
          /\ IF CtFull THEN CtGo(t, "wnone") ELSE CtGo(t, "wcopy")
    /\ ctMoved' = -1
    /\ UNCHANGED <<CtBuffer, ctSem, ctWoken, ctExcused, ctCleared>>

\* The others are woken before the caller sleeps, or returns -EAGAIN.
CtNone(t) ==
    /\ \/ /\ ctPc[t] = "rnone" /\ ctWoken' = CtWakes("wsleep") /\ ctCleared' = FALSE
          /\ CtGo(t, "rsleep") \/ CtGo(t, "rleave")
       \/ /\ ctPc[t] = "wnone" /\ ctWoken' = CtWakes("rsleep") /\ UNCHANGED ctCleared
          /\ CtGo(t, "wsleep") \/ CtGo(t, "wleave")
    /\ CtGive
    /\ ctMoved' = -1
    /\ UNCHANGED <<CtBuffer, ctExcused>>

\* After schedule(), whether for a wake-up or for a signal.
CtRuns(t) ==
    /\ CtTake(t)
    /\ \/ ctPc[t] = "rsleep" /\ CtGo(t, "rcopy")
       \/ ctPc[t] = "wsleep" /\ CtGo(t, "wcopy")
    /\ ctWoken' = ctWoken \ {t}
    /\ ctExcused' = IF t \in ctWoken THEN ctExcused ELSE ctExcused \cup {t}
    /\ ctMoved' = -1
    /\ UNCHANGED <<CtBuffer, ctCleared>>

\* What a read or a write of n bytes moves: no more than there is, and not
\* past the end of the memory.
CtReadable(n) == Min({n, (ctW - ctR) + (IF ctW < ctR THEN CtSize ELSE 0), CtSize - ctR})
CtWritable(n) == Min({n, (ctR - ctW) + (IF ctR <= ctW THEN CtSize - 1 ELSE -1), CtSize - ctW})

CtMoves(asked, n) == ctMoved' = IF asked = 0 THEN -1 ELSE n

CtCopyOut(t, n) ==
    /\ ctPc[t] = "rcopy" /\ CtQuiet(CtLockW)
    /\ CtMoves(n, CtReadable(n))
    /\ ctR' = (ctR + CtReadable(n)) % CtSize
    /\ CtGo(t, "rwake")
    /\ UNCHANGED <<ctMem, ctW, ctSem, ctWoken, ctCleared>>
    /\ ctExcused' = ctExcused \cup IF CtEmpty' THEN CtGone(t, "rsleep") ELSE {}

\* A copy that fails leaves what was in the ring, and counts as done.
CtCopyIn(t, bytes) ==
    LET n == CtWritable(Len(bytes)) IN
    /\ ctPc[t] = "wcopy"
    /\ CtMoves(Len(bytes), n)
    /\ \/ ctMem' = [i \in DOMAIN ctMem |-> IF i \in ctW .. ctW + n - 1 THEN bytes[i - ctW + 1] ELSE ctMem[i]]
       \/ UNCHANGED ctMem
    /\ ctW' = (ctW + n) % CtSize
    /\ CtGo(t, "wwake")
    /\ UNCHANGED <<ctR, ctSem, ctWoken, ctCleared>>
    /\ ctExcused' = ctExcused \cup IF CtFull' THEN CtGone(t, "wsleep") ELSE {}

\* There is nothing for those who are woken when the call moved nothing.
CtWake(t) ==
    /\ \/ /\ ctPc[t] = "rwake" /\ CtGo(t, "rleave")
          /\ ctWoken' = CtWakes("wsleep") /\ ctCleared' = FALSE
          /\ ctExcused' = (ctExcused \cup IF CtFull THEN ctWoken' \ ctWoken ELSE {}) \ {t}
       \/ /\ ctPc[t] = "wwake" /\ CtGo(t, "wleave")
          /\ ctWoken' = CtWakes("rsleep") /\ UNCHANGED ctCleared
          /\ ctExcused' = (ctExcused \cup IF CtEmpty THEN ctWoken' \ ctWoken ELSE {}) \ {t}
    /\ CtGive
    /\ ctMoved' = -1
    /\ UNCHANGED CtBuffer

\* Both functions leave their queue with the lock of w_wait.
CtLeave(t) ==
    /\ \/ ctPc[t] = "rleave" /\ CtQuiet(CtLockW) /\ CtGo(t, "rout")
       \/ ctPc[t] = "wleave" /\ CtQuiet(CtLockW) /\ CtGo(t, "wout")
       \/ ctPc[t] \in {"rout", "wout"} /\ CtGo(t, "idle")
    /\ ctMoved' = -1
    /\ UNCHANGED <<CtBuffer, ctSem, ctWoken, ctExcused, ctCleared>>

\* CTEST_MEM_CLEAR.  Nobody is woken.
CtClear(t) ==
    /\ ctPc[t] = "idle" /\ ctSem = Unlocked
    /\ ctR' = 0 /\ ctW' = 0
    /\ ctExcused' = ctExcused \cup CtGone(t, "rsleep")
    /\ ctCleared' = TRUE /\ ctMoved' = -1
    /\ UNCHANGED <<ctMem, ctSem, ctPc, ctWoken>>

CtMessages == {<<>>} \cup {<<b>> : b \in CtBytes} \cup {<<b, c>> : b, c \in CtBytes}

CtTask(t) ==
    \/ CtStart(t) \/ CtJoined(t) \/ CtNone(t) \/ CtRuns(t)
    \/ \E n \in 0 .. CtSize : CtCopyOut(t, n)
    \/ \E m \in CtMessages : CtCopyIn(t, m)
    \/ CtWake(t) \/ CtLeave(t) \/ CtClear(t)

CtNext == \E t \in CtTasks : CtTask(t)

CtSpec == CtInit /\ [][CtNext]_ctVars

-----------------------------------------------------------------------------
\* Bytes leave the ring in the order they entered it, from its head, and a
\* clear alone drops them, wherever the indices are (lines 185-205, 274-295).
CtStepInOrder ==
    \/ IsPrefix(CtHeld, CtHeld')
    \/ ctW' = ctW /\ IsSuffix(CtHeld', CtHeld)
    \/ \E t \in CtTasks : CtClear(t)

\* A call that was to move something and moves nothing ran on a signal, or
\* others read, wrote or cleared between its wake-up and its second down (lines
\* 168-181), or it was woken by a call that had nothing to move itself: a read or
\* a write of 0 bytes, or one of those here.
CtNothingExplained ==
    ctMoved' = 0 => \E t \in CtTasks : /\ ctPc[t] \in {"rcopy", "wcopy"} /\ ctPc'[t] # ctPc[t]
                                       /\ t \in ctExcused

\* Nobody sleeps through a change he waits for, with one exception: clearing
\* makes room and wakes no writer, until a reader wakes w_wait.
CtSleepersNotForgotten ==
    \A t \in CtTasks \ ctWoken :
        /\ ctPc[t] = "rsleep" => CtEmpty \/ \E w \in CtTasks : ctPc[w] = "wwake"
        /\ ctPc[t] = "wsleep" => CtFull \/ ctCleared \/ \E r \in CtTasks : ctPc[r] = "rwake"

\* Two tasks work on one wait list at a time only if one of them is a reader
\* that leaves: it holds the lock of the other queue (ctest.c:161, 213).
CtListsAlone ==
    \A t, u \in CtTasks :
        t # u /\ (\/ ctPc[t] \in CtListW /\ ctPc[u] \in CtListW
                  \/ ctPc[t] \in CtListR /\ ctPc[u] \in CtListR)
            => ctPc[t] = "rout" \/ ctPc[u] = "rout"

\* ctest_poll tells who would not sleep, but that it has forgotten the second
\* way to be full that ctest_write knows (line 121 against 240).
CtPollIn  == ctR # ctW
CtPollOut == ctW + 1 # ctR
CtPollHonest ==
    /\ CtPollIn <=> ~CtEmpty
    /\ ~CtFull => CtPollOut
    /\ CtFull /\ CtPollOut => ctR = 0
=============================================================================
