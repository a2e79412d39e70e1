------------------------------ MODULE TinyTty -------------------------------
(***************************************************************************)
(* One port of the tty driver tiny_tty.c, and the port of tiny_serial.c.   *)
(* Both have no hardware: a timer brings a character in every two seconds, *)
(* and adds itself again.  del_timer takes a timer off its list and does   *)
(* not wait for a timer function that is running on another processor.     *)
(*                                                                         *)
(* The tty core opens and closes the files: a tty lives from the first     *)
(* open to the last close, tty_open closes a file again when the driver's  *)
(* open has failed, and driver_data belongs to the tty.  The big kernel    *)
(* lock keeps the calls apart where they do not sleep: they sleep in       *)
(* kmalloc and in down.  That the timers are used without init_timer is    *)
(* left out.                                                               *)
(***************************************************************************)
EXTENDS Integers, FiniteSets

CONSTANTS
    TtProcs,
    MaxTtys,      \* how often the tty is made, in either driver
    MaxTinies,    \* how many tiny_serial structures are made
    MaxCount,     \* up to which open_count an open is followed
    XmitSize,     \* room of the transmit buffer of tiny_serial
    Wakeup        \* WAKEUP_CHARS

ASSUME TinyAssumption ==
    /\ MaxTtys \in Nat /\ MaxTinies \in Nat \ {0} /\ MaxCount \in Nat \ {0}
    /\ XmitSize \in Nat \ {0} /\ Wakeup \in 1..XmitSize

VARIABLES
    tinies,       \* the structures made so far
    tinyTable,    \* the entry of tiny_table for this port, Nil for NULL
    ttyMade,      \* how many ttys were made: the last one is the port's
    driverData,   \* of that tty
    ttPc, mine,   \* of each process, and its local variable tiny
    semOf,        \* who holds the semaphore of each structure
    unloaded,
    slips,        \* history: what has happened that the driver does not expect
    ttFault       \* history: what came of it

ttVars == <<tinies, tinyTable, ttyMade, driverData, ttPc, mine, semOf, unloaded, slips, ttFault>>

Nil == 0
NoProc == "nobody"
Made == DOMAIN tinies

\* No tty, no structure, no process has the port open.
TtInit ==
    /\ tinies = [t \in {} |-> Nil]
    /\ tinyTable = Nil /\ ttyMade = 0 /\ driverData = Nil
    /\ ttPc = [p \in TtProcs |-> "out"] /\ mine = [p \in TtProcs |-> Nil]
    /\ semOf = [t \in 1..MaxTinies |-> NoProc]
    /\ unloaded = FALSE /\ slips = {} /\ ttFault = {}

HasTty == {p \in TtProcs : ttPc[p] # "out"}
TtyAlive(n) == n = ttyMade /\ HasTty # {}

At(p, label) == ttPc' = [ttPc EXCEPT ![p] = label]

-----------------------------------------------------------------------------
\* add_timer and del_timer.
Added(tiny) == [tiny EXCEPT !.timer = "pending"]
Deleted(tiny) == [tiny EXCEPT !.timer = IF @ = "pending" THEN "idle" ELSE @]

\* tiny_open as far as line 104: the tty is made if it is not there.
TtOpen(p) ==
    /\ ttPc[p] = "out" /\ ~unloaded
    /\ IF HasTty = {} THEN ttyMade < MaxTtys /\ ttyMade' = ttyMade + 1 ELSE UNCHANGED ttyMade
    /\ driverData' = Nil
    /\ mine' = [mine EXCEPT ![p] = tinyTable]
    /\ At(p, IF tinyTable = Nil THEN "creating" ELSE "locking")
    /\ UNCHANGED <<tinies, tinyTable, semOf, unloaded, slips, ttFault>>

\* Its first kmalloc has returned.
TtCreate(p) ==
    /\ ttPc[p] = "creating"
    /\ \/ /\ At(p, "failed") /\ UNCHANGED <<tinies, tinyTable, mine, slips>>
       \/ LET new == Cardinality(Made) + 1 IN
          /\ new <= MaxTinies
          /\ tinies' = [t \in Made \cup {new} |->
                           IF t = new THEN [count |-> 0, timer |-> "none", tty |-> 0, running |-> 0]
                           ELSE tinies[t]]
          /\ slips' = slips \cup (IF tinyTable # Nil THEN {"lost"} ELSE {})
          /\ tinyTable' = new /\ mine' = [mine EXCEPT ![p] = new]
          /\ At(p, "locking")
    /\ UNCHANGED <<ttyMade, driverData, semOf, unloaded, ttFault>>

\* From down on; the first open needs the timer.
Counted(tiny) == [tiny EXCEPT !.count = @ + 1, !.tty = ttyMade]

TtLock(p) ==
    LET t == mine[p]
        tiny == Counted(tinies[t])
        first == tiny.count = 1
    IN  /\ ttPc[p] = "locking" /\ semOf[t] = NoProc /\ tiny.count <= MaxCount
        /\ driverData' = t
        /\ tinies' = [tinies EXCEPT ![t] = IF first /\ tiny.timer # "none" THEN Added(tiny) ELSE tiny]
        /\ IF first /\ tiny.timer = "none"
             THEN semOf' = [semOf EXCEPT ![t] = p] /\ At(p, "timer")
             ELSE At(p, "open") /\ UNCHANGED semOf
        /\ ttFault' = ttFault \cup (IF first /\ tiny.timer = "pending" THEN {"added twice"} ELSE {})
        /\ UNCHANGED <<tinyTable, ttyMade, mine, unloaded, slips>>

\* Its second kmalloc has returned.
TtTimerMade(p) ==
    LET t == mine[p] IN
    /\ ttPc[p] = "timer" /\ semOf' = [semOf EXCEPT ![t] = NoProc]
    /\ \/ tinies' = [tinies EXCEPT ![t] = Added(@)] /\ At(p, "open") /\ UNCHANGED slips
       \/ At(p, "failed") /\ slips' = slips \cup {"no timer"} /\ UNCHANGED tinies
    /\ UNCHANGED <<tinyTable, ttyMade, driverData, mine, unloaded, ttFault>>

\* tiny_write and tiny_write_room do nothing but hold the semaphore; the write
\* always returns -EINVAL.
TtWrite(p) ==
    /\ UNCHANGED <<tinies, tinyTable, ttyMade, driverData, unloaded, ttFault>>
    /\ \/ /\ ttPc[p] = "open" /\ driverData = Nil
          /\ slips' = slips \cup {"cleared"} /\ UNCHANGED <<ttPc, mine, semOf>>
       \/ /\ ttPc[p] = "open" /\ driverData # Nil /\ semOf[driverData] = NoProc
          /\ semOf' = [semOf EXCEPT ![driverData] = p]
          /\ mine' = [mine EXCEPT ![p] = driverData]
          /\ At(p, "writing") /\ UNCHANGED slips
       \/ /\ ttPc[p] = "writing" /\ semOf' = [semOf EXCEPT ![mine[p]] = NoProc]
          /\ At(p, "open") /\ UNCHANGED <<mine, slips>>

\* tiny_close, which the core also calls when the open has failed.
TtClose(p) ==
    /\ ttPc[p] \in {"open", "failed"}
    /\ IF driverData = Nil
         THEN /\ At(p, "out")
              /\ slips' = slips \cup (IF ttPc[p] = "open" THEN {"cleared"} ELSE {})
              /\ UNCHANGED mine
         ELSE /\ At(p, "closing") /\ mine' = [mine EXCEPT ![p] = driverData]
              /\ slips' = slips \cup (IF mine[p] = Nil THEN {"not his"} ELSE {})
    /\ UNCHANGED <<tinies, tinyTable, ttyMade, driverData, semOf, unloaded, ttFault>>

\* do_close; a port that was never opened is left alone.
Closed(tiny) == IF tiny.count = 0 THEN tiny
                ELSE LET less == [tiny EXCEPT !.count = @ - 1]
                     IN  IF less.count = 0 THEN Deleted(less) ELSE less
Stops(tiny) == tiny.count = 1

\* What happens when the timer of tiny is deleted while it runs, or is NULL.
Disturbed(tiny) == IF tiny.running # 0 THEN {"running"} ELSE {}
NullTimer(tiny) == IF tiny.timer = "none" THEN {"null timer"} ELSE {}

TtDoClose(p) ==
    LET tiny == tinies[mine[p]] IN
    /\ ttPc[p] = "closing" /\ semOf[mine[p]] = NoProc
    /\ tinies' = [tinies EXCEPT ![mine[p]] = Closed(@)]
    /\ slips' = slips \cup (IF Stops(tiny) THEN Disturbed(tiny) ELSE {})
    /\ ttFault' = ttFault \cup (IF Stops(tiny) THEN NullTimer(tiny) ELSE {})
    /\ At(p, "out")
    /\ UNCHANGED <<tinyTable, ttyMade, driverData, mine, semOf, unloaded>>

\* tiny_timer starts, and looks the tty up; it uses it, and adds itself again.
TtTimer(t) ==
    /\ \/ /\ tinies[t].timer = "pending" /\ tinies[t].running = 0
          /\ tinies' = [tinies EXCEPT ![t].timer = "idle", ![t].running = tinies[t].tty]
          /\ ttFault' = ttFault \cup (IF unloaded THEN {"unloaded"} ELSE {})
       \/ /\ tinies[t].running # 0
          /\ tinies' = [tinies EXCEPT ![t] = [Added(@) EXCEPT !.running = 0]]
          /\ ttFault' = ttFault \cup (IF ~TtyAlive(tinies[t].running) THEN {"freed tty"} ELSE {})
                                \cup (IF unloaded THEN {"unloaded"} ELSE {})
    /\ UNCHANGED <<tinyTable, ttyMade, driverData, ttPc, mine, semOf, unloaded, slips>>

\* tiny_exit: the module is in use as long as a file is open.
TtExit ==
    /\ ~unloaded /\ HasTty = {} /\ unloaded' = TRUE
    /\ IF tinyTable = Nil THEN UNCHANGED <<tinies, tinyTable, slips, ttFault>>
       ELSE LET tiny == tinies[tinyTable] IN
            /\ tinies' = [tinies EXCEPT ![tinyTable] = [Deleted(@) EXCEPT !.count = 0]]
            /\ slips' = slips \cup Disturbed(tiny)
            /\ ttFault' = ttFault \cup NullTimer(tiny)
            /\ tinyTable' = Nil
    /\ UNCHANGED <<ttyMade, driverData, ttPc, mine, semOf>>

\* A behaviour is followed to its first fault or its second slip.
TtNext ==
    /\ ttFault = {} /\ Cardinality(slips) <= 1
    /\ \/ \E p \in TtProcs : TtOpen(p) \/ TtCreate(p) \/ TtLock(p) \/ TtTimerMade(p)
                                \/ TtWrite(p) \/ TtClose(p) \/ TtDoClose(p)
       \/ \E t \in Made : TtTimer(t)
       \/ TtExit

TtSpec == TtInit /\ [][TtNext]_ttVars

-----------------------------------------------------------------------------
TtTypeOK ==
    /\ Made = 1..Cardinality(Made) /\ tinyTable \in {Nil} \cup Made
    /\ \A t \in Made : tinies[t].timer \in {"none", "idle", "pending"} /\ tinies[t].count \in 0..MaxCount
    /\ driverData \in {Nil} \cup Made

Openers == {p \in TtProcs : ttPc[p] \in {"timer", "open", "writing", "closing"}}

\* Whoever has opened the port is counted in the structure of the table, but
\* for those windows of tiny_open and tiny_close that TtTimerSane names.
TtOpensCounted ==
    slips \subseteq {"running"} /\ tinyTable # Nil => tinies[tinyTable].count = Cardinality(Openers)

Runs(tiny) == tiny.timer = "pending" \/ tiny.running # 0

\* The timer runs for a tty that is there and a port that is open, it is added
\* once, and del_timer is given one, unless two first opens have made two
\* structures (tiny_tty.c:101-112), an open has set driver_data to NULL for
\* those who have the port open (97), a failed open is closed in the structure
\* of another one (106, 168), the timer was deleted while its function ran
\* (160), or there was no memory for it (128).
TtTimerSane ==
    /\ slips = {} => /\ ttFault = {}
                     /\ \A t \in Made : Runs(tinies[t]) => tinies[t].count > 0 /\ TtyAlive(tinies[t].tty)
    /\ "null timer" \in ttFault => slips \cap {"no timer", "not his", "lost"} # {}
    /\ "added twice" \in ttFault => slips \cap {"running"} # {}
    /\ "unloaded" \in ttFault => slips \cap {"running", "lost"} # {}

\* A port that is open gets characters.
TtCharactersComing ==
    slips \subseteq {"lost"} /\ (\E p \in TtProcs : ttPc[p] \in {"open", "writing"})
        => \E t \in Made : Runs(tinies[t]) /\ tinies[t].tty = ttyMade
-----------------------------------------------------------------------------
(* tiny_serial.c, whose port the core's uart layer opens and shuts down     *)
(* once.  The layer keeps a transmit buffer, and writers that find it full. *)

VARIABLES
    tsFiles, tsTty,      \* open files; the tty, by number
    tsState,             \* "down", "up", or "closing" until the tty is freed
    tsTimer, tsRunning,  \* as in tinies
    xmit, xChar,         \* characters to send, and whether XON or XOFF is to be
    txStopped, tsAsleep, \* flow control; somebody waits for room
    tsSlip, tsFault      \* history: a close while the timer function ran

tsVars == <<tsFiles, tsTty, tsState, tsTimer, tsRunning, xmit, xChar, txStopped, tsAsleep, tsSlip, tsFault>>
tsLines == <<xmit, xChar, txStopped, tsAsleep>>

TsInit ==
    /\ tsFiles = 0 /\ tsTty = 0 /\ tsState = "down"
    /\ tsTimer = "none" /\ tsRunning = 0
    /\ xmit = 0 /\ xChar = FALSE /\ txStopped = FALSE /\ tsAsleep = FALSE
    /\ tsSlip = {} /\ tsFault = "none"

\* tiny_startup, for the first file; it may fail for want of memory.
TsStartup ==
    /\ tsState = "down" /\ tsTty < MaxTtys
    /\ tsState' = "up" /\ tsFiles' = 1 /\ tsTty' = tsTty + 1
    /\ tsTimer' = "pending"
    /\ tsFault' = IF tsTimer = "pending" THEN "added twice" ELSE tsFault
    /\ UNCHANGED <<tsRunning, tsLines, tsSlip>>

TsOpenAgain ==
    /\ tsState = "up" /\ tsFiles < MaxCount /\ tsFiles' = tsFiles + 1
    /\ UNCHANGED <<tsTty, tsState, tsTimer, tsRunning, tsLines, tsSlip, tsFault>>

\* A close, with tiny_shutdown for the last one.  The layer forgets the tty
\* only after that.
TsClose ==
    /\ tsState = "up" /\ (tsFiles > 1 \/ ~tsAsleep)
    /\ tsFiles' = tsFiles - 1
    /\ IF tsFiles = 1
         THEN /\ tsState' = "closing" /\ xmit' = 0 /\ xChar' = FALSE /\ txStopped' = FALSE
              /\ tsTimer' = IF tsTimer = "pending" THEN "idle" ELSE tsTimer
              /\ tsSlip' = IF tsRunning # 0 THEN tsSlip \cup {"shutdown"} ELSE tsSlip
         ELSE UNCHANGED <<tsState, xmit, xChar, txStopped, tsTimer, tsSlip>>
    /\ UNCHANGED <<tsTty, tsRunning, tsAsleep, tsFault>>

TsForget ==
    /\ tsState = "closing" /\ tsState' = "down"
    /\ tsSlip' = IF tsRunning # 0 THEN tsSlip \cup {"forget"} ELSE tsSlip
    /\ UNCHANGED <<tsFiles, tsTty, tsTimer, tsRunning, tsLines, tsFault>>

\* tiny_tx_chars: an XON or XOFF goes first; fifosize is 0, so one character.
Room == xmit' < Wakeup

TsTxChars ==
    \/ xChar /\ xChar' = FALSE /\ UNCHANGED <<xmit, txStopped, tsAsleep>>
    \/ ~xChar /\ (xmit = 0 \/ txStopped) /\ UNCHANGED tsLines
    \/ /\ ~xChar /\ xmit > 0 /\ ~txStopped
       /\ xmit' = xmit - 1
       /\ tsAsleep' = (tsAsleep /\ ~Room)
       /\ UNCHANGED <<xChar, txStopped>>

\* tiny_timer: without a tty it ends, and does not add itself again.
TsTimerFires ==
    /\ tsTimer = "pending" /\ tsRunning = 0
    /\ tsTimer' = "idle"
    /\ tsRunning' = IF tsState = "down" THEN 0 ELSE tsTty
    /\ UNCHANGED <<tsFiles, tsTty, tsState, tsLines, tsSlip, tsFault>>

TsTimerRuns ==
    /\ tsRunning # 0 /\ tsRunning' = 0 /\ tsTimer' = "pending"
    /\ tsFault' = IF tsRunning # tsTty \/ tsState = "down" THEN "freed tty" ELSE tsFault
    /\ TsTxChars
    /\ UNCHANGED <<tsFiles, tsTty, tsState, tsSlip>>

\* What the users of the port do.
TsUse ==
    /\ tsState = "up"
    /\ \/ xmit < XmitSize /\ ~tsAsleep /\ xmit' = xmit + 1 /\ UNCHANGED <<xChar, txStopped, tsAsleep>>
       \/ xmit = XmitSize /\ tsAsleep' = TRUE /\ UNCHANGED <<xmit, xChar, txStopped>>
       \/ xChar' = TRUE /\ UNCHANGED <<xmit, txStopped, tsAsleep>>
       \/ txStopped' = ~txStopped /\ UNCHANGED <<xmit, xChar, tsAsleep>>
    /\ UNCHANGED <<tsFiles, tsTty, tsState, tsTimer, tsRunning, tsSlip, tsFault>>

TsNext ==
    /\ tsFault = "none"
    /\ \/ TsStartup \/ TsOpenAgain \/ TsClose \/ TsForget
       \/ TsTimerFires \/ TsTimerRuns \/ TsUse

-----------------------------------------------------------------------------
\* The timer of tiny_serial uses a tty that is there, unless it had looked the
\* tty up before the tty was freed (tiny_serial.c:106-112), and is added once,
\* unless it was deleted while its function ran (215).
TsTimerSane ==
    /\ tsFault = "freed tty" => "forget" \in tsSlip
    /\ tsFault = "added twice" => "shutdown" \in tsSlip

\* Whatever races there were, a port that is up has its timer, and so has a
\* writer that sleeps until the buffer has room (tiny_serial.c:84).
TsTimerComing ==
    /\ tsState = "up" => tsTimer = "pending" \/ tsRunning # 0
    /\ tsAsleep => tsState = "up" /\ xmit >= Wakeup
=============================================================================
