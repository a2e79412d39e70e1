---------------------------- MODULE UpdateServer ----------------------------
(***************************************************************************)
(* The threads of server_tool and the descriptors they share: the accept   *)
(* loop of main, one handle_tcp_connection thread per connection, and the  *)
(* heard_beat_thread each of those starts.  What the threads say is        *)
(* UpdateSession's matter; here a packet is something whose bytes are sent  *)
(* while send_lock is held, and a heartbeat carries an address.            *)
(*                                                                         *)
(* main passes every thread the address of one and the same variable; a    *)
(* handler passes its heartbeat thread addresses in its own stack frame.   *)
(***************************************************************************)
EXTENDS Integers, FiniteSets

CONSTANTS
    Clients,     \* connections, each from an address of its own
    Handlers,    \* threads pthread_create may give
    Descriptors, \* numbers of the descriptors the process may open
    NoClient

ASSUME ServerAssumption ==
    /\ Descriptors \subseteq Nat
    /\ IsFiniteSet(Descriptors)
    /\ NoClient \notin Clients

VARIABLES
    backlog,   \* connections not accepted yet
    owner,     \* owner[d]: the connection open at descriptor d
    dead,      \* clients that are gone
    reset,     \* those whose connection was reset: recv fails, once
    mpc,       \* control of main
    accepted,  \* the connection main accepted last
    arg,       \* connt_thread_arg, in main's frame
    hpc,       \* control of the handler threads
    harg,      \* their copies of connt_thread_arg
    quit,      \* FALSE: heart_beat_thread_quit was cleared
    lock,      \* holder of a handler's send_lock
    bpc,       \* control of the heartbeat threads
    barg,      \* their copies of heard_beat_thread_arg
    raced      \* main overwrote arg before a thread had copied it

mainVars    == <<backlog, mpc, accepted, arg, raced>>
handlerVars == <<hpc, harg, quit>>
beatVars    == <<bpc, barg>>
vars == <<backlog, owner, dead, reset, mpc, accepted, arg, hpc, harg, quit,
          lock, bpc, barg, raced>>

NoArg     == [sock |-> 0, ip |-> NoClient]
ThreadArg == [sock : Descriptors \cup {0}, ip : Clients \cup {NoClient}]

TypeOK ==
    /\ backlog \subseteq Clients
    /\ owner \in [Descriptors -> Clients \cup {NoClient}]
    /\ dead \subseteq Clients
    /\ reset \subseteq dead
    /\ mpc \in {"accept", "address", "create", "exited"}
    /\ accepted \in Clients \cup {NoClient}
    /\ arg \in ThreadArg
    /\ hpc \in [Handlers -> {"none", "start", "half", "spawn", "recv", "lock",
                             "send", "quit", "close", "gone"}]
    /\ harg \in [Handlers -> ThreadArg]
    /\ quit \in [Handlers -> BOOLEAN]
    /\ lock \in [Handlers -> {"free", "handler", "beat"}]
    /\ bpc \in [Handlers -> {"none", "start", "check", "lock", "send", "gone"}]
    /\ barg \in [Handlers -> ThreadArg]
    /\ raced \in BOOLEAN

Init ==
    /\ backlog = Clients
    /\ owner = [d \in Descriptors |-> NoClient]
    /\ dead = {}
    /\ reset = {}
    /\ mpc = "accept"
    /\ accepted = NoClient
    /\ arg = NoArg
    /\ hpc = [h \in Handlers |-> "none"]
    /\ harg = [h \in Handlers |-> NoArg]
    /\ quit = [h \in Handlers |-> FALSE]
    /\ lock = [h \in Handlers |-> "free"]
    /\ bpc = [h \in Handlers |-> "none"]
    /\ barg = [h \in Handlers |-> NoArg]
    /\ raced = FALSE

Open(d) == d # 0 /\ owner[d] # NoClient
Free    == {d \in Descriptors : owner[d] = NoClient}
Lowest(S) == CHOOSE d \in S : \A e \in S : d <= e

---------------------------------------------------------------------------
(* main                                                                    *)

\* accept returns the lowest free descriptor, or -1 when none is left.
Accepted == IF Free = {} THEN -1 ELSE Lowest(Free)

Failed(sock) == sock < 0

\* connt_thread_arg.sock is overwritten whether or not the last thread has
\* copied it.
Accept(c) ==
    /\ mpc = "accept"
    /\ c \in backlog
    /\ ~Failed(Accepted)
    /\ backlog' = backlog \ {c}
    /\ owner' = [owner EXCEPT ![Accepted] = c]
    /\ arg' = [arg EXCEPT !.sock = Accepted]
    /\ accepted' = c
    /\ raced' = (raced \/ \E h \in Handlers : hpc[h] \in {"start", "half"})
    /\ mpc' = "address"
    /\ UNCHANGED <<dead, reset, handlerVars, lock, beatVars>>

\* No descriptor is left: "Server accept error!", and main returns, which
\* ends the process with every session in it.
AcceptFails ==
    /\ mpc = "accept"
    /\ backlog # {}
    /\ Failed(Accepted)
    /\ mpc' = "exited"
    /\ owner' = [d \in Descriptors |-> NoClient]
    /\ hpc' = [h \in Handlers |-> "gone"]
    /\ bpc' = [h \in Handlers |-> "gone"]
    /\ UNCHANGED <<backlog, dead, reset, accepted, arg, harg, quit, lock, barg,
                   raced>>

\* (A slip would leave the address of the connection before.)
StaleAddress == arg.ip
Address == accepted

FillAddress ==
    /\ mpc = "address"
    /\ arg' = [arg EXCEPT !.ip = Address]
    /\ mpc' = "create"
    /\ UNCHANGED <<backlog, owner, dead, reset, accepted, handlerVars, lock,
                   beatVars, raced>>

CreateHandler(h) ==
    /\ mpc = "create"
    /\ hpc[h] = "none"
    /\ hpc' = [hpc EXCEPT ![h] = "start"]
    /\ mpc' = "accept"
    /\ UNCHANGED <<backlog, owner, dead, reset, accepted, arg, harg, quit, lock,
                   beatVars, raced>>

---------------------------------------------------------------------------
(* handle_tcp_connection                                                   *)

\* The struct is copied field by field out of main's frame.
CopySock(h) ==
    /\ hpc[h] = "start"
    /\ harg' = [harg EXCEPT ![h].sock = arg.sock]
    /\ hpc' = [hpc EXCEPT ![h] = "half"]
    /\ UNCHANGED <<mainVars, owner, dead, reset, quit, lock, beatVars>>

CopyAddress(h) ==
    /\ hpc[h] = "half"
    /\ harg' = [harg EXCEPT ![h].ip = arg.ip]
    /\ hpc' = [hpc EXCEPT ![h] = "spawn"]
    /\ UNCHANGED <<mainVars, owner, dead, reset, quit, lock, beatVars>>

SpawnHeartbeat(h) ==
    /\ hpc[h] = "spawn"
    /\ quit' = [quit EXCEPT ![h] = TRUE]
    /\ bpc' = [bpc EXCEPT ![h] = "start"]
    /\ hpc' = [hpc EXCEPT ![h] = "recv"]
    /\ UNCHANGED <<mainVars, owner, dead, reset, harg, lock, barg>>

\* recv_data returns a packet, or -1 when the connection was reset; the thread
\* answers, be it with stop_update, or gives up.  When the client closed the
\* connection, recv returns 0, which the loop takes for 0 bytes more: it never
\* returns, and neither does this thread.
PeerClosed(c) == c \in dead /\ c \notin reset
Recv(h) ==
    /\ hpc[h] = "recv"
    /\ LET d == harg[h].sock IN Open(d) => ~PeerClosed(owner[d])
    /\ \E next \in {"lock", "quit"} : hpc' = [hpc EXCEPT ![h] = next]
    /\ UNCHANGED <<mainVars, owner, dead, reset, harg, quit, lock, beatVars>>

\* send_data holds send_lock for the whole packet.  (A slip would not.)
MayLockAlways(h) == TRUE
MayLock(h) == lock[h] = "free"

Lock(h) ==
    /\ hpc[h] = "lock"
    /\ MayLock(h)
    /\ lock' = [lock EXCEPT ![h] = "handler"]
    /\ hpc' = [hpc EXCEPT ![h] = "send"]
    /\ UNCHANGED <<mainVars, owner, dead, reset, harg, quit, beatVars>>

Sent(h) ==
    /\ hpc[h] = "send"
    /\ lock' = [lock EXCEPT ![h] = "free"]
    /\ \E next \in IF Open(harg[h].sock) THEN {"recv", "quit"} ELSE {"quit"} :
         hpc' = [hpc EXCEPT ![h] = next]
    /\ UNCHANGED <<mainVars, owner, dead, reset, harg, quit, beatVars>>

\* The heartbeat thread is told to stop; it is not waited for.
StopHeartbeat(h) ==
    /\ hpc[h] = "quit"
    /\ quit' = [quit EXCEPT ![h] = FALSE]
    /\ hpc' = [hpc EXCEPT ![h] = "close"]
    /\ UNCHANGED <<mainVars, owner, dead, reset, harg, lock, beatVars>>

\* close(sock) gives the descriptor back, and the frame goes with the thread.
\* (A slip would close it at the last packet and go on.)
AfterCloseRecv(h) == "recv"
AfterClose(h) == "gone"

Close(h) ==
    /\ hpc[h] = "close"
    /\ owner' = IF harg[h].sock = 0 THEN owner
                ELSE [owner EXCEPT ![harg[h].sock] = NoClient]
    /\ hpc' = [hpc EXCEPT ![h] = AfterClose(h)]
    /\ UNCHANGED <<mainVars, dead, reset, harg, quit, lock, beatVars>>

---------------------------------------------------------------------------
(* heard_beat_thread                                                       *)

\* The frames the addresses it was given may point into: once its handler has
\* returned, the frame is free and may be that of another handler.
Frames(h) ==
    IF hpc[h] # "gone" THEN {h}
    ELSE {h} \cup {k \in Handlers : hpc[k] \notin {"none", "gone"}}

BeatStart(h) ==
    /\ bpc[h] = "start"
    /\ \E k \in Frames(h) : barg' = [barg EXCEPT ![h] = harg[k]]
    /\ bpc' = [bpc EXCEPT ![h] = "check"]
    /\ UNCHANGED <<mainVars, owner, dead, reset, handlerVars, lock>>

\* while (*quit_flag), at the start and after each sleep of 5 seconds.
BeatCheck(h) ==
    /\ bpc[h] = "check"
    /\ \E k \in Frames(h) :
         bpc' = [bpc EXCEPT ![h] = IF quit[k] THEN "lock" ELSE "gone"]
    /\ UNCHANGED <<mainVars, owner, dead, reset, handlerVars, lock, barg>>

\* send_lock excludes nobody once the handler has destroyed it.
Destroyed(h) == hpc[h] \in {"close", "gone"}

BeatLock(h) ==
    /\ bpc[h] = "lock"
    /\ \/ /\ ~Destroyed(h)
          /\ MayLock(h)
          /\ lock' = [lock EXCEPT ![h] = "beat"]
       \/ Destroyed(h) /\ UNCHANGED lock
    /\ bpc' = [bpc EXCEPT ![h] = "send"]
    /\ UNCHANGED <<mainVars, owner, dead, reset, handlerVars, barg>>

\* The heartbeat goes to whatever connection the descriptor is now.  A reset
\* is reported once: if send reports it here, recv will return 0 there.
BeatSent(h) ==
    /\ bpc[h] = "send"
    /\ lock' = IF lock[h] = "beat" THEN [lock EXCEPT ![h] = "free"] ELSE lock
    /\ LET d == barg[h].sock IN
         \/ /\ Open(d)
            /\ bpc' = [bpc EXCEPT ![h] = "check"]
            /\ UNCHANGED reset
         \/ /\ Open(d) => owner[d] \in dead
            /\ reset' = IF Open(d) THEN reset \ {owner[d]} ELSE reset
            /\ bpc' = [bpc EXCEPT ![h] = "gone"]
    /\ UNCHANGED <<mainVars, owner, dead, handlerVars, barg>>

---------------------------------------------------------------------------
\* A client exits or is killed: its end is closed, or reset if it left
\* something unread.
ClientDies(c) ==
    /\ c \notin backlog \cup dead
    /\ dead' = dead \cup {c}
    /\ reset' \in {reset, reset \cup {c}}
    /\ UNCHANGED <<mainVars, owner, handlerVars, lock, beatVars>>

Main == \/ \E c \in Clients : Accept(c)
        \/ AcceptFails
        \/ FillAddress
        \/ \E h \in Handlers : CreateHandler(h)

Handler(h) == \/ CopySock(h) \/ CopyAddress(h) \/ SpawnHeartbeat(h) \/ Recv(h)
              \/ Lock(h) \/ Sent(h) \/ StopHeartbeat(h) \/ Close(h)

Heartbeat(h) == BeatStart(h) \/ BeatCheck(h) \/ BeatLock(h) \/ BeatSent(h)

Next ==
    \/ Main
    \/ \E h \in Handlers : Handler(h) \/ Heartbeat(h)
    \/ \E c \in Clients : ClientDies(c)

Spec == Init /\ [][Next]_vars

---------------------------------------------------------------------------
(* What the threads owe each other.                                        *)

Serving(h) == hpc[h] \in {"spawn", "recv", "lock", "send", "quit", "close"}

\* The thread of a session that is in the middle of a packet, and the
\* descriptor it is sending it on.
HandlerSends(h, d) == hpc[h] = "send" /\ harg[h].sock = d /\ Open(d)
BeatSends(h, d)    == bpc[h] = "send" /\ barg[h].sock = d /\ Open(d)

\* As long as a session lasts, its heartbeats and its data packets are not
\* interleaved: send_lock is held for a whole packet.
SessionFramesWhole ==
    \A h \in Handlers : ~(hpc[h] = "send" /\ bpc[h] = "send")

\* Two live sessions share a descriptor only if main overwrote the argument
\* of a thread that had not copied it yet (connt_thread_arg in main).
SharedOnlyByRace ==
    (\E h, k \in Handlers : /\ h # k /\ Serving(h) /\ Serving(k)
                            /\ harg[h].sock = harg[k].sock) => raced

\* An address is only ever paired with another session's descriptor by that
\* race: a session's own copy is consistent.
AddressMatches ==
    \A h \in Handlers :
        /\ Serving(h)
        /\ Open(harg[h].sock)
        /\ ~raced
        => owner[harg[h].sock] = harg[h].ip

=============================================================================
