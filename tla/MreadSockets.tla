---------------------------- MODULE MreadSockets ----------------------------
(***************************************************************************)
(* The clients of the server of src/c/ctest/test_other1/servers: the slots *)
(* of sockets[] with their free list, the descriptors and the map from     *)
(* them to slots, the queue of events of the last epoll_wait, and for each *)
(* request a thread of send_file (rw.c), which shares the slot with the    *)
(* main loop and locks nothing.                                            *)
(*                                                                         *)
(* What mread_pull finds is left open here, see MreadPull: a whole request,*)
(* a part of one or nothing, the end, or a ring with no room, for which a  *)
(* client that sent a part of a request is closed.                         *)
(*                                                                         *)
(* The descriptors that the senders open for their file are not followed:  *)
(* they keep numbers busy, so that accept may return any number that no    *)
(* connection has.                                                         *)
(***************************************************************************)
EXTENDS Integers, FiniteSets, FiniteSetsExt, Sequences, SequencesExt

CONSTANTS TableSize, MaxConnection, Fds, Conns, ReadQueue, Listen, MaxConnects, MaxFailures

NoConn == "none"

ASSUME SocketsAssumption ==
    /\ TableSize \in Nat \ {0}
    /\ MaxConnection \in 1..(TableSize - 1) /\ ReadQueue \in Nat \ {0}
    /\ Fds \subseteq Nat /\ IsFiniteSet(Fds) /\ MaxConnects \in Nat /\ MaxFailures \in Nat
    /\ Listen \notin Fds /\ NoConn \notin Conns

---------------------------------------------------------------------------
(* The hash map of map.c, from descriptors to the slots of their clients.  *)
(* The nodes of the table double as the buckets: a descriptor that finds   *)
(* its bucket taken goes to any free node, which is linked behind the last *)
(* node of the walk.  map_erase leaves the links as they are.              *)

Nodes == 0..(TableSize - 1)
NoNode == -1
NoFd == -1

NewMap == [n \in Nodes |-> [fd |-> NoFd, id |-> 0, next |-> NoNode]]

\* TableSize is a power of two, and fd & (size - 1) the remainder.
Hash(fd) == fd % TableSize

\* The node that a walk from the bucket of fd reaches in k steps, or NoNode.
Reach(map, fd, k) ==
    LET at[i \in Nat] == IF i = 0 THEN Hash(fd)
                         ELSE IF at[i - 1] = NoNode THEN NoNode ELSE map[at[i - 1]].next
    IN  at[k]

Walk(map, fd) == {Reach(map, fd, k) : k \in 0..TableSize} \ {NoNode}

\* The walk goes round in a circle: it does not end within the table.
Circles(map, fd) == Reach(map, fd, TableSize) # NoNode

\* Where fd is, if the walk finds it.
Holding(map, fd) == {n \in Walk(map, fd) : map[n].fd = fd}

\* map_search finds the first node with fd, ends without one, or never ends.
SearchEnds(map, fd) == Holding(map, fd) # {} \/ ~Circles(map, fd)
Search(map, fd) ==
    IF Holding(map, fd) = {} THEN -1
    ELSE LET k == Min({i \in 0..TableSize : Reach(map, fd, i) \in Holding(map, fd)})
         IN  map[Reach(map, fd, k)].id

\* map_insert takes the first free node of the walk, or else the first free
\* node of the table, and links it to the last node of the walk.
FreeOnWalk(map, fd) == {k \in 0..TableSize : Reach(map, fd, k) # NoNode /\ map[Reach(map, fd, k)].fd = NoFd}
FreeNodes(map) == {n \in Nodes : map[n].fd = NoFd}
InsertEnds(map, fd) == FreeOnWalk(map, fd) # {} \/ ~Circles(map, fd)
LastOnWalk(map, fd) == CHOOSE n \in Walk(map, fd) : map[n].next = NoNode

Insert(map, fd, id) ==
    IF FreeOnWalk(map, fd) # {}
    THEN [map EXCEPT ![Reach(map, fd, Min(FreeOnWalk(map, fd)))] = [@ EXCEPT !.fd = fd, !.id = id]]
    ELSE LET n == Min(FreeNodes(map))
         IN  [map EXCEPT ![n] = [@ EXCEPT !.fd = fd, !.id = id],
                         ![LastOnWalk(map, fd)].next = n]

\* A slip: the node is taken out of the walk, and what was behind it is lost.
CutsOff(map, fd) ==
    IF Holding(map, fd) = {} THEN map
    ELSE LET n == CHOOSE h \in Holding(map, fd) : TRUE
         IN  [map EXCEPT ![n].fd = NoFd, ![n].next = NoNode]

\* map_erase frees the node that holds fd.
Erase(map, fd) ==
    IF Holding(map, fd) = {} THEN map
    ELSE LET k == Min({i \in 0..TableSize : Reach(map, fd, i) \in Holding(map, fd)})
         IN  [map EXCEPT ![Reach(map, fd, k)].fd = NoFd]

---------------------------------------------------------------------------
(* The server and its clients                                              *)

Sockets == 0..(MaxConnection - 1)

Null == -1
\* What free_socket - sockets is when free_socket is NULL: a number that is
\* not a slot.  A negative one ends the free list, like Null.
Wild == -2

VARIABLES
    sock,           \* of each slot: fd, status and pthread_flag
    freeSock,       \* free_socket, as an index
    msClosed, msActive, queue,
    table,          \* socket_hash
    at,             \* of the main loop
    owner,          \* the connection of each descriptor
    conn,           \* each connection, as its client sees it
    asked,          \* its request is on the way
    sender, place,  \* the thread of its request, and the slot it was given
    excused,        \* connections whose sender could not know, see WritesReachTheirClient
    astray,         \* another one's sender wrote to the wrong client
    full, chained,  \* the free list was empty; a bucket was taken
    lost,           \* slots that epoll_ctl cost
    msFault           \* what stopped the server

registry == <<sock, freeSock, table>>
clients == <<owner, conn, asked>>
loopVars == <<msClosed, msActive, queue, at>>
threads == <<sender, place, excused>>
history == <<astray, full, chained, lost, msFault>>
msVars == <<registry, clients, loopVars, threads, history>>

\* _create_sockets: each slot names the next free one.
MsInit ==
    /\ sock = [s \in Sockets |-> [fd |-> IF s + 1 \in Sockets THEN s + 1 ELSE Null, status |-> "invalid", flag |-> TRUE]]
    /\ freeSock = 0
    /\ msClosed = 0 /\ msActive = Null /\ queue = <<>>
    /\ table = NewMap
    /\ at = "poll"
    /\ owner = [f \in Fds |-> NoConn]
    /\ conn = [c \in Conns |-> "new"]
    /\ asked = [c \in Conns |-> FALSE]
    /\ sender = [c \in Conns |-> "none"]
    /\ place = [c \in Conns |-> Null]
    /\ excused = {} /\ astray = FALSE
    /\ full = FALSE /\ chained = FALSE
    /\ lost = {} /\ msFault = "none"

---------------------------------------------------------------------------
(* The clients                                                             *)

\* A client connects and asks for the file.
Connect(c) ==
    /\ conn[c] = "new" /\ Cardinality({d \in Conns : conn[d] # "new"}) < MaxConnects
    /\ conn' = [conn EXCEPT ![c] = "waiting"]
    /\ asked' = [asked EXCEPT ![c] = TRUE]
    /\ UNCHANGED <<registry, loopVars, threads, history, owner>>

HangUp(c) ==
    /\ conn[c] = "up"
    /\ conn' = [conn EXCEPT ![c] = "ended"]
    /\ UNCHANGED <<registry, loopVars, threads, history, owner, asked>>

---------------------------------------------------------------------------
(* mread_poll                                                              *)

Waiting == {c \in Conns : conn[c] = "waiting"}
Ready == {f \in Fds : owner[f] # NoConn /\ (asked[owner[f]] \/ conn[owner[f]] \in {"ended", "reset"})}
             \cup (IF Waiting # {} THEN {Listen} ELSE {})

\* epoll_wait reports at most ReadQueue of the descriptors that are ready.
ReadEvents ==
    /\ at = "poll" /\ msClosed = 0 /\ queue = <<>> /\ Ready # {}
    /\ \E q \in UNION {SetToSeqs(set) : set \in kSubset(Min({ReadQueue, Cardinality(Ready)}), Ready)} : queue' = q
    /\ UNCHANGED <<registry, clients, threads, history, msClosed, msActive, at>>

Halt(why) ==
    /\ msFault' = why /\ at' = "stopped"
    /\ UNCHANGED <<registry, clients, threads, msClosed, msActive, queue, astray, full, chained, lost>>

\* _add_client and _alloc_socket: without a slot the connection is closed, and
\* when epoll_ctl fails the slot is not given back.
NoSlot(c) ==
    /\ freeSock = Null
    /\ conn' = [conn EXCEPT ![c] = "gone"]
    /\ UNCHANGED <<registry, owner, full, chained, lost>>

NextFree == IF sock[freeSock].fd \in Sockets \cup {Wild} THEN sock[freeSock].fd ELSE Null

EpollFails(c) ==
    /\ freeSock \in Sockets /\ Cardinality(lost) < MaxFailures
    /\ freeSock' = NextFree
    /\ lost' = lost \cup {freeSock}
    /\ full' = (full \/ NextFree = Null)
    /\ conn' = [conn EXCEPT ![c] = "gone"]
    /\ UNCHANGED <<sock, table, owner, chained>>

AddClient(c, f) ==
    /\ freeSock \in Sockets /\ InsertEnds(table, f)
    /\ freeSock' = NextFree
    /\ full' = (full \/ NextFree = Null)
    /\ sock' = [sock EXCEPT ![freeSock].fd = f, ![freeSock].status = "open"]
    /\ table' = Insert(table, f, freeSock)
    /\ chained' = (chained \/ FreeOnWalk(table, f) = {})
    /\ owner' = [owner EXCEPT ![f] = c]
    /\ conn' = [conn EXCEPT ![c] = "up"]
    /\ UNCHANGED lost

\* accept takes a connection, and gives it a descriptor if there is one.
AcceptClient ==
    /\ at = "poll" /\ msClosed = 0 /\ queue # <<>> /\ Head(queue) = Listen
    /\ \/ /\ \E c \in Waiting : \E f \in {g \in Fds : owner[g] = NoConn} :
                NoSlot(c) \/ EpollFails(c) \/ AddClient(c, f)
          /\ queue' = Tail(queue)
          /\ UNCHANGED <<threads, msClosed, msActive, at, asked, astray, msFault>>
       \/ /\ freeSock = Wild /\ Waiting # {} /\ Halt("wild slot")
       \/ /\ freeSock \in Sockets
          /\ \E f \in Fds : owner[f] = NoConn /\ ~InsertEnds(table, f)
          /\ Waiting # {} /\ Halt("circle")
       \/ /\ \A f \in Fds : owner[f] # NoConn
          /\ queue' = Tail(queue)
          /\ UNCHANGED <<registry, clients, threads, history, msClosed, msActive, at>>

\* The event of a client, or of one that is gone since.
PollClient ==
    /\ at = "poll" /\ msClosed = 0 /\ queue # <<>> /\ Head(queue) # Listen
    /\ LET f == Head(queue)
           s == Search(table, f)
       IN  IF SearchEnds(table, f)
           THEN /\ msActive' = s
                /\ at' = IF s = Null THEN "poll" ELSE "pull"
                /\ queue' = Tail(queue)
                /\ UNCHANGED <<registry, clients, threads, history, msClosed>>
           ELSE Halt("circle")

---------------------------------------------------------------------------
(* mread_pull, and what servers() does with what it finds                  *)

\* The senders that use a slot, and those that will not look at its flag
\* before they write.
Users(s) == {c \in Conns : place[c] = s}
Past(s) == {c \in Users(s) : sender[c] # "look"}

\* A slip: the sender is not told.
ClosedSlot(s) == [sock EXCEPT ![s].status = "closed"]

\* _close_client: the flag tells the sender to end.
Shut(s) == [sock EXCEPT ![s].status = "closed", ![s].flag = FALSE]

\* mread_yield puts a closed slot back on the free list.
Given(slots, s, f) == [slots EXCEPT ![s].status = "invalid", ![s].fd = f]
LinkTo == IF freeSock \in Sockets THEN {freeSock} ELSE IF freeSock = Wild THEN {Wild} ELSE {Null, Wild}

CloseConn(s) ==
    /\ owner' = [owner EXCEPT ![sock[s].fd] = NoConn]
    /\ conn' = [conn EXCEPT ![owner[sock[s].fd]] = "gone"]
    /\ asked' = [asked EXCEPT ![owner[sock[s].fd]] = FALSE]
    /\ excused' = excused \cup Past(s)

\* The active client is closed and its slot freed at once.
CloseActive ==
    /\ CloseConn(msActive)
    /\ \E f \in LinkTo : sock' = Given(Shut(msActive), msActive, f)
    /\ freeSock' = msActive
    /\ table' = Erase(table, sock[msActive].fd)
    /\ msActive' = Null /\ at' = "poll"
    /\ UNCHANGED <<history, msClosed, queue, sender, place>>

\* A whole request: the flag is set, and a sender started on the slot.
PullRequest ==
    /\ at = "pull"
    /\ LET c == owner[sock[msActive].fd] IN
       /\ asked[c]
       /\ asked' = [asked EXCEPT ![c] = FALSE]
       /\ sender' = [sender EXCEPT ![c] = "start"]
       /\ place' = [place EXCEPT ![c] = msActive]
    /\ sock' = [sock EXCEPT ![msActive].flag = TRUE]
    /\ excused' = excused \cup Users(msActive)
    /\ msActive' = Null /\ at' = "poll"
    /\ UNCHANGED <<history, freeSock, msClosed, queue, table, owner, conn>>

\* A part of one, or nothing after all.  active is not looked at again before
\* the next event.
PullNothing ==
    /\ at = "pull" /\ at' = "poll" /\ msActive' = Null
    /\ UNCHANGED <<registry, clients, threads, history, msClosed, queue>>

PullEnd ==
    /\ at = "pull"
    /\ LET c == owner[sock[msActive].fd] IN conn[c] \in {"ended", "reset"} /\ ~asked[c]
    /\ CloseActive

\* No room: a client of which a part of a request is in the ring is closed.
PullEvicts ==
    /\ at = "pull"
    /\ \E s \in {t \in Sockets : sock[t].status = "open"} :
        /\ asked[owner[sock[s].fd]]
        /\ IF s = msActive THEN CloseActive
           ELSE /\ CloseConn(s)
                /\ sock' = Shut(s)
                /\ msClosed' = msClosed + 1
                /\ UNCHANGED <<history, freeSock, msActive, queue, table, at, sender, place>>

\* The next mread_poll reports a client that was closed so, and mread_closed
\* frees its slot.
ReportClosed ==
    /\ at = "poll" /\ msClosed > 0
    /\ LET s == Min({t \in Sockets : sock[t].status = "closed"}) IN
       /\ \E f \in LinkTo : sock' = Given(sock, s, f)
       /\ freeSock' = s
       /\ table' = Erase(table, sock[s].fd)
    /\ msClosed' = msClosed - 1 /\ msActive' = Null
    /\ UNCHANGED <<clients, threads, history, queue, at>>

---------------------------------------------------------------------------
(* send_file                                                               *)

\* Whom a write to the descriptor of the slot reaches: the slot may be free,
\* or serve another.
Target(c) == IF sock[place[c]].fd \in Fds THEN owner[sock[place[c]].fd] ELSE NoConn

\* A write to another client that the sender could have known not to make.
Misses(c) == Target(c) \notin {c, NoConn} /\ c \notin excused

\* The sender continues, or ends.
GoesOn(c, on, next) ==
    /\ sender' = [sender EXCEPT ![c] = IF on THEN next ELSE "none"]
    /\ place' = IF on THEN place ELSE [place EXCEPT ![c] = Null]
    /\ excused' = IF on THEN excused ELSE excused \ {c}

\* write: to nobody it fails and the sender ends; a client that is gone
\* answers with a reset, after which the signal SIGPIPE ends the server.
Write(c, next) ==
    LET d == Target(c) IN
    IF d # NoConn /\ conn[d] = "reset"
    THEN Halt("SIGPIPE")
    ELSE /\ GoesOn(c, d # NoConn, next)
         /\ conn' = IF d # NoConn /\ conn[d] = "ended" THEN [conn EXCEPT ![d] = "reset"] ELSE conn
         /\ astray' = (astray \/ Misses(c))
         /\ UNCHANGED <<registry, loopVars, owner, asked, full, chained, lost, msFault>>

\* The size of the file, without a look at the flag.
SendSize(c) == at # "stopped" /\ sender[c] = "start" /\ Write(c, "look")

\* The flag, before every heartbeat and every piece of the file.
Look(c) ==
    /\ at # "stopped" /\ sender[c] = "look"
    /\ GoesOn(c, sock[place[c]].flag, "write")
    /\ UNCHANGED <<registry, clients, loopVars, history>>

SendPiece(c) == at # "stopped" /\ sender[c] = "write" /\ Write(c, "look")

MainLoop ==
    \/ ReadEvents
    \/ AcceptClient
    \/ PollClient
    \/ PullRequest
    \/ PullNothing
    \/ PullEnd
    \/ PullEvicts
    \/ ReportClosed

MsNext ==
    \/ MainLoop
    \/ \E c \in Conns : Connect(c) \/ HangUp(c)
    \/ \E c \in Conns : SendSize(c) \/ Look(c) \/ SendPiece(c)

MsSpec == MsInit /\ [][MsNext]_msVars

---------------------------------------------------------------------------

InService == {s \in Sockets : sock[s].status \in {"open", "closed"}}

\* The event of a client reaches the slot that has its connection, and no two
\* clients share a descriptor or a slot, however descriptors, slots and nodes
\* of the map are used again; the map holds nothing else.
ClientsFound ==
    msFault = "none" =>
        /\ \A s \in InService : Search(table, sock[s].fd) = s
        /\ \A s \in InService : (sock[s].status = "open") = (owner[sock[s].fd] # NoConn)
        /\ {table[n].fd : n \in Nodes} \ {NoFd} = {sock[s].fd : s \in InService}
        /\ \A c \in Conns : conn[c] \in {"up", "ended", "reset"} =>
              Cardinality({s \in Sockets : sock[s].status = "open" /\ owner[sock[s].fd] = c}) = 1

\* The free list from free_socket, as far as it can be followed.
FreeSlots ==
    LET link[k \in Nat] ==
            IF k = 0 THEN freeSock ELSE IF link[k - 1] \in Sockets THEN sock[link[k - 1]].fd ELSE Null
    IN  {link[k] : k \in 0..MaxConnection} \cap Sockets

\* A slot is in use, free, or lost to a failure of epoll_ctl, and closed counts
\* those that wait for mread_closed.
SlotsKept ==
    msFault = "none" =>
        /\ FreeSlots = {s \in Sockets : sock[s].status = "invalid"} \ lost
        /\ msClosed = Cardinality({s \in Sockets : sock[s].status = "closed"})

\* The server is never stuck in the map before a descriptor found its bucket
\* taken (map.c:129), and follows no pointer that is not a slot before all
\* slots were in use at once (server.c:699).
StuckOnlyAfter ==
    /\ msFault = "circle" => chained
    /\ msFault = "wild slot" => full

\* What the server knows of its clients: events find the slot they are for, no
\* slot is lost or held twice, and the search does not hang before a bucket was
\* shared (map.c, mread_poll, mread_closed).
ClientsKept == ClientsFound /\ SlotsKept /\ StuckOnlyAfter

\* A sender writes to the client that asked: to another one only if its own was
\* closed after it looked at the flag, or if the slot was given to the next
\* client, which sets the flag again, before it looked (rw.c:141, main.c:242).
WritesReachTheirClient == ~astray

=============================================================================
