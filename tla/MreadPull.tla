----------------------------- MODULE MreadPull ------------------------------
(***************************************************************************)
(* The ring of blocks of src/c/ctest/test_other1/servers/ringbuffer.c, in  *)
(* which the server keeps what its clients have sent so far.  The ring is  *)
(* cut into blocks that follow each other; the length of a block counts    *)
(* its header, and blocks start at multiples of four.  A block is known by *)
(* its offset.  What a block holds is a sequence of bytes, Junk where no   *)
(* client's is known to lie; a free block holds something only as long as  *)
(* the list of some client leads to it (Seen).                             *)
(*                                                                         *)
(* A head of NoBlock is the wild one that _alloc computes from a NULL      *)
(* block_next when the new block ends where the ring does.                 *)
(***************************************************************************)
EXTENDS Integers, Sequences, FiniteSets, FiniteSetsExt, SequencesExt, Functions

CONSTANTS Size, Header, ReadBlock, Junk

ASSUME RingAssumption ==
    /\ Header \in Nat \ {0} /\ ReadBlock \in Nat \ {0} /\ Size \in Nat
    /\ Size % 4 = 0 /\ Header % 4 = 0 /\ Size >= 2 * ReadBlock

NoBlock == -1
Nobody == -1

ALIGN(s) == ((s + 3) \div 4) * 4

\* A block that is free, and one that was just taken.
FreeBlock(length) == [length |-> length, id |-> Nobody, next |-> NoBlock, offset |-> 0, bytes |-> <<>>]

NewRing == [head |-> 0, blocks |-> [b \in {0} |-> FreeBlock(Size)]]

InUse(ring) == {b \in DOMAIN ring.blocks : ring.blocks[b].length >= Header /\ ring.blocks[b].id # Nobody}

---------------------------------------------------------------------------
(* Taking a block                                                          *)

\* Where a free stretch from h that is long enough ends, at the first such
\* block, and whether only free blocks lie before it.
Ends(ring, h, need) == {e \in DOMAIN ring.blocks \cup {Size} : e - h >= need}
FitsAt(ring, h, need) ==
    /\ Ends(ring, h, need) # {}
    /\ \A b \in InUse(ring) : b >= h => b >= Min(Ends(ring, h, need))
UsedFrom(ring, h) == {b \in InUse(ring) : b >= h}

\* The new block at h swallows the free ones behind it; what is left of them
\* becomes one block.  block_next is NULL at the end of the ring, and the
\* head is computed from it all the same.
Place(ring, h, size) ==
    LET need == ALIGN(Header + size)
        e == Min(Ends(ring, h, need))
        kept == {b \in DOMAIN ring.blocks : b < h \/ b >= e}
        rest == IF h + need < e THEN {h + need} ELSE {}
    IN  [head |-> IF h + need = Size THEN NoBlock ELSE h + need,
         blocks |-> [b \in kept \cup {h} \cup rest |->
                        IF b = h THEN [FreeBlock(Header + size) EXCEPT !.bytes = [i \in 1..size |-> Junk]]
                        ELSE IF b \in rest THEN FreeBlock(e - b)
                        ELSE ring.blocks[b]]]

\* ringbuffer_alloc looks from the head, and then once more from the start,
\* and gives up at the first block in use; the head stays where it looked.
Alloc(ring, size) ==
    LET need == ALIGN(Header + size)
        again == [ring EXCEPT !.head = 0]
    IN  IF FitsAt(ring, ring.head, need)
        THEN [ring |-> Place(ring, ring.head, size), blk |-> ring.head]
        ELSE IF UsedFrom(ring, ring.head) # {} THEN [ring |-> ring, blk |-> NoBlock]
        ELSE IF FitsAt(ring, 0, need) THEN [ring |-> Place(again, 0, size), blk |-> 0]
        ELSE [ring |-> again, blk |-> NoBlock]

\* ringbuffer_resize gives back what recv did not fill.
ResizeAsserts(ring, blk, size) == ALIGN(Header + size) < ALIGN(ring.blocks[blk].length)

Resize(ring, blk, bytes) ==
    LET length == Header + Len(bytes)
        rest == blk + ALIGN(length)
        left == ALIGN(ring.blocks[blk].length) - ALIGN(length)
    IN  [head |-> rest,
         blocks |-> [b \in DOMAIN ring.blocks \cup {rest} |->
                        IF b = blk THEN [FreeBlock(length) EXCEPT !.bytes = bytes]
                        ELSE IF b = rest THEN FreeBlock(left)
                        ELSE ring.blocks[b]]]

---------------------------------------------------------------------------
(* Taking blocks away from a client                                        *)

\* _last_id: the client of the first block in use from the head, or else from
\* the start, where the head is left.
LastId(ring) ==
    LET here == UsedFrom(ring, ring.head)
        from == IF here # {} THEN here ELSE InUse(ring)
    IN  IF from = {} THEN Nobody ELSE ring.blocks[Min(from)].id

\* A block is free once it has no owner; what it holds stays.
Disowned(ring, set) ==
    [ring EXCEPT !.blocks = [b \in DOMAIN ring.blocks |->
        IF b \in set THEN [ring.blocks[b] EXCEPT !.id = Nobody] ELSE ring.blocks[b]]]

\* A slip: only the first block of the client is collected.
CollectsFirst(ring) ==
    LET id == LastId(ring) IN
    Disowned(IF UsedFrom(ring, ring.head) = {} THEN [ring EXCEPT !.head = 0] ELSE ring,
             LET all == {b \in InUse(ring) : ring.blocks[b].id = id}
             IN  IF all = {} THEN {} ELSE {Min(all)})

\* ringbuffer_collect, which frees all the blocks of that client.
Collect(ring) ==
    LET id == LastId(ring) IN
    Disowned(IF UsedFrom(ring, ring.head) = {} THEN [ring EXCEPT !.head = 0] ELSE ring,
             {b \in InUse(ring) : ring.blocks[b].id = id})

---------------------------------------------------------------------------
(* The blocks of one client, linked by their offsets                       *)

\* A header that was written when a block was taken, and not swallowed since.
IsHeader(ring, b) == b \in DOMAIN ring.blocks /\ ring.blocks[b].bytes # <<>>

\* The blocks from blk to the end of its list, as far as the headers are sound
\* and the list does not go round.
Chain(ring, blk) ==
    LET on[chain \in Seq(DOMAIN ring.blocks)] ==
            LET next == ring.blocks[Last(chain)].next IN
            IF IsHeader(ring, next) /\ next \notin ToSet(chain) THEN on[Append(chain, next)] ELSE chain
    IN  IF IsHeader(ring, blk) THEN on[<<blk>>] ELSE <<>>

ListEnds(ring, blk) == IsHeader(ring, blk) /\ ring.blocks[Last(Chain(ring, blk))].next = NoBlock

\* The ring as far as anything can come to look at it: a free block holds
\* nothing that matters unless one of the lists leads to it.
Seen(ring, nodes) ==
    LET listed == UNION {ToSet(Chain(ring, nodes[s])) : s \in DOMAIN nodes} IN
    [ring EXCEPT !.blocks = [b \in DOMAIN ring.blocks |->
        IF ring.blocks[b].id = Nobody /\ b \notin listed THEN FreeBlock(ring.blocks[b].length)
        ELSE ring.blocks[b]]]

\* What a block still has to give.
Unread(ring, b) == SubSeq(ring.blocks[b].bytes, ring.blocks[b].offset + 1, Len(ring.blocks[b].bytes))

\* All that the list has to give, as ringbuffer_data counts it: nobody has read
\* from a block after the first.
PendingBytes(ring, blk) ==
    LET chain == Chain(ring, blk) IN
    FlattenSeq([i \in 1..Len(chain) |->
        IF i = 1 THEN Unread(ring, chain[i]) ELSE ring.blocks[chain[i]].bytes])

\* ringbuffer_link puts a block at the end of the list and gives it its owner.
Linked(ring, head, blk) ==
    [ring EXCEPT !.blocks[blk].id = ring.blocks[head].id,
                 !.blocks[Last(Chain(ring, head))].next = blk]

\* _link_node starts the list when the client has none.
LinkNode(ring, id, node, blk) ==
    IF node = NoBlock THEN [ring EXCEPT !.blocks[blk].id = id] ELSE Linked(ring, node, blk)

\* ringbuffer_free, which asserts that the blocks have one owner.
FreeAsserts(ring, blk) ==
    blk # NoBlock => \A b \in ToSet(Chain(ring, blk)) :
        ring.blocks[b].id # Nobody /\ ring.blocks[b].id = ring.blocks[blk].id
FreeAll(ring, blk) == IF blk = NoBlock THEN ring ELSE Disowned(ring, ToSet(Chain(ring, blk)))

\* ringbuffer_data, whose skip is 0 when it is called: the bytes if the first
\* block has them all, and how many there are otherwise.
Contiguous(ring, blk, size) == Len(Unread(ring, blk)) >= size

\* ringbuffer_copy takes the length of every block after the first with its
\* header: it never goes on to a third block, but copies what lies behind the
\* second.  What it asserts of the second; the copy gets the owner of the block
\* it ended in.
CopyAsserts(ring, blk, size) ==
    LET next == ring.blocks[blk].next IN
    Contiguous(ring, blk, size) \/ (next # NoBlock /\ ring.blocks[next].offset = 0)
CopyOwner(ring, blk, size) ==
    ring.blocks[IF Contiguous(ring, blk, size) THEN blk ELSE ring.blocks[blk].next].id
CopyBytes(ring, blk, size) ==
    LET first == Unread(ring, blk)
        second == ring.blocks[ring.blocks[blk].next].bytes
        wanted == size - Len(first)
    IN  IF Contiguous(ring, blk, size) THEN SubSeq(first, 1, size)
        ELSE first \o [i \in 1..wanted |-> IF i <= Len(second) THEN second[i] ELSE Junk]

\* The first n bytes of a block were read.
Passed(block, n) == [block EXCEPT !.offset = @ + n]

\* What the blocks of the list before the i-th have to give.
Before(ring, chain, i) == FoldLeft(LAMBDA n, b : n + Len(Unread(ring, b)), 0, SubSeq(chain, 1, i - 1))

\* ringbuffer_yield frees the blocks that were read to their end, and moves
\* the offset of the next one.  It asserts that nobody has read from those it
\* comes to after the first.
YieldAsserts(ring, blk, skip) ==
    LET chain == Chain(ring, blk) IN
    \A i \in 2..Len(chain) : Before(ring, chain, i) <= skip => ring.blocks[chain[i]].offset = 0
Yield(ring, blk, skip) ==
    LET chain == Chain(ring, blk)
        before(i) == Before(ring, chain, i)
        whole == {i \in 1..Len(chain) : before(i) + Len(Unread(ring, chain[i])) <= skip}
        freed == Disowned(ring, {chain[i] : i \in whole})
    IN  IF whole = 1..Len(chain) THEN [ring |-> freed, node |-> NoBlock]
        ELSE LET i == Cardinality(whole) + 1
             IN  [ring |-> [freed EXCEPT !.blocks[chain[i]] = Passed(@, skip - before(i))], node |-> chain[i]]

---------------------------------------------------------------------------

\* The blocks cut the ring up: each ends where the next begins.
Whole(ring) ==
    \A b \in DOMAIN ring.blocks :
        LET e == b + ALIGN(ring.blocks[b].length) IN
        /\ e = Size \/ e \in DOMAIN ring.blocks
        /\ \A x \in DOMAIN ring.blocks : x <= b \/ x >= e

-----------------------------------------------------------------------------
(***************************************************************************)
(* How the server of src/c/ctest/test_other1/servers reads the requests of *)
(* many clients through one ring of blocks: servers() of main.c, which     *)
(* repeats mread_poll, mread_pull and mread_closed or mread_yield.  TCP    *)
(* may cut what a client sends anywhere, so a request arrives in pieces,   *)
(* and when the ring is full the client whose data is oldest is closed.    *)
(*                                                                         *)
(* Each slot of sockets[] serves one connection after another; how a slot  *)
(* is found from a descriptor is MreadSockets.  A byte is the slot of the  *)
(* client that sent it, and its place in what the client sent.             *)
(***************************************************************************)

CONSTANTS Slots, Request, MaxSent

ASSUME PullAssumption ==
    /\ Slots \subseteq Nat /\ Slots # {}
    /\ Request \in Nat \ {0} /\ Request <= ReadBlock /\ MaxSent \in Nat

None == -1

VARIABLES
    ring, active, closed,       \* of MREAD_POLL
    status, node,               \* of each SOCKET
    pc, blk, had,               \* where mread_pull is, its block, and the bytes it found before
    peer, sent, taken,          \* the client: its end, bytes sent and received
    given,                      \* bytes of whole requests handed to servers()
    garbled,                    \* one of them, in two pieces or one, was not what was sent
    silent,                     \* a client lost its blocks without being closed
    robbed,                     \* the connections whose list is not their own since
    fault                       \* an assertion or a wild access stopped the server

server == <<ring, active, closed, status, node>>
pulling == <<pc, blk, had>>
clientSide == <<peer, sent>>
flow == <<taken, given>>
told == <<garbled, silent, robbed, fault>>
pullVars == <<server, pulling, clientSide, flow, told>>

PullInit ==
    /\ ring = NewRing
    /\ active = None /\ closed = 0
    /\ status = [s \in Slots |-> "invalid"]
    /\ node = [s \in Slots |-> NoBlock]
    /\ pc = "poll" /\ blk = NoBlock /\ had = 0
    /\ peer = [s \in Slots |-> "none"]
    /\ sent = [s \in Slots |-> 0]
    /\ taken = [s \in Slots |-> 0]
    /\ given = [s \in Slots |-> 0]
    /\ garbled = FALSE
    /\ silent = FALSE /\ robbed = {}
    /\ fault = "none"

\* The bytes of the connection from one place to another.
Stream(s, from, to) == [i \in 1..(to - from) |-> <<s, from + i>>]

---------------------------------------------------------------------------
(* The clients.  What they do while the server makes room for a block      *)
(* cannot be told from what they did before.  Those that are connected     *)
(* send no more than MaxSent bytes together.                               *)

Send(s) ==
    /\ pc = "poll" /\ peer[s] = "open"
    /\ \E n \in 1..(MaxSent - FoldFunction(+, 0, sent)) : sent' = [sent EXCEPT ![s] = @ + n]
    /\ UNCHANGED <<server, pulling, flow, told, peer>>

Leave(s) ==
    /\ pc = "poll" /\ peer[s] = "open"
    /\ peer' = [peer EXCEPT ![s] = "ended"]
    /\ UNCHANGED <<server, pulling, flow, told, sent>>

---------------------------------------------------------------------------
(* The server                                                              *)

\* mread_poll goes on with the client it has, and reports the closed ones,
\* before it looks for events.
Rereads == active # None /\ status[active] = "read"
Looks == pc = "poll" /\ ~Rereads /\ closed = 0

\* A new client, into a slot that is free.
AcceptClient(s) ==
    /\ Looks
    /\ status[s] = "invalid"
    /\ status' = [status EXCEPT ![s] = "suspend"]
    /\ node' = [node EXCEPT ![s] = NoBlock]
    /\ peer' = [peer EXCEPT ![s] = "open"]
    /\ UNCHANGED <<pulling, flow, told, ring, active, closed, sent>>

Stop(why) ==
    /\ fault' = why /\ pc' = "stopped"
    /\ UNCHANGED <<server, clientSide, flow, blk, had, garbled, silent, robbed>>

Done == pc' = "poll" /\ blk' = NoBlock /\ had' = 0

\* A list that leads to a header which was swallowed or written over, or goes
\* round: only the lists of the robbed may, and what the server does with them
\* then is not followed.
Astray(r, b) == b # NoBlock /\ ~ListEnds(r, b)

\* Whom the client s, when its list is not its own, robs in turn: those of
\* whose blocks it changes one.
Robs(s, r) ==
    IF s \notin robbed THEN {}
    ELSE {t \in Slots \ robbed : \E b \in ToSet(Chain(ring, node[t])) : r.blocks[b] # ring.blocks[b]}

\* A request goes to servers(), which starts a sender, and mread_yield passes
\* it over.
Hand(s, r, first, bytes) ==
    LET y == Yield(r, first, Request) IN
    /\ YieldAsserts(r, first, Request)
    /\ node' = [node EXCEPT ![s] = y.node]
    /\ ring' = Seen(y.ring, node')
    /\ active' = IF y.node = NoBlock THEN None ELSE s
    /\ robbed' = robbed \cup Robs(s, y.ring)
    /\ garbled' = \/ garbled
                   \/ /\ s \notin robbed
                      /\ Len(Chain(r, first)) <= 2
                      /\ bytes # Stream(s, given[s], given[s] + Request)
    /\ given' = IF s \in robbed THEN given ELSE [given EXCEPT ![s] = @ + Request]
    /\ Done

\* mread_yield on a client that is closed frees its slot.
Forget(s) ==
    /\ status' = [status EXCEPT ![s] = "invalid"]
    /\ active' = None

FirstRequest(r, first) == SubSeq(Unread(r, first), 1, Request)

\* What mread_pull does with a client that has some of a request: the client
\* whose status is "read" is suspended if it has no whole one left.
PullOn(s) ==
    /\ ~Astray(ring, node[s])
    /\ IF node[s] # NoBlock /\ Contiguous(ring, node[s], Request)
       THEN /\ Hand(s, ring, node[s], FirstRequest(ring, node[s]))
            /\ UNCHANGED status
       ELSE /\ status' = [status EXCEPT ![s] = "suspend"]
            /\ UNCHANGED <<pulling, ring, active, node, given, garbled, robbed>>
    /\ UNCHANGED <<clientSide, closed, taken, silent, fault>>

PollAgain == pc = "poll" /\ Rereads /\ PullOn(active)

\* mread_poll reports a client that was closed to make room: its slot is freed.
PollClosed ==
    /\ pc = "poll" /\ ~Rereads /\ closed > 0 /\ (\E s \in Slots : status[s] = "closed")
    /\ LET s == Min({t \in Slots : status[t] = "closed"}) IN
       /\ Forget(s)
       /\ closed' = closed - 1
    /\ UNCHANGED <<pulling, clientSide, flow, told, ring, node>>

HeadWild == ring.head = NoBlock

\* The block that is asked for, to receive into or to copy a request to.
Searched == Alloc(ring, IF pc = "temp" THEN Request ELSE ReadBlock)
Room == ~HeadWild /\ Searched.blk # NoBlock
Full == ~HeadWild /\ Searched.blk = NoBlock

\* An event on the socket of a client.  What it has may be a whole request if
\* it is robbed, which is handed on; otherwise it has none of a request, or a
\* part of one, and mread_pull asks for a block.  The event may be a stale one,
\* see MreadSockets, and recv find nothing.
PollEvent(s) ==
    /\ Looks /\ status[s] \notin {"invalid", "closed"} /\ ~Astray(ring, node[s])
    /\ status' = [status EXCEPT ![s] = "pollin"]
    /\ IF node[s] # NoBlock /\ Contiguous(ring, node[s], Request)
       THEN Hand(s, ring, node[s], FirstRequest(ring, node[s]))
       ELSE /\ active' = s
            /\ had' = IF node[s] = NoBlock THEN 0 ELSE Min({Request, Len(PendingBytes(ring, node[s]))})
            /\ \/ Room /\ ring' = Seen(Searched.ring, node) /\ blk' = Searched.blk /\ pc' = "recv"
               \/ ~Room /\ pc' = "alloc" /\ UNCHANGED <<ring, blk>>
            /\ UNCHANGED <<node, given, garbled, robbed>>
    /\ UNCHANGED <<clientSide, taken, silent, fault, closed>>

\* It asks again, after room was made.
GetBlock ==
    /\ pc = "alloc" /\ Room
    /\ ring' = Seen(Searched.ring, node) /\ blk' = Searched.blk
    /\ pc' = "recv"
    /\ UNCHANGED <<clientSide, flow, told, active, closed, status, node, had>>

\* _close_client, on a client whose blocks are free already; the next one in
\* its slot starts from nothing.
CloseClient(s) ==
    /\ node' = [node EXCEPT ![s] = NoBlock]
    /\ peer' = [peer EXCEPT ![s] = "none"]
    /\ sent' = [sent EXCEPT ![s] = 0]
    /\ taken' = [taken EXCEPT ![s] = 0]
    /\ given' = [given EXCEPT ![s] = 0]

\* There is no room: the client that has the oldest block is closed, which may
\* be the one that is being read; that one is reported at once.
Evict ==
    /\ pc = "alloc" /\ Full
    /\ LET id == LastId(Searched.ring) IN
       /\ id # Nobody
       /\ CloseClient(id)
       /\ ring' = Seen(Collect(Searched.ring), node')
       /\ robbed' = robbed \ {id}
       /\ IF id = active
          THEN Forget(id) /\ Done /\ UNCHANGED closed
          ELSE /\ status' = [status EXCEPT ![id] = "closed"]
               /\ closed' = closed + 1
               /\ UNCHANGED <<active, pulling>>
    /\ UNCHANGED <<garbled, silent, fault>>

\* What recv finds: all that was sent, as far as the block takes it.
Arrived(s) == Stream(s, taken[s], Min({sent[s], taken[s] + ReadBlock}))

\* The list of the client with the block just filled.
Filled(s) == LinkNode(Resize(ring, blk, Arrived(s)), s, node[s], blk)
First(s) == IF node[s] = NoBlock THEN blk ELSE node[s]
MayLink(s) ==
    /\ ResizeAsserts(ring, blk, Len(Arrived(s)))
    /\ ~Astray(Resize(ring, blk, Arrived(s)), node[s])
    /\ ~Astray(Filled(s), First(s))

\* The bytes are less than the rest of a request, which waits, or enough.  If
\* it is not in one block, it has to be copied into one.
Receive ==
    /\ pc = "recv"
    /\ LET s == active
           bytes == Arrived(s)
           r == Filled(s)
       IN  /\ bytes # <<>> /\ MayLink(s)
           /\ taken' = [taken EXCEPT ![s] = @ + Len(bytes)]
           /\ IF Len(bytes) < Request - had
              THEN /\ node' = [node EXCEPT ![s] = First(s)] /\ ring' = Seen(r, node')
                   /\ status' = [status EXCEPT ![s] = "suspend"]
                   /\ robbed' = robbed \cup Robs(s, r)
                   /\ Done
                   /\ UNCHANGED <<active, given, garbled>>
              ELSE /\ status' = [status EXCEPT ![s] = "read"]
                   /\ IF Contiguous(r, First(s), Request)
                      THEN Hand(s, r, First(s), FirstRequest(r, First(s)))
                      ELSE /\ Len(PendingBytes(r, First(s))) >= Request
                           /\ node' = [node EXCEPT ![s] = First(s)] /\ ring' = Seen(r, node')
                           /\ robbed' = robbed \cup Robs(s, r)
                           /\ pc' = "temp" /\ blk' = NoBlock /\ had' = 0
                           /\ UNCHANGED <<active, given, garbled>>
    /\ UNCHANGED <<clientSide, closed, silent, fault>>

\* recv finds nothing: the block stays behind, owned by nobody.
WouldBlock ==
    /\ pc = "recv" /\ sent[active] = taken[active] /\ peer[active] = "open"
    /\ Done
    /\ UNCHANGED <<server, clientSide, flow, told>>

\* recv finds the end: _close_active, and the slot is free at once.
EndOfStream ==
    /\ pc = "recv" /\ sent[active] = taken[active] /\ peer[active] = "ended"
    /\ ~Astray(ring, node[active]) /\ FreeAsserts(ring, node[active])
    /\ CloseClient(active)
    /\ ring' = Seen(FreeAll(ring, node[active]), node')
    /\ robbed' = (robbed \cup Robs(active, FreeAll(ring, node[active]))) \ {active}
    /\ Forget(active)
    /\ Done
    /\ UNCHANGED <<garbled, silent, fault, closed>>

\* The request is copied into a block of its own, which mread_yield frees and
\* asserts to have an owner.
WithTemp == [Searched.ring EXCEPT !.blocks[Searched.blk].id = active]
MayCopy ==
    /\ CopyAsserts(WithTemp, node[active], Request)
    /\ CopyOwner(WithTemp, node[active], Request) # Nobody

Copy ==
    /\ pc = "temp" /\ Room
    /\ ~Astray(WithTemp, node[active]) /\ MayCopy
    /\ Hand(active, Disowned(WithTemp, {Searched.blk}), node[active],
            CopyBytes(WithTemp, node[active], Request))
    /\ UNCHANGED <<clientSide, closed, status, taken, silent, fault>>

\* There is no room for the copy: this time the client that has the oldest
\* block loses its blocks and is not closed.  Its list still leads there.
EvictSilently ==
    /\ pc = "temp" /\ Full
    /\ LET id == LastId(Searched.ring) IN
       /\ id # Nobody
       /\ ring' = Seen(Collect(Searched.ring), node)
       /\ pc' = IF id = active THEN "poll" ELSE "temp"
       /\ robbed' = robbed \cup {id}
    /\ silent' = TRUE
    /\ UNCHANGED <<clientSide, flow, active, closed, status, node, blk, had, garbled, fault>>

\* What stops the server: the wild head; the assertion that recv left a part
\* of the block empty; and what the list of one who was robbed can do: an
\* assertion on its blocks, or a header that is no header any more.
Acts(s) == pc = "poll" /\ IF Rereads THEN s = active ELSE Looks /\ status[s] \notin {"invalid", "closed"}

YieldFails(r, first) ==
    /\ first # NoBlock /\ ~Astray(r, first)
    /\ Contiguous(r, first, Request) /\ ~YieldAsserts(r, first, Request)

Asserts ==
    \/ \E s \in Slots : Acts(s) /\ YieldFails(ring, node[s])
    \/ pc = "poll" /\ ~Rereads /\ closed > 0 /\ \A s \in Slots : status[s] # "closed"
    \/ /\ pc = "recv" /\ Arrived(active) # <<>>
       /\ \/ ~ResizeAsserts(ring, blk, Len(Arrived(active)))
          \/ /\ MayLink(active) /\ Len(Arrived(active)) >= Request - had
             /\ \/ YieldFails(Filled(active), First(active))
                \/ Len(PendingBytes(Filled(active), First(active))) < Request
    \/ /\ pc = "recv" /\ Arrived(active) = <<>> /\ peer[active] = "ended"
       /\ ~Astray(ring, node[active]) /\ ~FreeAsserts(ring, node[active])
    \/ /\ pc = "temp" /\ Room /\ ~Astray(WithTemp, node[active])
       /\ ~MayCopy \/ ~YieldAsserts(WithTemp, node[active], Request)

Wanders ==
    \/ \E s \in Slots : Acts(s) /\ Astray(ring, node[s])
    \/ /\ pc = "recv" /\ Arrived(active) # <<>>
       /\ ResizeAsserts(ring, blk, Len(Arrived(active))) /\ ~MayLink(active)
    \/ pc = "recv" /\ Arrived(active) = <<>> /\ peer[active] = "ended" /\ Astray(ring, node[active])
    \/ pc = "temp" /\ Room /\ Astray(WithTemp, node[active])

Break ==
    \/ pc \in {"alloc", "temp"} /\ HeadWild /\ Stop("wild head")
    \/ Asserts /\ Stop("assert")
    \/ Wanders /\ Stop("astray")

Serve ==
    \/ PollAgain
    \/ PollClosed
    \/ \E s \in Slots : AcceptClient(s)
    \/ \E s \in Slots : PollEvent(s)
    \/ GetBlock
    \/ Evict
    \/ Receive
    \/ WouldBlock
    \/ EndOfStream
    \/ Copy
    \/ EvictSilently
    \/ Break

PullNext == Serve \/ \E s \in Slots : Send(s) \/ Leave(s)

PullSpec == PullInit /\ [][PullNext]_pullVars

---------------------------------------------------------------------------

\* What a client that is neither closed nor served waits for is in the ring:
\* the blocks of its list are its own, and hold what was received and not
\* handed on, which is less than a request; and until blocks were taken from a
\* client without closing it (server.c:648), nothing else is in use.  The blocks
\* cut up the ring, and whoever is closed to make room has a block.  It need not
\* hold for a client that was robbed that way, nor for one in whose blocks the
\* server then wrote for the sake of another that was.
ListOwn(s) ==
    /\ ~Astray(ring, node[s])
    /\ \A b \in ToSet(Chain(ring, node[s])) : ring.blocks[b].id = s
    /\ node[s] # NoBlock => PendingBytes(ring, node[s]) = Stream(s, given[s], taken[s])
    /\ status[s] \in {"suspend", "pollin"} => taken[s] - given[s] < Request

RingWhole ==
    fault = "none" =>
        /\ Whole(ring)
        /\ \A s \in Slots \ robbed : ListOwn(s)
        /\ ~silent =>
              InUse(ring) = UNION {ToSet(Chain(ring, node[s])) : s \in {t \in Slots : node[t] # NoBlock}}
        /\ ~silent => closed = Cardinality({s \in Slots : status[s] = "closed"})
        /\ pc \in {"alloc", "temp"} /\ Full => LastId(Searched.ring) # Nobody

\* A request is what its client sent, no byte lost, repeated, or of another
\* client or an earlier connection, however it was cut up: unless it came in
\* three pieces or more, which ringbuffer_copy gets wrong (ringbuffer.c:370), or
\* its client was robbed: then it may be of another client altogether.
RequestsWhole == ~garbled
=============================================================================
