------------------------ MODULE UpdateSessionProofs -------------------------
(***************************************************************************)
(* Theorems about UpdateSession, for every set of names and versions and   *)
(* for every bound: what is written and recorded, that only whole versions *)
(* are installed, and that the session implements ResumableTransfer.       *)
(***************************************************************************)
EXTENDS UpdateSession, TLAPS

USE DEF clientVars, diskVars, serverVars, envVars

---------------------------------------------------------------------------
(* Shapes of the packets and of what is saved.                             *)

LEMMA HeadAndTail ==
    ASSUME NEW S, NEW s \in Seq(S), s # <<>>
    PROVE  Head(s) \in S /\ Tail(s) \in Seq(S)
  OBVIOUS

LEMMA ReplyFields ==
    ASSUME NEW p \in Reply
    PROVE  /\ p.name \in Names /\ p.total \in Nat /\ p.mtime \in Mtime
           /\ p.flag \in {"Y", "G"}
  BY DEF Reply

LEMMA DataFields ==
    ASSUME NEW p \in Data
    PROVE  /\ p.flag \in {"F", "E"} /\ p.len \in {0, 1} /\ p.at \in Nat
           /\ p.block \in Block
  BY DEF Data

\* The flag tells a reply from data.
LEMMA FlagTells ==
    ASSUME NEW p \in ServerPacket
    PROVE  /\ p.flag \in {"Y", "G"} => p \in Reply
           /\ p.flag \in {"F", "E"} => p \in Data
  BY DEF ServerPacket, Reply, Data, Stop, Junk

LEMMA StoreFields ==
    ASSUME NEW s \in Store
    PROVE  /\ s.name \in Names /\ s.total \in Nat /\ s.offset \in Nat
           /\ s.mtime \in Mtime
  BY DEF Store

LEMMA StoreOffset ==
    ASSUME NEW s \in Store, NEW n \in Nat
    PROVE  [s EXCEPT !.offset = n] \in Store
  BY DEF Store

LEMMA StoreReply ==
    ASSUME NEW s \in Store, NEW n \in Names, NEW t \in Nat, NEW m \in Mtime
    PROVE  /\ [s EXCEPT !.name = n, !.total = t, !.mtime = m] \in Store
           /\ [s EXCEPT !.mtime = m] \in Store
  BY DEF Store

LEMMA RequestFields ==
    ASSUME NEW r \in Request
    PROVE  /\ r.name \in Names /\ r.offset \in Nat /\ r.mtime \in Mtime
           /\ r.flag = "U" /\ r.resume \in {"G", "T"}
  BY DEF Request

LEMMA SessionFields ==
    ASSUME NEW s \in Session
    PROVE  /\ s.name \in Names /\ s.ver \in Versions /\ s.offset \in Nat
           /\ s.total \in Nat /\ s.data \in Data \cup {NoPack}
  BY DEF Session

LEMMA SessionUpdate ==
    ASSUME NEW s \in Session
    PROVE  /\ \A n \in Nat : [s EXCEPT !.offset = n] \in Session
           /\ \A d \in Data : [s EXCEPT !.data = d] \in Session
  BY DEF Session

---------------------------------------------------------------------------
(* Type correctness: every variable keeps the shape TypeOK gives it, and    *)
(* the packet or the locals a thread works on are those its control says.  *)

LEMMA TypeInit == Init => TypeOK
  BY NoVersionAssumption, BlocksAssumption, BoundsAssumption
     DEF Init, TypeOK, Store, Saving, Mtime, Block, NoBlock, Absent, NoPack,
         NoSession

\* The client's process is gone, whatever ended it.
LEMMA TypeGone ==
    ASSUME TypeOK, ClientGone,
           record' \in Store \cup {Absent, Empty},
           faults' \in 0 .. MaxFaults,
           UNCHANGED <<serverFile, updateFile, installed, store, copied, pack, replaced>>
    PROVE  TypeOK'
  <1>1. /\ toServer' \in Seq(ClientPacket)
        /\ toClient' \in Seq(ServerPacket)
    BY DEF ClientGone
  <1>2. QED
    BY <1>1 DEF TypeOK, ClientGone

\* What is read for a packet that is none has the shape of one.
LEMMA TypeRest ==
    ASSUME TypeOK, RecvRest
    PROVE  TypeOK'
<1>1. /\ cpc = "flag" /\ toClient \in Seq(ServerPacket) /\ store \in Store
      /\ toClient # <<>> /\ Head(toClient) = Junk
  BY DEF TypeOK, RecvRest
<1>2. \A k \in {0, 1} : /\ SubSeq(toClient, k + 2, Len(toClient)) \in Seq(ServerPacket)
                       /\ Unread(k) \subseteq Seq(ServerPacket)
  <2>1. TAKE k \in {0, 1}
  <2>2. \A i \in k + 2 .. Len(toClient) : i \in 1 .. Len(toClient)
    BY <1>1
  <2>3. SubSeq(toClient, k + 2, Len(toClient)) \in Seq(ServerPacket)
    BY <1>1, <2>2
  <2>4. <<Junk>> \in Seq(ServerPacket)
    BY DEF ServerPacket
  <2>5. <<Junk>> \o SubSeq(toClient, k + 2, Len(toClient)) \in Seq(ServerPacket)
    BY <2>3, <2>4
  <2>6. QED
    BY <2>3, <2>5 DEF Unread
<1>3. PICK k \in {0, 1} : toClient' \in Unread(k)
  BY DEF RecvRest
<1>4. toClient' \in Seq(ServerPacket)
  BY <1>2, <1>3
<1>5. \A flag \in {"Y", "G"} : GarbledReply(flag) \subseteq Reply
  <2>1. SUFFICES ASSUME NEW flag \in {"Y", "G"}, NEW x \in Garbage
                 PROVE  [flag |-> flag, name |-> x[1], total |-> x[2],
                         mtime |-> x[3]] \in Reply
    BY DEF GarbledReply
  <2>2. x[1] \in Names /\ x[2] \in Nat /\ x[3] \in Mtime
    BY GarbageAssumption DEF Mtime
  <2>3. QED
    BY <2>2 DEF Reply
<1>6. GarbledData \subseteq Data
  BY DEF GarbledData, Data, Block
<1>7. CASE UNCHANGED <<store, cpc, pack>>
  BY <1>1, <1>4, <1>7 DEF TypeOK, RecvRest
<1>8. CASE \E flag \in {"Y", "G"} :
             /\ pack' \in GarbledReply(flag)
             /\ store' = [store EXCEPT !.offset = OffsetAfter(flag)]
             /\ cpc' = "reply"
  <2>1. PICK flag \in {"Y", "G"} :
             /\ pack' \in GarbledReply(flag)
             /\ store' = [store EXCEPT !.offset = OffsetAfter(flag)]
             /\ cpc' = "reply"
    BY <1>8
  <2>2. OffsetAfter(flag) \in Nat
    BY <1>1, StoreFields DEF OffsetAfter
  <2>3. store' \in Store /\ pack' \in Reply
    BY <1>1, <1>5, <2>1, <2>2, StoreOffset
  <2>4. QED
    BY <1>1, <1>4, <2>1, <2>3 DEF TypeOK, RecvRest
<1>9. CASE pack' \in GarbledData /\ cpc' = "body" /\ UNCHANGED store
  BY <1>1, <1>4, <1>6, <1>9 DEF TypeOK, RecvRest
<1>10. QED
  BY <1>7, <1>8, <1>9 DEF RecvRest

LEMMA TypeNext == TypeOK /\ [Next]_vars => TypeOK'
  <1> SUFFICES ASSUME TypeOK, [Next]_vars PROVE TypeOK'
    OBVIOUS
  <1> USE BoundsAssumption
  <1>1. ASSUME NEW n \in Names, ClientStart(n) PROVE TypeOK'
    <2>1. store' \in Store
      BY <1>1 DEF TypeOK, ClientStart, ReadFileInfo, Store, Mtime
    <2>2. toServer' \in Seq(Request)
      <3>1. PICK f \in {"T", "G"} :
              toServer' = <<[flag |-> "U", resume |-> f,
                             offset |-> store'.offset, mtime |-> store'.mtime,
                             name |-> store'.name]>>
        BY <1>1 DEF ClientStart
      <3>2. QED
        BY <2>1, <3>1, StoreFields DEF Request
    <2>3. toServer' \in Seq(ClientPacket) /\ toClient' \in Seq(ServerPacket)
      BY <1>1, <2>2 DEF ClientStart, ClientPacket
    <2>4. QED
      BY <1>1, <2>1, <2>2, <2>3 DEF TypeOK, ClientStart
  <1>2. CASE ClientCannotStart
    BY <1>2 DEF TypeOK, ClientCannotStart, vars
  <1>3. ASSUME NEW n \in Names, ReplaceFile(n) PROVE TypeOK'
    <2>1. serverFile' \in [Names -> Mtime] /\ replaced' \in 0 .. MaxReplace
      BY <1>3 DEF TypeOK, ReplaceFile
    <2>2. QED
      BY <1>3, <2>1 DEF TypeOK, ReplaceFile
  <1>4. CASE RecvFlag
    <2>1. /\ Head(toClient) \in ServerPacket
          /\ toClient' \in Seq(ServerPacket)
      BY <1>4, HeadAndTail DEF TypeOK, RecvFlag
    <2>2. PICK n \in {0, store.offset} :
            store' = store \/ store' = [store EXCEPT !.offset = n]
      BY <1>4 DEF RecvFlag, OffsetAfter
    <2>3. store' \in Store
      BY ZenonT(60), <2>2, StoreOffset, StoreFields DEF TypeOK
    <2>4. /\ pack' \in Reply \cup Data \cup {NoPack}
          /\ cpc' = "reply" => pack' \in Reply
          /\ cpc' \in {"body", "count", "ack"} => pack' \in Data
      BY <1>4, <2>1, FlagTells DEF TypeOK, RecvFlag
    <2>5. QED
      BY <1>4, <2>1, <2>3, <2>4 DEF TypeOK, RecvFlag, Saving
  <1>27. CASE RecvRest
    BY <1>27, TypeRest
  <1>5. CASE RecvReply
    <2>1. store' \in Store
      BY <1>5, StoreReply, ReplyFields DEF TypeOK, RecvReply, Mtime
    <2>2. QED
      BY <1>5, <2>1 DEF TypeOK, RecvReply, Saving
  <1>6. CASE SaveOpen
    BY <1>6 DEF TypeOK, SaveOpen
  <1>7. CASE SaveWrite
    <2>1. CASE cpc # "saveExit"
      BY <1>7, <2>1 DEF TypeOK, SaveWrite, Saving
    <2>2. CASE cpc = "saveExit"
      BY <1>7, <2>2, TypeGone DEF TypeOK, SaveWrite
    <2>3. QED
      BY <2>1, <2>2
  <1>8. CASE WriteBlock
    <2>1. updateFile' \in [Position -> Block]
      BY <1>8, DataFields DEF TypeOK, WriteBlock
    <2>2. QED
      BY <1>8, <2>1 DEF TypeOK, WriteBlock
  <1>9. CASE CountBlock
    <2>1. PICK n \in DataLen : store' = [store EXCEPT !.offset = @ + n]
      BY <1>9 DEF CountBlock
    <2>4. n \in Nat /\ store.offset \in Nat
      <3>1. pack \in Data /\ store \in Store
        BY <1>9 DEF TypeOK, CountBlock
      <3>2. \A x \in Garbage : x[2] \in Nat
        BY GarbageAssumption
      <3>3. pack.len \in Nat
        BY <3>1, DataFields
      <3>4. n \in Nat
        BY <3>2, <3>3 DEF DataLen
      <3>5. QED
        BY <3>1, <3>4, StoreFields
    <2>2. store' \in Store
      <3>1. store \in Store /\ store.offset + n \in Nat
        BY <2>4 DEF TypeOK
      <3>2. store' = [store EXCEPT !.offset = store.offset + n]
        BY <2>1
      <3>3. QED
        BY <3>1, <3>2, StoreOffset
    <2>3. QED
      BY <1>9, <2>2 DEF TypeOK, CountBlock
  <1>10. CASE SendAck
    <2>1. toServer' \in Seq(ClientPacket)
      BY <1>10 DEF TypeOK, SendAck, ClientPacket, Ack
    <2>2. QED
      BY <1>10, <2>1 DEF TypeOK, SendAck
  <1>11. CASE Unpack
    BY <1>11 DEF TypeOK, Unpack
  <1>12. CASE Install
    <2>1. CopyOf(updateFile, store.total) \subseteq Versions
      BY DEF CopyOf
    <2>2. QED
      BY <1>12, <2>1 DEF TypeOK, Install
  <1>13. CASE ResetOffset
    <2>1. store' \in Store
      BY <1>13, StoreOffset DEF TypeOK, ResetOffset
    <2>2. QED
      BY <1>13, <2>1 DEF TypeOK, ResetOffset, Saving
  <1>14. CASE HeartbeatTimeout
    <2>1. faults' \in 0 .. MaxFaults
      BY <1>14 DEF TypeOK, HeartbeatTimeout, Fault
    <2>2. QED
      BY <1>14, <2>1 DEF TypeOK, HeartbeatTimeout
  <1>15. CASE HeartbeatCopy
    BY <1>15 DEF TypeOK, HeartbeatCopy
  <1>16. CASE HeartbeatExit
    <2>1. record' \in Store
      BY <1>16, StoreReply, StoreFields DEF TypeOK, HeartbeatExit
    <2>2. QED
      BY <1>16, <2>1, TypeGone DEF TypeOK, HeartbeatExit
  <1>17. CASE AcceptRequest
    <2> DEFINE r == Head(toServer)
               v == serverFile[r.name]
    <2>1. r \in Request /\ toServer' \in Seq(ClientPacket)
      BY <1>17, HeadAndTail DEF TypeOK, AcceptRequest
    <2>2. v \in Versions /\ Blocks[v] \in Nat
      BY <1>17, <2>1, RequestFields, BlocksAssumption
         DEF TypeOK, AcceptRequest, Mtime
    <2>3. sess' \in Session
      <3>1. StartOffset(r, v) \in Nat
        BY <2>1, RequestFields DEF StartOffset
      <3>2. sess' = [name |-> r.name, ver |-> v, offset |-> StartOffset(r, v),
                     total |-> Blocks[v], data |-> NoPack]
        BY <1>17 DEF AcceptRequest
      <3>3. QED
        BY <2>1, <2>2, <3>1, <3>2, RequestFields DEF Session
    <2>4. toClient' \in Seq(ServerPacket)
      <3>1. PICK f \in {"Y", "G"} :
              toClient' = Append(toClient, [flag |-> f, name |-> r.name,
                                            total |-> Blocks[v], mtime |-> v])
        BY <1>17 DEF AcceptRequest
      <3>2. [flag |-> f, name |-> r.name, total |-> Blocks[v], mtime |-> v]
              \in Reply
        BY <2>1, <2>2, RequestFields DEF Reply, Mtime
      <3>3. QED
        BY <3>1, <3>2 DEF TypeOK, ServerPacket
    <2>5. QED
      BY <1>17, <2>1, <2>3, <2>4 DEF TypeOK, AcceptRequest
  <1>18. CASE RefuseRequest
    <2>1. toServer' \in Seq(ClientPacket) /\ toClient' \in Seq(ServerPacket)
      BY <1>18 DEF TypeOK, RefuseRequest, ServerPacket
    <2>2. QED
      BY <1>18, <2>1 DEF TypeOK, RefuseRequest
  <1>19. CASE SendBlock
    <2> DEFINE len == ReadLen(sess)
               f == IF sess.offset + len = sess.total THEN "E" ELSE "F"
               b == IF len = 0 THEN NoBlock ELSE <<sess.ver, sess.offset>>
               p == [flag |-> f, len |-> len, block |-> b, at |-> sess.offset]
    <2>1. /\ len \in {0, 1}
          /\ len = 1 => sess.offset < Blocks[sess.ver]
          /\ sess' = [sess EXCEPT !.data = p]
          /\ toClient' = Append(toClient, p)
      BY <1>19 DEF SendBlock, ReadLen
    <2> HIDE DEF len
    <2>2. sess \in Session
      BY <1>19 DEF TypeOK, SendBlock
    <2>3. b \in Block
      BY <2>1, <2>2, SessionFields, BlocksAssumption DEF Block, Position
    <2>4. p \in Data
      BY <2>1, <2>2, <2>3, SessionFields DEF Data
    <2>5. sess' \in Session /\ sess'.data \in Data
      BY <2>1, <2>2, <2>4, SessionUpdate DEF Session
    <2>6. toClient' \in Seq(ServerPacket)
      BY <2>1, <2>4 DEF TypeOK, ServerPacket
    <2>7. QED
      BY <1>19, <2>5, <2>6 DEF TypeOK, SendBlock
  <1>20. CASE RecvAck
    <2>1. toServer' \in Seq(ClientPacket)
      BY <1>20, HeadAndTail DEF TypeOK, RecvAck
    <2>2. /\ sess' \in Session \cup {NoSession}
          /\ spc' = "read" => sess' \in Session
      <3>1. sess \in Session /\ sess.data \in Data
        BY <1>20 DEF TypeOK, RecvAck
      <3>2. sess.offset + sess.data.len \in Nat
        BY <3>1, SessionFields, DataFields
      <3>3. QED
        BY <1>20, <3>1, <3>2, SessionUpdate DEF RecvAck
    <2>3. QED
      BY <1>20, <2>1, <2>2 DEF TypeOK, RecvAck
  <1>21. CASE RecvNak
    <2>1. toServer' \in Seq(ClientPacket)
      BY <1>21, HeadAndTail DEF TypeOK, RecvNak
    <2>2. toClient' \in Seq(ServerPacket)
      BY <1>21 DEF TypeOK, RecvNak, ServerPacket
    <2>3. QED
      BY <1>21, <2>1, <2>2 DEF TypeOK, RecvNak
  <1>22. CASE RecvBodyFails
    <2>1. toServer' \in Seq(ClientPacket)
      BY <1>22 DEF TypeOK, RecvBodyFails, ClientPacket, Ack
    <2>2. toClient' \in Seq(ServerPacket)
      BY <1>22 DEF TypeOK, RecvBodyFails, ServerPacket
    <2>3. faults' \in 0 .. MaxFaults
      BY <1>22 DEF TypeOK, RecvBodyFails, Fault
    <2>4. QED
      BY <1>22, <2>1, <2>2, <2>3 DEF TypeOK, RecvBodyFails, Saving
  <1>23. CASE WriteOrSendFails \/ ClientKilled \/ ConnectionLost
    <2>1. ClientGone /\ record' \in {record, store}
      BY <1>23 DEF WriteOrSendFails, ClientKilled, ConnectionLost
    <2>2. faults' \in 0 .. MaxFaults
      BY <1>23 DEF TypeOK, WriteOrSendFails, ClientKilled, ConnectionLost, Fault
    <2>3. QED
      BY <1>23, <2>1, <2>2, TypeGone
         DEF TypeOK, WriteOrSendFails, ClientKilled, ConnectionLost
  <1>24. CASE ServerFails \/ ServerKilled
    <2>1. toServer' \in Seq(ClientPacket) /\ toClient' \in Seq(ServerPacket)
      <3>1. CASE ServerFails
        BY <3>1 DEF TypeOK, ServerFails, ServerPacket
      <3>2. CASE ServerKilled
        BY <3>2 DEF TypeOK, ServerKilled
      <3>3. QED
        BY <1>24, <3>1, <3>2
    <2>2. faults' \in 0 .. MaxFaults
      BY <1>24 DEF TypeOK, ServerFails, ServerKilled, Fault
    <2>3. QED
      BY <1>24, <2>1, <2>2 DEF TypeOK, ServerFails, ServerKilled
  <1>25. CASE UNCHANGED vars
    BY <1>25 DEF TypeOK, vars
  <1>26. QED
    BY <1>1, <1>2, <1>3, <1>4, <1>5, <1>6, <1>7, <1>8, <1>9, <1>10, <1>11,
       <1>12, <1>13, <1>14, <1>15, <1>16, <1>17, <1>18, <1>19, <1>20, <1>21,
       <1>22, <1>23, <1>24, <1>25, <1>27
       DEF Next, UpdateThread, HeartbeatThread, Server, Faulty

\* Every variable keeps the shape TypeOK gives it, in every run.
THEOREM TypeCorrect == Spec => []TypeOK
  BY TypeInit, TypeNext, PTL DEF Spec

---------------------------------------------------------------------------
(* Why a resumed update never mixes versions.  No packet carries a         *)
(* position, so the argument is about two counters: the client's offset    *)
(* and the server's.  Agreement relates them in every state of the         *)
(* stop-and-wait protocol, whatever is still in a stream.                  *)

IsReply(p) == p.flag \in {"Y", "G"}
IsData(p)  == p.flag \in {"F", "E"}

\* Nothing is promised of the next reply or block: the client is gone, or saving
\* for the last time, or reads the rest of a packet next, or has done so in this
\* connection and taken it for a packet.
Over ==
    \/ astray = "now"
    \/ cpc \in {"off", "unpack", "install", "reset", "saveNak", "saveExit"}
    \/ cpc = "flag" /\ toClient # <<>> /\ toClient[1].flag = "junk"

\* A reply that waits to be read decides where the transfer goes on.
ReplyPending == cpc = "flag" /\ toClient # <<>> /\ IsReply(toClient[1])
EffOffset == IF ReplyPending THEN OffsetAfter(toClient[1].flag)
             ELSE store.offset
EffVer == IF ReplyPending THEN toClient[1].mtime
          ELSE IF cpc = "reply" THEN pack.mtime ELSE store.mtime

\* The rest of a packet that could not be received is what comes next.
JunkFirst == cpc = "saveNak" => toClient # <<>> /\ toClient[1].flag = "junk"

\* A reply is the first packet of a connection.
RepliesFirst ==
    \A i \in 1 .. Len(toClient) :
        IsReply(toClient[i]) => i = 1 /\ cpc = "flag"

\* A block on its way belongs where the client will be by then.
DataFits ==
    \A i \in 1 .. Len(toClient) :
        IsData(toClient[i]) =>
            /\ cpc \in {"flag", "reply", "save"}
            /\ toClient[i].at = EffOffset
            /\ toClient[i].len = 1 => toClient[i].block = <<EffVer, EffOffset>>

\* Stop and wait: one block at a time.
OneData ==
    \A i, j \in 1 .. Len(toClient) :
        IsData(toClient[i]) /\ IsData(toClient[j]) => i = j

\* 'G' is for the version the client has begun, 'Y' starts over.
GoesOn ==
    /\ ReplyPending /\ toClient[1].flag = "G" => toClient[1].mtime = store.mtime
    /\ cpc = "reply" /\ pack.flag = "Y" => store.offset = 0
    /\ cpc = "reply" /\ pack.flag = "G" => pack.mtime = store.mtime

\* The block in hand belongs at the client's offset, then it is there.
PackFits ==
    /\ cpc \in {"body", "count"} =>
           /\ pack.at = store.offset
           /\ pack.len = 1 => pack.block = <<store.mtime, store.offset>>
    /\ cpc = "count" /\ pack.len = 1 /\ store.offset \in Position =>
           updateFile[store.offset] = pack.block

NoData == \A i \in 1 .. Len(toClient) : ~IsData(toClient[i])

\* Where the last block the server has sent is.
Waiting ==
    /\ toServer = <<>>
    /\ \E i \in 1 .. Len(toClient) :
           IsData(toClient[i]) /\ toClient[i].len = sess.data.len
    /\ sess.offset = EffOffset

InHand ==
    /\ toServer = <<>>
    /\ cpc \in {"body", "count"}
    /\ sess.offset = store.offset
    /\ pack.len = sess.data.len

Counted ==
    /\ toServer = <<>>
    /\ cpc = "ack"
    /\ store.offset = sess.offset + sess.data.len

Acknowledged ==
    /\ cpc = "flag"
    /\ Len(toServer) = 1
    /\ toServer[1].flag = "ackY"
    /\ NoData
    /\ ~ReplyPending
    /\ store.offset = sess.offset + sess.data.len

ServerAgrees ==
    /\ spc = "recv" =>
           /\ Len(toServer) = 1
           /\ toServer[1].offset = store.offset
           /\ toServer[1].mtime = store.mtime
    /\ spc = "read" =>
           /\ toServer = <<>>
           /\ cpc \in {"flag", "reply", "save"}
           /\ NoData
           /\ sess.offset = EffOffset
           /\ sess.ver = EffVer
    /\ spc = "ack" =>
           /\ sess.ver = EffVer
           /\ Waiting \/ InHand \/ Counted \/ Acknowledged

ClientAgrees == RepliesFirst /\ DataFits /\ OneData /\ GoesOn /\ PackFits

Agreement == JunkFirst /\ (Over \/ (ClientAgrees /\ ServerAgrees))

---------------------------------------------------------------------------
(* Streams.                                                                *)

LEMMA AppendAt ==
    ASSUME NEW S, NEW s \in Seq(S), NEW e \in S
    PROVE  /\ Append(s, e) \in Seq(S)
           /\ Append(s, e) # <<>>
           /\ Len(s) \in Nat
           /\ Len(Append(s, e)) = Len(s) + 1
           /\ \A i \in 1 .. Len(s) : Append(s, e)[i] = s[i]
           /\ Append(s, e)[Len(s) + 1] = e
           /\ s # <<>> => 1 \in 1 .. Len(s)
           /\ s = <<>> => Len(s) = 0
<1>1. /\ Append(s, e) \in Seq(S)
      /\ Len(s) \in Nat
      /\ Len(Append(s, e)) = Len(s) + 1
  OBVIOUS
<1>2. \A i \in 1 .. Len(s) : Append(s, e)[i] = s[i]
  OBVIOUS
<1>3. Append(s, e)[Len(s) + 1] = e
  OBVIOUS
<1>4. Append(s, e) # <<>>
  BY <1>1
<1>5. s # <<>> => 1 \in 1 .. Len(s)
  OBVIOUS
<1>6. s = <<>> => Len(s) = 0
  OBVIOUS
<1>7. QED
  BY <1>1, <1>2, <1>3, <1>4, <1>5, <1>6

LEMMA TailAt ==
    ASSUME NEW S, NEW s \in Seq(S), s # <<>>
    PROVE  /\ Head(s) = s[1]
           /\ Len(s) \in Nat /\ 1 \in 1 .. Len(s)
           /\ Tail(s) \in Seq(S)
           /\ Len(Tail(s)) = Len(s) - 1
           /\ \A i \in 1 .. Len(Tail(s)) : Tail(s)[i] = s[i + 1] /\ i + 1 \in 1 .. Len(s)
           /\ Len(s) = 1 => Tail(s) = <<>>
  OBVIOUS


---------------------------------------------------------------------------
(* The server appends a packet that is not a reply: nothing changes for    *)
(* what the client reads first.                                            *)

LEMMA ServerAppends ==
    ASSUME TypeOK, NEW p \in ServerPacket, ~IsReply(p), p.flag # "junk",
           UNCHANGED <<astray, cpc, store, pack, updateFile>>,
           toClient' = Append(toClient, p)
    PROVE  /\ toClient' # <<>>
           /\ ReplyPending' <=> ReplyPending
           /\ EffOffset' = EffOffset
           /\ EffVer' = EffVer
           /\ Over' <=> Over
           /\ JunkFirst => JunkFirst'
<1>1. toClient \in Seq(ServerPacket)
  BY DEF TypeOK
<1>2. /\ toClient' # <<>>
      /\ toClient # <<>> => toClient'[1] = toClient[1]
      /\ toClient = <<>> => toClient'[1] = p
  BY <1>1, AppendAt
<1>3. ReplyPending' <=> ReplyPending
  BY <1>2 DEF ReplyPending, IsReply
<1>4. ReplyPending => toClient'[1] = toClient[1]
  BY <1>2 DEF ReplyPending
<1>5. EffOffset' = EffOffset /\ EffVer' = EffVer
  BY <1>3, <1>4 DEF EffOffset, EffVer, OffsetAfter
<1>6. Over' <=> Over
  BY <1>2 DEF Over
<1>7. JunkFirst => JunkFirst'
  BY <1>2 DEF JunkFirst
<1>8. QED
  BY <1>2, <1>3, <1>5, <1>6, <1>7

LEMMA ServerSendsBlock ==
    ASSUME TypeOK, ClientAgrees, NEW p \in ServerPacket, IsData(p),
           UNCHANGED <<astray, cpc, store, pack, updateFile>>,
           toClient' = Append(toClient, p),
           NoData, cpc \in {"flag", "reply", "save"}, p.at = EffOffset,
           p.len = 1 => p.block = <<EffVer, EffOffset>>
    PROVE  /\ ClientAgrees'
           /\ \E i \in 1 .. Len(toClient') :
                  IsData(toClient'[i]) /\ toClient'[i].len = p.len
<1>1. toClient \in Seq(ServerPacket)
  BY DEF TypeOK
<1>2. /\ Len(toClient) \in Nat
      /\ Len(toClient') = Len(toClient) + 1
      /\ \A i \in 1 .. Len(toClient) : toClient'[i] = toClient[i]
      /\ toClient'[Len(toClient) + 1] = p
      /\ toClient # <<>> => toClient'[1] = toClient[1]
  BY <1>1, AppendAt
<1>3. ~IsReply(p) /\ p.flag # "junk"
  BY DEF IsReply, IsData
<1>4. /\ ReplyPending' <=> ReplyPending
      /\ EffOffset' = EffOffset
      /\ EffVer' = EffVer
  BY <1>3, ServerAppends
<1>5. ASSUME NEW i \in 1 .. Len(toClient')
      PROVE  \/ i \in 1 .. Len(toClient) /\ toClient'[i] = toClient[i]
             \/ i = Len(toClient) + 1 /\ toClient'[i] = p
  BY <1>2
<1>6. RepliesFirst'
  BY <1>3, <1>5 DEF RepliesFirst, ClientAgrees, IsReply
<1>7. DataFits'
  BY <1>4, <1>5 DEF DataFits, ClientAgrees, IsData
<1>8. OneData'
  <2>1. \A i \in 1 .. Len(toClient') : IsData(toClient'[i]) => i = Len(toClient) + 1
    BY <1>5 DEF NoData
  <2>2. QED
    BY <2>1 DEF OneData, IsData
<1>9. GoesOn'
  BY <1>2, <1>4 DEF GoesOn, ClientAgrees, ReplyPending
<1>10. PackFits'
  BY DEF PackFits, ClientAgrees
<1>11. Len(toClient) + 1 \in 1 .. Len(toClient')
  BY <1>2
<1>12. QED
  BY <1>2, <1>6, <1>7, <1>8, <1>9, <1>10, <1>11 DEF ClientAgrees

LEMMA ServerSendsStop ==
    ASSUME TypeOK, ClientAgrees,
           UNCHANGED <<astray, cpc, store, pack, updateFile>>,
           toClient' = Append(toClient, Stop)
    PROVE  ClientAgrees'
<1>1. toClient \in Seq(ServerPacket)
  BY DEF TypeOK
<1>2. /\ Stop \in ServerPacket /\ ~IsReply(Stop) /\ ~IsData(Stop)
      /\ Stop.flag # "junk"
  BY DEF ServerPacket, Stop, IsReply, IsData
<1>3. /\ Len(toClient) \in Nat
      /\ Len(toClient') = Len(toClient) + 1
      /\ \A i \in 1 .. Len(toClient) : toClient'[i] = toClient[i]
      /\ toClient'[Len(toClient) + 1] = Stop
      /\ toClient # <<>> => toClient'[1] = toClient[1]
  BY <1>1, <1>2, AppendAt
<1>4. /\ ReplyPending' <=> ReplyPending
      /\ EffOffset' = EffOffset
      /\ EffVer' = EffVer
  BY <1>2, ServerAppends
<1>5. ASSUME NEW i \in 1 .. Len(toClient')
      PROVE  \/ i \in 1 .. Len(toClient) /\ toClient'[i] = toClient[i]
             \/ ~IsReply(toClient'[i]) /\ ~IsData(toClient'[i])
  BY <1>2, <1>3
<1>6. RepliesFirst'
  BY <1>5 DEF RepliesFirst, ClientAgrees, IsReply
<1>7. DataFits'
  BY <1>4, <1>5 DEF DataFits, ClientAgrees, IsData
<1>8. OneData'
  BY <1>5 DEF OneData, ClientAgrees, IsData
<1>9. GoesOn'
  BY <1>3, <1>4 DEF GoesOn, ClientAgrees, ReplyPending
<1>10. PackFits'
  BY DEF PackFits, ClientAgrees
<1>11. QED
  BY <1>6, <1>7, <1>8, <1>9, <1>10 DEF ClientAgrees

---------------------------------------------------------------------------
(* The server's thread keeps Agreement.                                    *)

LEMMA SessionData ==
    ASSUME NEW s \in Session, NEW d \in Data
    PROVE  LET t == [s EXCEPT !.data = d]
           IN t.data = d /\ t.offset = s.offset /\ t.ver = s.ver
  BY DEF Session

LEMMA SessionOffset ==
    ASSUME NEW s \in Session, NEW n \in Nat
    PROVE  LET t == [s EXCEPT !.offset = n]
           IN t.offset = n /\ t.data = s.data /\ t.ver = s.ver
  BY DEF Session

\* Nothing the client looks at has changed.
LEMMA ClientSeesNothing ==
    ASSUME UNCHANGED <<astray, cpc, store, pack, updateFile, toClient>>
    PROVE  /\ JunkFirst' <=> JunkFirst
           /\ Over' <=> Over
           /\ ClientAgrees' <=> ClientAgrees
           /\ ReplyPending' <=> ReplyPending
           /\ NoData' <=> NoData
           /\ EffOffset' = EffOffset
           /\ EffVer' = EffVer
<1>1. ReplyPending' <=> ReplyPending
  BY DEF ReplyPending, IsReply
<1>2. EffOffset' = EffOffset /\ EffVer' = EffVer
  BY <1>1 DEF EffOffset, EffVer, OffsetAfter
<1>3. (JunkFirst' <=> JunkFirst) /\ (Over' <=> Over) /\ (NoData' <=> NoData)
  BY DEF JunkFirst, Over, NoData, IsData
<1>4. (RepliesFirst' <=> RepliesFirst) /\ (OneData' <=> OneData)
  BY DEF RepliesFirst, OneData, IsReply, IsData
<1>5. DataFits' <=> DataFits
  BY <1>2 DEF DataFits, IsData
<1>6. (GoesOn' <=> GoesOn) /\ (PackFits' <=> PackFits)
  BY <1>1 DEF GoesOn, PackFits
<1>7. QED
  BY <1>1, <1>2, <1>3, <1>4, <1>5, <1>6 DEF ClientAgrees

LEMMA AcceptAgrees ==
    ASSUME TypeOK, Agreement, AcceptRequest, astray # "now"
    PROVE  Agreement'
<1> DEFINE r == Head(toServer)
           v == serverFile[r.name]
           f == IF Resumes(r, v) THEN "G" ELSE "Y"
           p == [flag |-> f, name |-> r.name, total |-> Blocks[v], mtime |-> v]
<1>1. /\ spc = "recv" /\ cpc = "flag" /\ toClient = <<>>
      /\ toServer \in Seq(ClientPacket)
  BY DEF AcceptRequest, TypeOK
<1>2. ~Over
  BY <1>1 DEF Over
<1>3. ClientAgrees /\ ServerAgrees
  BY <1>2 DEF Agreement
<1>4. Len(toServer) = 1 /\ toServer[1].offset = store.offset
      /\ toServer[1].mtime = store.mtime
  BY <1>1, <1>3 DEF ServerAgrees
<1>5. toServer # <<>> /\ toServer' = Tail(toServer)
  BY DEF AcceptRequest
<1>6. r = toServer[1] /\ toServer' = <<>>
  BY <1>1, <1>4, <1>5, TailAt
<1>7. /\ toClient' = <<p>>
      /\ sess'.offset = StartOffset(r, v) /\ sess'.ver = v
      /\ spc' = "read"
      /\ UNCHANGED <<cpc, store, pack, updateFile>>
  BY <1>1 DEF AcceptRequest
<1>8. p.flag = f /\ p.mtime = v /\ f \in {"Y", "G"}
  OBVIOUS
<1> HIDE DEF p, f, r, v
<1>9. Len(toClient') = 1 /\ toClient'[1] = p /\ toClient' # <<>>
  BY <1>7
<1>10. IsReply(p) /\ ~IsData(p)
  BY <1>8 DEF IsReply, IsData
<1>11. ReplyPending'
  BY <1>1, <1>7, <1>8, <1>9 DEF ReplyPending, IsReply
<1>12. EffVer' = v
  BY <1>8, <1>9, <1>11 DEF EffVer
<1>13. EffOffset' = sess'.offset
  <2>1. CASE Resumes(r, v)
    BY <2>1, <1>4, <1>6, <1>7, <1>8, <1>9, <1>11
       DEF f, EffOffset, OffsetAfter, StartOffset
  <2>2. CASE ~Resumes(r, v)
    BY <2>2, <1>7, <1>8, <1>9, <1>11 DEF f, EffOffset, OffsetAfter, StartOffset
  <2>3. QED
    BY <2>1, <2>2
<1>14. f = "G" => v = store.mtime
  BY <1>4, <1>6 DEF f, Resumes
<1>15. RepliesFirst' /\ DataFits' /\ OneData' /\ NoData'
  BY <1>1, <1>7, <1>8, <1>9 DEF RepliesFirst, DataFits, OneData, NoData,
                                 IsReply, IsData
<1>16. GoesOn'
  BY <1>1, <1>7, <1>8, <1>9, <1>14 DEF GoesOn
<1>17. PackFits' /\ JunkFirst'
  BY <1>1, <1>7 DEF PackFits, JunkFirst
<1>18. ServerAgrees'
  BY <1>1, <1>6, <1>7, <1>12, <1>13, <1>15 DEF ServerAgrees
<1>19. QED
  BY <1>15, <1>16, <1>17, <1>18 DEF Agreement, ClientAgrees

LEMMA SendBlockAgrees ==
    ASSUME TypeOK, TypeOK', Agreement, SendBlock
    PROVE  Agreement'
<1> DEFINE len == ReadLen(sess)
           f == IF sess.offset + len = sess.total THEN "E" ELSE "F"
           b == IF len = 0 THEN NoBlock ELSE <<sess.ver, sess.offset>>
           p == [flag |-> f, len |-> len, block |-> b, at |-> sess.offset]
<1>1. /\ spc = "read" /\ spc' = "ack"
      /\ sess' = [sess EXCEPT !.data = p]
      /\ toClient' = Append(toClient, p)
      /\ UNCHANGED <<astray, cpc, store, pack, updateFile, toServer>>
  BY DEF SendBlock
<1>2. /\ p.len = 1 => p.block = <<sess.ver, sess.offset>>
      /\ p.at = sess.offset /\ p.flag \in {"F", "E"}
  BY DEF ReadLen
<1> HIDE DEF p
<1>3. sess \in Session /\ sess'.data \in Data
  BY <1>1 DEF TypeOK
<1>4. sess'.data = p
  BY <1>1, <1>3 DEF Session
<1>5. p \in Data /\ p \in ServerPacket
  BY <1>3, <1>4 DEF ServerPacket
<1>6. sess'.offset = sess.offset /\ sess'.ver = sess.ver
  BY <1>1, <1>3, <1>5, SessionData
<1>7. IsData(p) /\ ~IsReply(p) /\ p.flag # "junk"
  BY <1>2 DEF IsData, IsReply
<1>8. /\ EffOffset' = EffOffset /\ EffVer' = EffVer
      /\ Over' <=> Over
      /\ JunkFirst'
  BY <1>1, <1>5, <1>7, ServerAppends DEF Agreement
<1>9. ASSUME ~Over PROVE ClientAgrees' /\ ServerAgrees'
  <2>1. ClientAgrees /\ ServerAgrees
    BY <1>9 DEF Agreement
  <2>2. /\ toServer = <<>> /\ cpc \in {"flag", "reply", "save"} /\ NoData
        /\ sess.offset = EffOffset /\ sess.ver = EffVer
    BY <1>1, <2>1 DEF ServerAgrees
  <2>3. /\ ClientAgrees'
        /\ \E i \in 1 .. Len(toClient') :
               IsData(toClient'[i]) /\ toClient'[i].len = p.len
    BY <1>1, <1>2, <1>5, <1>7, <2>1, <2>2, ServerSendsBlock
  <2>4. Waiting'
    BY <1>1, <1>4, <1>6, <1>8, <2>2, <2>3 DEF Waiting, IsData
  <2>5. ServerAgrees'
    BY <1>1, <1>6, <1>8, <2>2, <2>4 DEF ServerAgrees
  <2>6. QED
    BY <2>3, <2>5
<1>10. QED
  BY <1>8, <1>9 DEF Agreement

LEMMA SendBlockPacket ==
    ASSUME TypeOK, SendBlock
    PROVE  \E p \in ServerPacket : toClient' = Append(toClient, p)
<1> DEFINE len == ReadLen(sess)
           f == IF sess.offset + len = sess.total THEN "E" ELSE "F"
           b == IF len = 0 THEN NoBlock ELSE <<sess.ver, sess.offset>>
           p == [flag |-> f, len |-> len, block |-> b, at |-> sess.offset]
<1>1. /\ len \in {0, 1}
      /\ len = 1 => sess.offset < Blocks[sess.ver]
      /\ toClient' = Append(toClient, p)
  BY DEF SendBlock, ReadLen
<1> HIDE DEF len
<1>2. sess \in Session
  BY DEF TypeOK, SendBlock
<1>3. b \in Block
  BY <1>1, <1>2, SessionFields, BlocksAssumption DEF Block, Position
<1>4. p \in Data
  BY <1>1, <1>2, <1>3, SessionFields DEF Data
<1>5. QED
  BY <1>1, <1>4 DEF ServerPacket

LEMMA RecvAckAgrees ==
    ASSUME TypeOK, Agreement, RecvAck
    PROVE  Agreement'
<1>1. /\ spc = "ack" /\ toServer # <<>> /\ toServer \in Seq(ClientPacket)
      /\ toServer' = Tail(toServer)
      /\ UNCHANGED <<astray, cpc, store, pack, updateFile, toClient>>
      /\ sess \in Session /\ sess.data \in Data
  BY DEF RecvAck, TypeOK
<1>2. /\ JunkFirst' /\ (Over' <=> Over) /\ (ClientAgrees' <=> ClientAgrees)
      /\ (NoData' <=> NoData) /\ EffOffset' = EffOffset /\ EffVer' = EffVer
  BY <1>1, ClientSeesNothing DEF Agreement
<1>3. ASSUME ~Over PROVE ClientAgrees' /\ ServerAgrees'
  <2>1. ClientAgrees /\ ServerAgrees
    BY <1>3 DEF Agreement
  <2>2. sess.ver = EffVer /\ Acknowledged
    BY <1>1, <2>1 DEF ServerAgrees, Waiting, InHand, Counted
  <2>3. toServer' = <<>>
    BY <1>1, <2>2, TailAt DEF Acknowledged
  <2>4. ServerAgrees'
    <3>1. CASE spc' = "none"
      BY <3>1 DEF ServerAgrees
    <3>2. CASE /\ sess' = [sess EXCEPT !.offset = @ + sess.data.len]
               /\ spc' = "read"
      <4>1. sess.offset + sess.data.len \in Nat
        BY SMTT(30), <1>1, SessionFields, DataFields
      <4>2. /\ sess'.offset = sess.offset + sess.data.len
            /\ sess'.ver = sess.ver
        BY <1>1, <3>2, <4>1, SessionOffset
      <4>3. sess'.offset = EffOffset
        BY <2>2, <4>2 DEF Acknowledged, EffOffset
      <4>4. QED
        BY <1>1, <1>2, <2>2, <2>3, <3>2, <4>2, <4>3
           DEF ServerAgrees, Acknowledged
    <3>3. QED
      BY <3>1, <3>2 DEF RecvAck
  <2>5. QED
    BY <1>2, <2>1, <2>4
<1>4. QED
  BY <1>2, <1>3 DEF Agreement

\* A packet is asked for again only by a client that will then give up.
LEMMA NakWhenOver ==
    ASSUME TypeOK, Agreement, RecvNak
    PROVE  Over
<1>1. /\ spc = "ack" /\ toServer # <<>> /\ toServer \in Seq(ClientPacket)
      /\ Head(toServer).flag = "ackN"
  BY DEF RecvNak, TypeOK
<1>2. SUFFICES ASSUME ~Over PROVE FALSE
  OBVIOUS
<1>3. Acknowledged
  BY <1>1, <1>2 DEF Agreement, ServerAgrees, Waiting, InHand, Counted
<1>4. QED
  BY <1>1, <1>3, TailAt DEF Acknowledged

LEMMA RecvNakAgrees ==
    ASSUME TypeOK, Agreement, RecvNak
    PROVE  Agreement' /\ Over'
<1>1. /\ UNCHANGED <<astray, cpc, store, pack, updateFile>>
      /\ toClient' = Append(toClient, sess.data)
      /\ sess.data \in Data
  BY DEF RecvNak, TypeOK
<1>2. /\ sess.data \in ServerPacket /\ ~IsReply(sess.data)
      /\ sess.data.flag # "junk"
  BY <1>1, DataFields DEF ServerPacket, IsReply
<1>3. QED
  BY <1>1, <1>2, NakWhenOver, ServerAppends DEF Agreement

LEMMA ServerEndsAgrees ==
    ASSUME TypeOK, Agreement, RefuseRequest \/ ServerFails \/ ServerKilled
    PROVE  Agreement'
<1>1. spc' = "none" /\ UNCHANGED <<astray, cpc, store, pack, updateFile>>
  BY DEF RefuseRequest, ServerFails, ServerKilled
<1>2. ServerAgrees'
  BY <1>1 DEF ServerAgrees
<1>3. CASE toClient' = Append(toClient, Stop)
  <2>1. Stop \in ServerPacket /\ ~IsReply(Stop) /\ Stop.flag # "junk"
    BY DEF ServerPacket, Stop, IsReply
  <2>2. QED
    BY <1>1, <1>2, <1>3, <2>1, ServerAppends, ServerSendsStop DEF Agreement
<1>4. CASE UNCHANGED toClient
  BY <1>1, <1>2, <1>4, ClientSeesNothing DEF Agreement
<1>5. QED
  BY <1>3, <1>4 DEF RefuseRequest, ServerFails, ServerKilled

---------------------------------------------------------------------------
(* The client's update thread keeps Agreement.                             *)

LEMMA StoreOffsetFields ==
    ASSUME NEW s \in Store, NEW n \in Nat
    PROVE  LET t == [s EXCEPT !.offset = n]
           IN t.offset = n /\ t.mtime = s.mtime /\ t.name = s.name
  BY DEF Store

LEMMA StoreReplyFields ==
    ASSUME NEW s \in Store, NEW n, NEW t, NEW m
    PROVE  LET u == [s EXCEPT !.name = n, !.total = t, !.mtime = m]
           IN u.offset = s.offset /\ u.mtime = m
  BY DEF Store

LEMMA ClientStartAgrees ==
    ASSUME TypeOK, NEW n \in Names, ClientStart(n)
    PROVE  Agreement'
<1>1. toClient' = <<>> /\ cpc' = "flag" /\ spc' = "recv"
  BY DEF ClientStart
<1>2. /\ Len(toServer') = 1
      /\ toServer'[1].offset = store'.offset
      /\ toServer'[1].mtime = store'.mtime
  BY DEF ClientStart
<1>3. ~ReplyPending' /\ JunkFirst'
  BY <1>1 DEF ReplyPending, JunkFirst
<1>4. RepliesFirst' /\ DataFits' /\ OneData'
  BY <1>1 DEF RepliesFirst, DataFits, OneData
<1>5. GoesOn' /\ PackFits'
  BY <1>1, <1>3 DEF GoesOn, PackFits
<1>6. ServerAgrees'
  BY <1>1, <1>2 DEF ServerAgrees
<1>7. QED
  BY <1>3, <1>4, <1>5, <1>6 DEF Agreement, ClientAgrees

\* What is left in the stream when its first packet is taken.
LEMMA RestOfStream ==
    ASSUME TypeOK, RepliesFirst, toClient # <<>>, toClient' = Tail(toClient)
    PROVE  /\ Head(toClient) = toClient[1]
           /\ toClient[1] \in ServerPacket
           /\ Len(toClient) \in Nat
           /\ 1 \in 1 .. Len(toClient)
           /\ Len(toClient') = Len(toClient) - 1
           /\ \A i \in 1 .. Len(toClient') :
                  /\ i + 1 \in 1 .. Len(toClient)
                  /\ toClient'[i] = toClient[i + 1]
                  /\ ~IsReply(toClient'[i])
           /\ toClient' # <<>> => ~IsReply(toClient'[1])
<1>1. toClient \in Seq(ServerPacket)
  BY DEF TypeOK
<1>2. /\ Head(toClient) = toClient[1]
      /\ Len(toClient) \in Nat /\ 1 \in 1 .. Len(toClient)
      /\ toClient' \in Seq(ServerPacket)
      /\ Len(toClient') = Len(toClient) - 1
      /\ \A i \in 1 .. Len(toClient') :
             toClient'[i] = toClient[i + 1] /\ i + 1 \in 1 .. Len(toClient)
  BY <1>1, TailAt
<1>3. \A i \in 1 .. Len(toClient') : ~IsReply(toClient'[i])
  <2>1. TAKE i \in 1 .. Len(toClient')
  <2>2. i + 1 \in 1 .. Len(toClient) /\ i + 1 # 1 /\ toClient'[i] = toClient[i + 1]
    BY <1>2
  <2>3. QED
    BY <2>2 DEF RepliesFirst, IsReply
<1>4. toClient' # <<>> => 1 \in 1 .. Len(toClient')
  BY <1>2
<1>5. toClient[1] \in ServerPacket
  BY <1>1, <1>2
<1>6. QED
  BY <1>2, <1>3, <1>4, <1>5

LEMMA RecvReplyFlagAgrees ==
    ASSUME TypeOK, ClientAgrees, ServerAgrees, RecvFlag, cpc' = "reply"
    PROVE  ClientAgrees' /\ ServerAgrees' /\ JunkFirst'
<1>1. /\ cpc = "flag" /\ toClient # <<>> /\ toClient' = Tail(toClient)
      /\ Head(toClient).flag \in {"Y", "G"}
      /\ store' = [store EXCEPT !.offset = OffsetAfter(Head(toClient).flag)]
      /\ pack' = Head(toClient)
      /\ UNCHANGED <<updateFile, toServer, spc, sess>>
      /\ store \in Store
  BY DEF RecvFlag, TypeOK
<1>2. /\ Head(toClient) = toClient[1]
      /\ 1 \in 1 .. Len(toClient)
      /\ \A i \in 1 .. Len(toClient') :
             /\ i + 1 \in 1 .. Len(toClient)
             /\ toClient'[i] = toClient[i + 1]
             /\ ~IsReply(toClient'[i])
      /\ Len(toClient) \in Nat /\ Len(toClient') = Len(toClient) - 1
  BY <1>1, RestOfStream DEF ClientAgrees
<1>3. ReplyPending /\ ~ReplyPending' /\ ~IsData(toClient[1])
  BY <1>1, <1>2 DEF ReplyPending, IsReply, IsData
<1>4. OffsetAfter(toClient[1].flag) \in Nat
  BY <1>1, StoreFields DEF OffsetAfter
<1>5. store'.offset = OffsetAfter(toClient[1].flag) /\ store'.mtime = store.mtime
  BY <1>1, <1>2, <1>4, StoreOffsetFields
<1>6. EffOffset' = EffOffset /\ EffVer' = EffVer
  BY <1>1, <1>2, <1>3, <1>5 DEF EffOffset, EffVer
<1>7. RepliesFirst' /\ JunkFirst' /\ PackFits'
  BY <1>2 DEF RepliesFirst, JunkFirst, PackFits, IsReply
<1>8. DataFits'
  BY <1>2, <1>6 DEF DataFits, ClientAgrees, IsData
<1>9. OneData'
  <2>1. ASSUME NEW i \in 1 .. Len(toClient'), NEW j \in 1 .. Len(toClient'),
               IsData(toClient'[i]), IsData(toClient'[j])
        PROVE  i = j
    <3>1. i + 1 = j + 1
      BY <1>2, <2>1 DEF OneData, ClientAgrees, IsData
    <3>2. QED
      BY <3>1
  <2>2. QED
    BY <2>1 DEF OneData, IsData
<1>10. GoesOn'
  BY <1>1, <1>2, <1>3, <1>5 DEF GoesOn, ClientAgrees, OffsetAfter
<1>11. NoData => NoData'
  BY <1>2 DEF NoData, IsData
<1>12. Waiting => Waiting'
  <2>1. SUFFICES ASSUME Waiting PROVE Waiting'
    OBVIOUS
  <2>2. PICK i \in 1 .. Len(toClient) :
              IsData(toClient[i]) /\ toClient[i].len = sess.data.len
    BY <2>1 DEF Waiting
  <2>3. i # 1
    BY <1>3, <2>2
  <2>4. i - 1 \in 1 .. Len(toClient') /\ (i - 1) + 1 = i
    BY <1>2, <2>3
  <2>5. toClient'[i - 1] = toClient[i]
    BY <1>2, <2>4
  <2>6. QED
    BY <1>1, <1>6, <2>1, <2>2, <2>4, <2>5 DEF Waiting, IsData
<1>13. spc # "recv" /\ ~InHand /\ ~Counted /\ ~Acknowledged
  BY <1>1, <1>3 DEF TypeOK, InHand, Counted, Acknowledged
<1>14. ServerAgrees'
  BY <1>1, <1>6, <1>11, <1>12, <1>13 DEF ServerAgrees
<1>15. QED
  BY <1>7, <1>8, <1>9, <1>10, <1>14 DEF ClientAgrees

LEMMA RecvDataFlagAgrees ==
    ASSUME TypeOK, ClientAgrees, ServerAgrees, RecvFlag, cpc' = "body"
    PROVE  ClientAgrees' /\ ServerAgrees' /\ JunkFirst'
<1>1. /\ cpc = "flag" /\ toClient # <<>> /\ toClient' = Tail(toClient)
      /\ Head(toClient).flag \in {"F", "E"}
      /\ pack' = Head(toClient)
      /\ UNCHANGED <<store, updateFile, toServer, spc, sess>>
  BY DEF RecvFlag
<1>2. /\ Head(toClient) = toClient[1]
      /\ 1 \in 1 .. Len(toClient)
      /\ \A i \in 1 .. Len(toClient') :
             /\ i + 1 \in 1 .. Len(toClient)
             /\ toClient'[i] = toClient[i + 1]
             /\ ~IsReply(toClient'[i])
      /\ Len(toClient) \in Nat
  BY <1>1, RestOfStream DEF ClientAgrees
<1>3. IsData(toClient[1]) /\ ~ReplyPending /\ ~ReplyPending'
  BY <1>1, <1>2 DEF ReplyPending, IsReply, IsData
<1>4. /\ EffOffset = store.offset /\ EffVer = store.mtime
      /\ EffOffset' = store.offset /\ EffVer' = store.mtime
  BY <1>1, <1>3 DEF EffOffset, EffVer
<1>5. /\ pack'.at = store.offset
      /\ pack'.len = 1 => pack'.block = <<store.mtime, store.offset>>
  BY <1>1, <1>2, <1>3, <1>4 DEF DataFits, ClientAgrees
<1>6. \A i \in 1 .. Len(toClient') : ~IsData(toClient'[i])
  <2>1. TAKE i \in 1 .. Len(toClient')
  <2>2. i + 1 \in 1 .. Len(toClient) /\ i + 1 # 1 /\ toClient'[i] = toClient[i + 1]
    BY <1>2
  <2>3. QED
    BY <1>2, <1>3, <2>2 DEF OneData, ClientAgrees, IsData
<1>7. RepliesFirst' /\ JunkFirst' /\ OneData' /\ DataFits'
  BY <1>2, <1>6 DEF RepliesFirst, JunkFirst, OneData, DataFits, IsReply, IsData
<1>8. GoesOn' /\ PackFits'
  BY <1>1, <1>3, <1>5 DEF GoesOn, PackFits
<1>9. ~NoData
  BY <1>2, <1>3 DEF NoData
<1>10. Waiting => InHand'
  <2>1. SUFFICES ASSUME Waiting PROVE InHand'
    OBVIOUS
  <2>2. PICK i \in 1 .. Len(toClient) :
              IsData(toClient[i]) /\ toClient[i].len = sess.data.len
    BY <2>1 DEF Waiting
  <2>3. i = 1
    BY <1>2, <1>3, <2>2 DEF OneData, ClientAgrees
  <2>4. pack'.len = sess'.data.len
    BY <1>1, <1>2, <2>2, <2>3
  <2>5. QED
    BY <1>1, <1>4, <2>1, <2>4 DEF Waiting, InHand
<1>11. spc # "recv" /\ ~InHand /\ ~Counted /\ ~Acknowledged
  BY <1>1, <1>9 DEF TypeOK, InHand, Counted, Acknowledged
<1>12. ServerAgrees'
  BY <1>1, <1>4, <1>9, <1>10, <1>11 DEF ServerAgrees
<1>13. QED
  BY <1>7, <1>8, <1>12 DEF ClientAgrees

LEMMA RecvFlagAgrees ==
    ASSUME TypeOK, Agreement, RecvFlag, astray # "now"
    PROVE  Agreement'
<1>1. CASE cpc' = "saveExit"
  BY <1>1 DEF Agreement, Over, JunkFirst
<1>2. CASE cpc' # "saveExit"
  <2>1. /\ cpc = "flag" /\ toClient # <<>> /\ Head(toClient).flag # "junk"
        /\ cpc' \in {"reply", "body"}
    BY <1>2 DEF RecvFlag
  <2>2. Head(toClient) = toClient[1]
    BY <2>1, TailAt DEF TypeOK
  <2>3. ~Over
    BY <2>1, <2>2 DEF Over
  <2>4. QED
    BY <2>1, <2>3, RecvReplyFlagAgrees, RecvDataFlagAgrees DEF Agreement
<1>3. QED
  BY <1>1, <1>2

\* Outside "flag" no reply is pending, and outside the three places below no
\* block is on its way.
LEMMA StreamQuiet ==
    ASSUME ClientAgrees
    PROVE  /\ cpc # "flag" => /\ ~ReplyPending
                              /\ \A i \in 1 .. Len(toClient) : ~IsReply(toClient[i])
           /\ cpc \notin {"flag", "reply", "save"} => NoData
  BY DEF ClientAgrees, RepliesFirst, DataFits, ReplyPending, NoData

\* A packet is handled without a look at the stream.
LEMMA StreamKept ==
    ASSUME TypeOK, ClientAgrees, cpc # "flag", UNCHANGED toClient,
           EffOffset' = EffOffset, EffVer' = EffVer,
           cpc' \in {"flag", "reply", "save"} \/ NoData
    PROVE  /\ ~ReplyPending'
           /\ RepliesFirst' /\ DataFits' /\ OneData'
           /\ NoData => NoData'
<1>1. \A i \in 1 .. Len(toClient) : ~IsReply(toClient[i])
  BY StreamQuiet
<1>2. toClient # <<>> => 1 \in 1 .. Len(toClient)
  <2>1. toClient \in Seq(ServerPacket)
    BY DEF TypeOK
  <2>2. QED
    BY <2>1
<1>3. ~ReplyPending' /\ RepliesFirst'
  BY <1>1, <1>2 DEF ReplyPending, RepliesFirst, IsReply
<1>4. DataFits' /\ OneData'
  BY DEF ClientAgrees, DataFits, OneData, NoData, IsData
<1>5. NoData => NoData'
  BY DEF NoData, IsData
<1>6. QED
  BY <1>3, <1>4, <1>5

LEMMA RecvReplyAgrees ==
    ASSUME TypeOK, ClientAgrees, ServerAgrees, RecvReply
    PROVE  ClientAgrees' /\ ServerAgrees' /\ JunkFirst'
<1>1. /\ cpc = "reply" /\ cpc' = "save" /\ store \in Store
      /\ store' = [store EXCEPT !.name = pack.name, !.total = pack.total,
                                !.mtime = pack.mtime]
      /\ UNCHANGED <<updateFile, pack, toClient, toServer, spc, sess>>
  BY DEF RecvReply, TypeOK
<1>2. store'.offset = store.offset /\ store'.mtime = pack.mtime
  BY <1>1, StoreReplyFields
<1>3. EffOffset' = EffOffset /\ EffVer' = EffVer
  BY <1>1, <1>2 DEF EffOffset, EffVer, ReplyPending
<1>4. /\ ~ReplyPending' /\ RepliesFirst' /\ DataFits' /\ OneData'
      /\ NoData => NoData'
  BY <1>1, <1>3, StreamKept
<1>5. GoesOn' /\ PackFits' /\ JunkFirst'
  BY <1>1, <1>4 DEF GoesOn, PackFits, JunkFirst
<1>6. spc # "recv" /\ ~InHand /\ ~Counted /\ ~Acknowledged
  BY <1>1 DEF TypeOK, InHand, Counted, Acknowledged
<1>7. Waiting => Waiting'
  BY <1>1, <1>3 DEF Waiting, IsData
<1>8. ServerAgrees'
  BY <1>1, <1>3, <1>4, <1>6, <1>7 DEF ServerAgrees
<1>9. QED
  BY <1>4, <1>5, <1>8 DEF ClientAgrees

LEMMA SaveWriteAgrees ==
    ASSUME TypeOK, ClientAgrees, ServerAgrees, SaveWrite, cpc = "save"
    PROVE  ClientAgrees' /\ ServerAgrees' /\ JunkFirst'
<1>1. /\ cpc' = "flag"
      /\ UNCHANGED <<store, updateFile, pack, toClient, toServer, spc, sess>>
  BY DEF SaveWrite
<1>2. ~ReplyPending'
  <2>1. \A i \in 1 .. Len(toClient) : ~IsReply(toClient[i])
    BY StreamQuiet
  <2>2. toClient # <<>> => 1 \in 1 .. Len(toClient)
    <3>1. toClient \in Seq(ServerPacket)
      BY DEF TypeOK
    <3>2. QED
      BY <3>1
  <2>3. QED
    BY <1>1, <2>1, <2>2 DEF ReplyPending, IsReply
<1>3. EffOffset' = EffOffset /\ EffVer' = EffVer
  BY <1>1, <1>2 DEF EffOffset, EffVer, ReplyPending
<1>4. /\ RepliesFirst' /\ DataFits' /\ OneData'
      /\ NoData => NoData'
  BY <1>1, <1>3, StreamKept
<1>5. GoesOn' /\ PackFits' /\ JunkFirst'
  BY <1>1, <1>2 DEF GoesOn, PackFits, JunkFirst
<1>6. spc # "recv" /\ ~InHand /\ ~Counted /\ ~Acknowledged
  BY DEF TypeOK, InHand, Counted, Acknowledged
<1>7. Waiting => Waiting'
  BY <1>1, <1>3 DEF Waiting, IsData
<1>8. ServerAgrees'
  BY <1>1, <1>3, <1>4, <1>6, <1>7 DEF ServerAgrees
<1>9. QED
  BY <1>4, <1>5, <1>8 DEF ClientAgrees

LEMMA WriteBlockAgrees ==
    ASSUME TypeOK, ClientAgrees, ServerAgrees, WriteBlock
    PROVE  ClientAgrees' /\ ServerAgrees' /\ JunkFirst'
<1>1. /\ cpc = "body" /\ cpc' = "count"
      /\ updateFile \in [Position -> Block] /\ pack \in Data
      /\ updateFile' = IF pack.len = 0 \/ store.offset \notin Position
                       THEN updateFile
                       ELSE [updateFile EXCEPT ![store.offset] = pack.block]
      /\ UNCHANGED <<store, pack, toClient, toServer, spc, sess>>
  BY DEF WriteBlock, TypeOK
<1>2. EffOffset' = EffOffset /\ EffVer' = EffVer
  BY <1>1 DEF EffOffset, EffVer, ReplyPending
<1>3. NoData
  BY <1>1, StreamQuiet
<1>4. ~ReplyPending' /\ RepliesFirst' /\ DataFits' /\ OneData'
  BY <1>1, <1>2, <1>3, StreamKept
<1>5. store.offset \in Position /\ pack.len = 1 =>
          updateFile'[store.offset] = pack.block
  BY <1>1
<1>6. GoesOn' /\ PackFits' /\ JunkFirst'
  BY <1>1, <1>4, <1>5 DEF GoesOn, PackFits, JunkFirst, ClientAgrees
<1>7. spc # "recv" /\ ~Waiting /\ ~Counted /\ ~Acknowledged
  BY <1>1, <1>3 DEF TypeOK, Waiting, NoData, Counted, Acknowledged
<1>8. InHand => InHand'
  BY <1>1 DEF InHand
<1>9. ServerAgrees'
  BY <1>1, <1>2, <1>7, <1>8 DEF ServerAgrees
<1>10. QED
  BY <1>4, <1>6, <1>9 DEF ClientAgrees

LEMMA CountBlockAgrees ==
    ASSUME TypeOK, ClientAgrees, ServerAgrees, CountBlock, astray # "now"
    PROVE  ClientAgrees' /\ ServerAgrees' /\ JunkFirst'
<1>1. /\ cpc = "count" /\ cpc' = "ack"
      /\ store \in Store /\ pack \in Data
      /\ store' = [store EXCEPT !.offset = @ + pack.len]
      /\ UNCHANGED <<updateFile, pack, toClient, toServer, spc, sess>>
  BY DEF CountBlock, DataLen, TypeOK
<1>2. store.offset + pack.len \in Nat
  BY <1>1, StoreFields, DataFields
<1>3. store'.offset = store.offset + pack.len /\ store'.mtime = store.mtime
  BY <1>1, <1>2, StoreOffsetFields
<1>4. EffVer' = EffVer /\ ~ReplyPending'
  BY <1>1, <1>3 DEF EffVer, ReplyPending
<1>5. NoData /\ \A i \in 1 .. Len(toClient) : ~IsReply(toClient[i])
  BY <1>1, StreamQuiet
<1>6. RepliesFirst' /\ DataFits' /\ OneData'
  BY <1>1, <1>5 DEF RepliesFirst, DataFits, OneData, NoData, IsReply, IsData
<1>7. GoesOn' /\ PackFits' /\ JunkFirst'
  BY <1>1, <1>4 DEF GoesOn, PackFits, JunkFirst
<1>8. spc # "recv" /\ ~Waiting /\ ~Counted /\ ~Acknowledged
  BY <1>1, <1>5 DEF TypeOK, Waiting, NoData, Counted, Acknowledged
<1>9. InHand => Counted'
  BY <1>1, <1>3 DEF InHand, Counted
<1>10. ServerAgrees'
  BY <1>1, <1>4, <1>8, <1>9 DEF ServerAgrees
<1>11. QED
  BY <1>6, <1>7, <1>10 DEF ClientAgrees

LEMMA SendAckAgrees ==
    ASSUME TypeOK, ClientAgrees, ServerAgrees, SendAck, cpc' = "flag"
    PROVE  ClientAgrees' /\ ServerAgrees' /\ JunkFirst'
<1>1. /\ cpc = "ack"
      /\ toServer' = IF spc = "none" THEN toServer
                     ELSE Append(toServer, [flag |-> "ackY"])
      /\ UNCHANGED <<store, updateFile, pack, toClient, spc, sess>>
  BY DEF SendAck
<1>2. NoData /\ \A i \in 1 .. Len(toClient) : ~IsReply(toClient[i])
  BY <1>1, StreamQuiet
<1>3. toClient # <<>> => 1 \in 1 .. Len(toClient)
  <2>1. toClient \in Seq(ServerPacket)
    BY DEF TypeOK
  <2>2. QED
    BY <2>1
<1>4. ~ReplyPending'
  BY <1>1, <1>2, <1>3 DEF ReplyPending, IsReply
<1>5. EffVer' = EffVer
  BY <1>1, <1>4 DEF EffVer, ReplyPending
<1>6. RepliesFirst' /\ DataFits' /\ OneData' /\ NoData'
  BY <1>1, <1>2 DEF RepliesFirst, DataFits, OneData, NoData, IsReply, IsData
<1>7. GoesOn' /\ PackFits' /\ JunkFirst'
  BY <1>4 DEF GoesOn, PackFits, JunkFirst
<1>8. spc # "recv" /\ ~Waiting /\ ~InHand /\ ~Acknowledged
  BY <1>1, <1>2 DEF TypeOK, Waiting, NoData, InHand, Acknowledged
<1>9. spc = "ack" /\ Counted => Acknowledged'
  <2>1. SUFFICES ASSUME spc = "ack", Counted PROVE Acknowledged'
    OBVIOUS
  <2>2. toServer' = <<[flag |-> "ackY"]>>
    BY <1>1, <2>1 DEF Counted
  <2>3. Len(toServer') = 1 /\ toServer'[1].flag = "ackY"
    BY <2>2
  <2>4. QED
    BY <1>1, <1>4, <1>6, <2>1, <2>3 DEF Counted, Acknowledged
<1>10. spc # "read"
  BY <1>1 DEF ServerAgrees
<1>11. ServerAgrees'
  BY <1>1, <1>5, <1>8, <1>9, <1>10 DEF ServerAgrees
<1>12. QED
  BY <1>6, <1>7, <1>11 DEF ClientAgrees

LEMMA UpdateThreadAgrees ==
    ASSUME TypeOK, Agreement, UpdateThread, astray # "now"
    PROVE  Agreement'
<1>1. CASE RecvFlag
  BY <1>1, RecvFlagAgrees
<1>2. CASE SaveOpen
  BY <1>2, ClientSeesNothing DEF SaveOpen, Agreement, ServerAgrees, Waiting,
                                 InHand, Counted, Acknowledged, IsData
<1>3. CASE SaveWrite
  <2>1. CASE cpc = "save"
    BY <1>3, <2>1, SaveWriteAgrees DEF Agreement, Over
  <2>2. CASE cpc = "saveNak"
    BY <1>3, <2>2 DEF SaveWrite, Agreement, JunkFirst, Over
  <2>3. CASE cpc = "saveExit"
    BY <1>3, <2>3 DEF SaveWrite, ClientGone, Agreement, JunkFirst, Over
  <2>4. QED
    BY <1>3, <2>1, <2>2, <2>3 DEF SaveWrite, Saving
<1>4. CASE Unpack \/ Install \/ ResetOffset
  BY <1>4 DEF Unpack, Install, ResetOffset, Agreement, JunkFirst, Over
<1>5. CASE SendAck /\ cpc' = "unpack"
  BY <1>5 DEF Agreement, JunkFirst, Over
<1>6. CASE \/ RecvReply \/ WriteBlock \/ CountBlock
           \/ SendAck /\ cpc' = "flag"
  <2>1. ~Over
    BY <1>6 DEF RecvReply, WriteBlock, CountBlock, SendAck, Over
  <2>2. QED
    BY <1>6, <2>1, RecvReplyAgrees, WriteBlockAgrees, CountBlockAgrees,
       SendAckAgrees DEF Agreement
<1>7. CASE RecvRest
  BY <1>7 DEF RecvRest, Agreement, JunkFirst, Over
<1>8. QED
  BY <1>1, <1>2, <1>3, <1>4, <1>5, <1>6, <1>7 DEF UpdateThread, SendAck

\* Whatever neither end looks at may change.
LEMMA NothingSeen ==
    ASSUME Agreement,
           UNCHANGED <<astray, cpc, store, pack, updateFile, toClient, toServer, spc, sess>>
    PROVE  Agreement'
<1>1. ServerAgrees => ServerAgrees'
  BY ClientSeesNothing DEF ServerAgrees, Waiting, InHand, Counted,
                           Acknowledged, IsData
<1>2. QED
  BY <1>1, ClientSeesNothing DEF Agreement

\* Once astray, the client stays so until it is gone.
LEMMA AstrayAgrees ==
    ASSUME TypeOK, Agreement, [Next]_vars, astray = "now",
           ~\E n \in Names : ClientStart(n)
    PROVE  Agreement'
<1>1. Over'
  BY DEF Over, Next, UpdateThread, HeartbeatThread, Server, Faulty, ReplaceFile,
         ClientCannotStart, RecvFlag, RecvRest, RecvReply, SaveOpen, SaveWrite,
         WriteBlock, CountBlock, SendAck, Unpack, Install, ResetOffset,
         HeartbeatTimeout, HeartbeatCopy, HeartbeatExit, AcceptRequest,
         RefuseRequest, SendBlock, RecvAck, RecvNak, RecvBodyFails,
         WriteOrSendFails, ServerFails, ClientKilled, ServerKilled,
         ConnectionLost, ClientGone, vars
<1>2. JunkFirst'
  <2>1. CASE RecvBodyFails
    <3>1. toClient' = <<Junk>> \o toClient /\ toClient \in Seq(ServerPacket)
      BY <2>1 DEF RecvBodyFails, TypeOK
    <3>2. toClient' # <<>> /\ toClient'[1] = Junk
      BY <3>1
    <3>3. QED
      BY <3>2 DEF JunkFirst, Junk
  <2>2. CASE cpc' # "saveNak"
    BY <2>2 DEF JunkFirst
  <2>3. CASE UNCHANGED <<cpc, toClient>>
    BY <2>3 DEF JunkFirst, Agreement
  <2>4. CASE UNCHANGED cpc /\ \E p \in ServerPacket : toClient' = Append(toClient, p)
    <3>1. toClient \in Seq(ServerPacket)
      BY DEF TypeOK
    <3>2. toClient # <<>> => toClient'[1] = toClient[1] /\ toClient' # <<>>
      BY <2>4, <3>1, AppendAt
    <3>3. QED
      BY <2>4, <3>2 DEF JunkFirst, Agreement
  <2>5. CASE AcceptRequest
    BY <2>5 DEF AcceptRequest, TypeOK, JunkFirst
  <2>6. CASE RefuseRequest \/ ServerFails
    BY <2>4, <2>6 DEF RefuseRequest, ServerFails, ServerPacket
  <2>7. CASE SendBlock \/ RecvNak
    <3>1. CASE SendBlock
      BY <3>1, SendBlockPacket, <2>4 DEF SendBlock
    <3>2. CASE RecvNak
      BY <3>2, <2>4 DEF RecvNak, TypeOK, ServerPacket
    <3>3. QED
      BY <2>7, <3>1, <3>2
  <2>8. CASE UpdateThread
    BY <2>2, <2>3, <2>8
       DEF UpdateThread, RecvFlag, RecvRest, RecvReply, SaveOpen, SaveWrite,
           WriteBlock, CountBlock, SendAck, Unpack, Install, ResetOffset,
           ClientGone
  <2>9. CASE HeartbeatExit \/ WriteOrSendFails \/ ClientKilled \/ ConnectionLost
    BY <2>2, <2>9 DEF HeartbeatExit, WriteOrSendFails, ClientKilled,
                      ConnectionLost, ClientGone
  <2>10. CASE \/ \E n \in Names : ReplaceFile(n)
              \/ ClientCannotStart \/ UNCHANGED vars \/ RecvAck \/ ServerKilled
              \/ HeartbeatTimeout \/ HeartbeatCopy
    BY <2>3, <2>10
       DEF ReplaceFile, ClientCannotStart, vars, HeartbeatTimeout, HeartbeatCopy,
           RecvAck, ServerKilled
  <2>11. QED
    BY <2>1, <2>5, <2>6, <2>7, <2>8, <2>9, <2>10
       DEF Next, HeartbeatThread, Server, Faulty
<1>3. QED
  BY <1>1, <1>2 DEF Agreement

LEMMA AgreementNext ==
    ASSUME TypeOK, TypeOK', Agreement, [Next]_vars
    PROVE  Agreement'
<1>8. CASE astray = "now" /\ ~\E n \in Names : ClientStart(n)
  BY <1>8, AstrayAgrees
<1>1. CASE \E n \in Names : ClientStart(n)
  BY <1>1, ClientStartAgrees
<1>2. CASE \/ \E n \in Names : ReplaceFile(n)
           \/ ClientCannotStart \/ UNCHANGED vars
           \/ HeartbeatTimeout \/ HeartbeatCopy
  BY <1>2, NothingSeen
     DEF ReplaceFile, ClientCannotStart, vars, HeartbeatTimeout, HeartbeatCopy
<1>3. CASE UpdateThread /\ astray # "now"
  BY <1>3, UpdateThreadAgrees
<1>4. CASE HeartbeatExit \/ WriteOrSendFails \/ ClientKilled \/ ConnectionLost
  BY <1>4 DEF HeartbeatExit, WriteOrSendFails, ClientKilled, ConnectionLost,
              ClientGone, Agreement, JunkFirst, Over
<1>5. CASE (Server \/ ServerFails \/ ServerKilled) /\ astray # "now"
  BY <1>5, AcceptAgrees, SendBlockAgrees, RecvAckAgrees, RecvNakAgrees,
     ServerEndsAgrees DEF Server
<1>6. CASE RecvBodyFails
  <2>1. cpc' = "saveNak" /\ toClient' = <<Junk>> \o toClient
    BY <1>6 DEF RecvBodyFails
  <2>2. toClient \in Seq(ServerPacket) /\ Junk \in ServerPacket
    BY DEF TypeOK, ServerPacket
  <2>3. toClient' # <<>> /\ toClient'[1] = Junk
    BY <2>1, <2>2
  <2>4. QED
    BY <2>1, <2>3 DEF Agreement, JunkFirst, Over, Junk
<1>7. QED
  BY <1>1, <1>2, <1>3, <1>4, <1>5, <1>6, <1>8
     DEF Next, HeartbeatThread, Faulty

LEMMA AgreementInit == Init => Agreement
  BY DEF Init, Agreement, JunkFirst, Over

\* In every run the two counters agree, as Agreement says.
THEOREM AgreementHolds == Spec => []Agreement
<1>1. TypeOK /\ TypeOK' /\ Agreement /\ [Next]_vars => Agreement'
  BY AgreementNext
<1>2. QED
  BY <1>1, AgreementInit, TypeCorrect, PTL DEF Spec

\* A block is written at the position the server read it from
\* (recv_file_pack's lseek against the server's), although no packet says so
\* and either end may fail at any point; what is excepted is the connection in
\* which the client takes the rest of a packet for a packet, not those after it.
THEOREM WritesInPlaceHolds == Spec => []WritesInPlace
<1>1. Agreement => WritesInPlace
  BY DEF Agreement, Over, ClientAgrees, PackFits, WritesInPlace
<1>2. QED
  BY <1>1, AgreementHolds, PTL

---------------------------------------------------------------------------
(* What is saved is true of the copy.                                      *)

Truthful(s, file) ==
    \A p \in Position : p < s.offset => file[p] = <<s.mtime, p>>

Saved == record \notin {Absent, Empty}

\* The client has never taken the rest of a packet for one.
InStep == astray = "never"

LEMMA StillInStep ==
    ASSUME [Next]_vars, InStep'
    PROVE  InStep /\ ~RecvRest
  BY DEF InStep, Next, UpdateThread, HeartbeatThread, Server, Faulty, ClientStart,
         ReplaceFile, ClientCannotStart, RecvFlag, RecvRest, RecvReply, SaveOpen,
         SaveWrite, WriteBlock, CountBlock, SendAck, Unpack, Install, ResetOffset,
         HeartbeatTimeout, HeartbeatCopy, HeartbeatExit, AcceptRequest,
         RefuseRequest, SendBlock, RecvAck, RecvNak, RecvBodyFails,
         WriteOrSendFails, ServerFails, ClientKilled, ServerKilled,
         ConnectionLost, ClientGone, vars

RecordExact ==
    record \notin {Absent, Empty} =>
        \A p \in Position : p < record.offset =>
            updateFile[p] = <<record.mtime, p>>

\* What the client has counted is there.
StoreTruthful == cpc # "off" => Truthful(store, updateFile)

\* Before a block of another version is written its version is saved.
Checkpointed == cpc \notin {"off", "save"} /\ Saved => record.mtime = store.mtime

\* write() has copied what it will save, if it copies it at once.
CopyWhole == hpc = "copyRest" => cpc # "off" /\ copied = store

Truth == RecordExact /\ StoreTruthful /\ Checkpointed /\ CopyWhole

LEMMA RecordIsTruthful ==
    RecordExact <=> (Saved => Truthful(record, updateFile))
  BY DEF RecordExact, Saved, Truthful

LEMMA TruthInit == Init => Truth
  BY DEF Init, Truth, RecordExact, StoreTruthful, Checkpointed, CopyWhole

\* The client ends, with or without a last save of what it knows.
LEMMA TruthGone ==
    ASSUME Truth, ClientGone, UNCHANGED updateFile,
           record' = record \/ (cpc # "off" /\ record' = store)
    PROVE  Truth'
<1>1. RecordExact'
  BY DEF Truth, RecordExact, StoreTruthful, Truthful
<1>2. QED
  BY <1>1 DEF ClientGone, StoreTruthful, Checkpointed, CopyWhole, Truth

\* Neither the copy nor what is counted or saved changes.
LEMMA TruthKept ==
    ASSUME Truth, UNCHANGED <<updateFile, record, store, copied, hpc>>,
           cpc # "off" /\ cpc' # "off", cpc = "save" => cpc' = "save"
    PROVE  Truth'
  BY DEF Truth, RecordExact, StoreTruthful, Truthful, Checkpointed,
         CopyWhole, Saved

LEMMA TruthUpdateThread ==
    ASSUME TypeOK, TypeOK', Agreement, Truth, UpdateThread, hpc # "copyRest",
           InStep, ~RecvRest
    PROVE  Truth'
<1>1. CASE RecvFlag
  <2>1. /\ cpc = "flag" /\ cpc' \notin {"off", "save"}
        /\ UNCHANGED <<record, updateFile, hpc, copied>> /\ store \in Store
    BY <1>1 DEF RecvFlag, TypeOK
  <2>2. PICK n \in {0, store.offset} :
          store' = store \/ store' = [store EXCEPT !.offset = n]
    BY <1>1 DEF RecvFlag, OffsetAfter
  <2>3. /\ store'.mtime = store.mtime
        /\ store'.offset \in {0, store.offset}
    <3>1. n \in Nat
      BY <2>1, <2>2, StoreFields
    <3>2. CASE store' = store
      BY <3>2
    <3>3. CASE store' = [store EXCEPT !.offset = n]
      <4>1. store'.offset = n /\ store'.mtime = store.mtime
        BY <2>1, <3>1, <3>3, StoreOffsetFields
      <4>2. QED
        BY <2>2, <4>1
    <3>4. QED
      BY <2>2, <3>2, <3>3
  <2>4. store.offset \in Nat
    BY <2>1, StoreFields
  <2>5. RecordExact' /\ Checkpointed' /\ CopyWhole'
    BY <2>1, <2>3 DEF Truth, RecordExact, Checkpointed, CopyWhole, Saved
  <2>6. StoreTruthful'
    BY <2>1, <2>3, <2>4 DEF Truth, StoreTruthful, Truthful, Position
  <2>7. QED
    BY <2>5, <2>6 DEF Truth
<1>2. CASE RecvReply
  <2>1. /\ cpc = "reply" /\ cpc' = "save" /\ store \in Store /\ pack \in Reply
        /\ store' = [store EXCEPT !.name = pack.name, !.total = pack.total,
                                  !.mtime = pack.mtime]
        /\ UNCHANGED <<record, updateFile, hpc, copied>>
    BY <1>2 DEF RecvReply, TypeOK
  <2>2. store'.offset = store.offset /\ store'.mtime = pack.mtime
    BY <2>1, StoreReplyFields
  <2>3. store.offset = 0 \/ pack.mtime = store.mtime
    <3>1. ~Over
      BY <2>1 DEF InStep, Over
    <3>2. QED
      BY <2>1, <3>1, ReplyFields DEF Agreement, ClientAgrees, GoesOn
  <2>4. StoreTruthful'
    BY <2>1, <2>2, <2>3 DEF Truth, StoreTruthful, Truthful, Position
  <2>5. RecordExact' /\ Checkpointed' /\ CopyWhole'
    BY <2>1 DEF Truth, RecordExact, Checkpointed, CopyWhole
  <2>6. QED
    BY <2>4, <2>5 DEF Truth
<1>3. CASE SaveOpen
  <2>1. /\ cpc \in Saving /\ UNCHANGED <<updateFile, store, hpc, copied, cpc>>
        /\ record' = Empty
    BY <1>3 DEF SaveOpen
  <2>2. QED
    BY <2>1 DEF Truth, RecordExact, StoreTruthful, Truthful, Checkpointed,
                CopyWhole, Saved, Saving
<1>4. CASE SaveWrite
  <2>1. /\ cpc # "off" /\ record' = store
        /\ UNCHANGED <<updateFile, store, copied>>
    BY <1>4 DEF SaveWrite, Saving
  <2>2. CASE ClientGone
    BY <2>1, <2>2, TruthGone
  <2>3. CASE cpc' = "flag" /\ UNCHANGED hpc
    BY <2>1, <2>3 DEF Truth, RecordExact, StoreTruthful, Truthful,
                      Checkpointed, CopyWhole
  <2>4. QED
    BY <1>4, <2>2, <2>3 DEF SaveWrite
<1>5. CASE WriteBlock
  <2>1. /\ cpc = "body" /\ cpc' = "count" /\ pack \in Data
        /\ updateFile \in [Position -> Block]
        /\ updateFile' = IF pack.len = 0 \/ store.offset \notin Position
                         THEN updateFile
                         ELSE [updateFile EXCEPT ![store.offset] = pack.block]
        /\ UNCHANGED <<record, store, hpc, copied>>
        /\ store \in Store
    BY <1>5 DEF WriteBlock, TypeOK
  <2>2. pack.len = 1 => pack.block = <<store.mtime, store.offset>>
    BY <2>1 DEF InStep, Agreement, Over, ClientAgrees, PackFits
  <2>3. pack.len \in {0, 1} /\ store.offset \in Nat
    BY <2>1, DataFields, StoreFields
  <2>4. ASSUME NEW s, s.mtime = store.mtime, Truthful(s, updateFile)
        PROVE  Truthful(s, updateFile')
    <3>1. ASSUME NEW p \in Position, p < s.offset
          PROVE  updateFile'[p] = <<s.mtime, p>>
      <4>1. updateFile[p] = <<s.mtime, p>>
        BY <2>4, <3>1 DEF Truthful
      <4>2. \/ updateFile'[p] = updateFile[p]
            \/ p = store.offset /\ pack.len = 1 /\ updateFile'[p] = pack.block
        BY <2>1, <2>3
      <4>3. QED
        BY <2>2, <2>4, <4>1, <4>2
    <3>2. QED
      BY <3>1 DEF Truthful
  <2>5. StoreTruthful'
    BY <2>1, <2>4 DEF Truth, StoreTruthful
  <2>6. Saved => record.mtime = store.mtime /\ Truthful(record, updateFile)
    BY <2>1, RecordIsTruthful DEF Truth, Checkpointed
  <2>7. Saved' => Truthful(record', updateFile')
    BY <2>1, <2>4, <2>6 DEF Saved
  <2>8. RecordExact'
    BY <2>7 DEF RecordExact, Saved, Truthful
  <2>9. Checkpointed' /\ CopyWhole'
    BY <2>1 DEF Truth, Checkpointed, CopyWhole, Saved
  <2>10. QED
    BY <2>5, <2>8, <2>9 DEF Truth
<1>6. CASE CountBlock
  <2>1. /\ cpc = "count" /\ cpc' = "ack" /\ pack \in Data
        /\ store' = [store EXCEPT !.offset = @ + pack.len]
        /\ UNCHANGED <<record, updateFile, hpc, copied>>
        /\ store \in Store
    BY <1>6 DEF InStep, CountBlock, DataLen, TypeOK
  <2>2. pack.len \in {0, 1} /\ store.offset \in Nat
    BY <2>1, DataFields, StoreFields
  <2>3. store'.offset = store.offset + pack.len /\ store'.mtime = store.mtime
    BY <2>1, <2>2, StoreOffsetFields
  <2>4. pack.len = 1 /\ store.offset \in Position =>
            updateFile[store.offset] = <<store.mtime, store.offset>>
    BY <2>1 DEF InStep, Agreement, Over, ClientAgrees, PackFits
  <2>5. ASSUME NEW p \in Position, p < store'.offset
        PROVE  updateFile'[p] = <<store'.mtime, p>>
    <3>1. p < store.offset \/ (p = store.offset /\ pack.len = 1)
      BY <2>2, <2>3, <2>5 DEF Position
    <3>2. CASE p < store.offset
      BY <2>1, <2>3, <3>2 DEF Truth, StoreTruthful, Truthful
    <3>3. CASE p = store.offset /\ pack.len = 1
      BY <2>1, <2>3, <2>4, <3>3
    <3>4. QED
      BY <3>1, <3>2, <3>3
  <2>6. StoreTruthful'
    BY <2>5 DEF StoreTruthful, Truthful
  <2>7. RecordExact' /\ Checkpointed' /\ CopyWhole'
    BY <2>1, <2>3 DEF Truth, RecordExact, Checkpointed, CopyWhole, Saved
  <2>8. QED
    BY <2>6, <2>7 DEF Truth
<1>7. CASE SendAck \/ Unpack \/ Install
  <2>1. /\ cpc \in {"ack", "unpack", "install"}
        /\ cpc' \in {"flag", "unpack", "install", "reset"}
        /\ UNCHANGED <<updateFile, record, store, copied, hpc>>
    BY <1>7 DEF SendAck, Unpack, Install
  <2>2. QED
    BY <2>1, TruthKept
<1>8. CASE ResetOffset
  <2>1. /\ cpc = "reset" /\ cpc' = "saveExit" /\ store \in Store
        /\ store' = [store EXCEPT !.offset = 0]
        /\ UNCHANGED <<record, updateFile, hpc, copied>>
    BY <1>8 DEF ResetOffset, TypeOK
  <2>2. store'.offset = 0 /\ store'.mtime = store.mtime
    BY <2>1, StoreOffsetFields
  <2>3. StoreTruthful'
    BY <2>2 DEF StoreTruthful, Truthful, Position
  <2>4. RecordExact' /\ Checkpointed' /\ CopyWhole'
    BY <2>1, <2>2 DEF Truth, RecordExact, Checkpointed, CopyWhole, Saved
  <2>5. QED
    BY <2>3, <2>4 DEF Truth
<1>9. QED
  BY <1>1, <1>2, <1>3, <1>4, <1>5, <1>6, <1>7, <1>8 DEF UpdateThread

LEMMA TruthNext ==
    ASSUME AtomicCopy, TypeOK, TypeOK', Agreement, Truth, [Next]_vars,
           InStep, ~RecvRest
    PROVE  Truth'
<1>1. ASSUME NEW n \in Names, ClientStart(n) PROVE Truth'
  <2>1. /\ cpc = "off" /\ cpc' = "flag" /\ hpc # "copyRest"
        /\ store' = ReadFileInfo(n)
        /\ UNCHANGED <<record, updateFile, hpc, copied>> /\ record # Empty
    BY <1>1 DEF ClientStart, Truth, CopyWhole
  <2>2. CASE record = Absent
    <3>1. store'.offset = 0
      BY <2>1, <2>2 DEF ReadFileInfo
    <3>2. QED
      BY <2>1, <2>2, <3>1 DEF Truth, RecordExact, StoreTruthful, Truthful,
                              Checkpointed, CopyWhole, Saved, Position
  <2>3. CASE record # Absent
    <3>1. store' = record /\ Saved
      BY <2>1, <2>3 DEF ReadFileInfo, Saved
    <3>2. QED
      BY <2>1, <3>1 DEF Truth, RecordExact, StoreTruthful, Truthful,
                        Checkpointed, CopyWhole, Saved
  <2>4. QED
    BY <2>2, <2>3
<1>2. CASE \/ \E n \in Names : ReplaceFile(n)
           \/ ClientCannotStart \/ UNCHANGED vars
           \/ Server \/ ServerFails \/ ServerKilled
  <2>1. UNCHANGED <<cpc, hpc, store, copied, record, updateFile>>
    BY <1>2 DEF ReplaceFile, ClientCannotStart, vars, Server, AcceptRequest,
                RefuseRequest, SendBlock, RecvAck, RecvNak, ServerFails,
                ServerKilled
  <2>2. QED
    BY <2>1 DEF Truth, RecordExact, StoreTruthful, Truthful, Checkpointed,
                CopyWhole, Saved
<1>3. CASE ~StoreHeld /\ UpdateThread
  <2>1. hpc # "copyRest"
    BY <1>3 DEF StoreHeld
  <2>2. QED
    BY <1>3, <2>1, TruthUpdateThread
<1>4. CASE HeartbeatTimeout
  <2>1. /\ UNCHANGED <<cpc, store, copied, updateFile>> /\ hpc' = "copy"
        /\ record' = record \/ record' = Empty
    BY <1>4 DEF HeartbeatTimeout
  <2>2. QED
    BY <2>1 DEF Truth, RecordExact, StoreTruthful, Truthful, Checkpointed,
                CopyWhole, Saved
<1>5. CASE HeartbeatCopy
  <2>1. /\ UNCHANGED <<cpc, store, record, updateFile>> /\ cpc # "off"
        /\ copied' = store
    BY <1>5 DEF HeartbeatCopy
  <2>2. QED
    BY <2>1 DEF Truth, RecordExact, StoreTruthful, Truthful, Checkpointed,
                CopyWhole, Saved
<1>6. CASE HeartbeatExit
  <2>1. /\ copied = store /\ store \in Store /\ cpc # "off"
        /\ record' = [copied EXCEPT !.mtime = store.mtime]
        /\ ClientGone /\ UNCHANGED updateFile
    BY <1>6 DEF HeartbeatExit, Truth, CopyWhole, TypeOK
  <2>2. record' = store
    BY <2>1 DEF Store
  <2>3. QED
    BY <2>1, <2>2, TruthGone
<1>7. CASE WriteOrSendFails \/ ClientKilled \/ ConnectionLost
  <2>1. /\ ClientGone /\ UNCHANGED updateFile
        /\ record' = record \/ (cpc # "off" /\ record' = store)
    BY <1>7 DEF WriteOrSendFails, ClientKilled, ConnectionLost
  <2>2. QED
    BY <2>1, TruthGone
<1>8. CASE RecvBodyFails
  BY <1>8, TruthKept DEF RecvBodyFails
<1>9. QED
  BY <1>1, <1>2, <1>3, <1>4, <1>5, <1>6, <1>7, <1>8
     DEF Next, HeartbeatThread, Faulty

\* If write() copies store_file_info at once, whatever interrupts an update,
\* file_packet counts only blocks of the version it names: resuming from it
\* (update_process with 'G') never mixes two versions, as long as no recv failed
\* in the middle of a packet whose rest was then taken for a packet.
THEOREM RecordTruthfulHolds == AtomicCopy => (Spec => []RecordTruthful)
<1> SUFFICES ASSUME AtomicCopy PROVE Spec => []RecordTruthful
  OBVIOUS
<1> DEFINE IInv == InStep => Truth
<1>1. TypeOK /\ TypeOK' /\ Agreement /\ IInv /\ [Next]_vars => IInv'
  BY TruthNext, StillInStep
<1>2. IInv => RecordTruthful
  BY DEF Truth, RecordExact, RecordTruthful, InStep
<1>3. Init => IInv
  BY TruthInit
<1> HIDE DEF IInv
<1>4. QED
  BY <1>1, <1>2, <1>3, TypeCorrect, AgreementHolds, PTL DEF Spec

-----------------------------------------------------------------------------
(***************************************************************************)
(* Why only a whole version is installed, for every set of names and       *)
(* versions and for every bound.  The client unpacks after a packet that   *)
(* the server marked as the last; that the copy is complete then follows   *)
(* from the sizes both sides know and from Agreement.  And with that, why  *)
(* the session implements ResumableTransfer.                               *)
(***************************************************************************)

\* The total kept with a version is its size.
Sized(s) == s.mtime \in Versions => s.total = Blocks[s.mtime]

RepliesSized ==
    \A i \in 1 .. Len(toClient) :
        IsReply(toClient[i]) => toClient[i].total = Blocks[toClient[i].mtime]

SizesKnown ==
    /\ Sized(store)
    /\ Saved => Sized(record)
    /\ cpc = "reply" => pack.total = Blocks[pack.mtime]
    /\ spc \in {"read", "ack"} => sess.total = Blocks[sess.ver]
    /\ RepliesSized

---------------------------------------------------------------------------
(* Whoever knows a version knows its size.                                 *)

LEMMA SizesInit == Init => SizesKnown
<1> SUFFICES ASSUME Init PROVE SizesKnown
  OBVIOUS
<1>1. store.mtime = NoVersion
  BY DEF Init
<1>2. QED
  BY <1>1, NoVersionAssumption DEF Init, SizesKnown, Sized, Saved, RepliesSized

LEMMA SizesGone ==
    ASSUME SizesKnown, ClientGone, UNCHANGED store, record' \in {record, store}
    PROVE  SizesKnown'
<1>1. RepliesSized'
  BY DEF ClientGone, RepliesSized
<1>2. QED
  BY <1>1 DEF ClientGone, SizesKnown, Sized, Saved

\* A packet is taken from the stream, or one that is no reply is put there.
LEMMA RepliesTaken ==
    ASSUME TypeOK, RepliesSized, toClient # <<>>, toClient' = Tail(toClient)
    PROVE  RepliesSized'
<1>1. \A i \in 1 .. Len(toClient') :
          toClient'[i] = toClient[i + 1] /\ i + 1 \in 1 .. Len(toClient)
  BY TailAt DEF TypeOK
<1>2. QED
  BY <1>1 DEF RepliesSized, IsReply

LEMMA RepliesAppended ==
    ASSUME TypeOK, RepliesSized, NEW p \in ServerPacket,
           IsReply(p) => p.total = Blocks[p.mtime],
           toClient' = Append(toClient, p)
    PROVE  RepliesSized'
<1>1. /\ Len(toClient) \in Nat
      /\ Len(toClient') = Len(toClient) + 1
      /\ \A i \in 1 .. Len(toClient) : toClient'[i] = toClient[i]
      /\ toClient'[Len(toClient) + 1] = p
  BY AppendAt DEF TypeOK
<1>2. ASSUME NEW i \in 1 .. Len(toClient')
      PROVE  \/ i \in 1 .. Len(toClient) /\ toClient'[i] = toClient[i]
             \/ toClient'[i] = p
  BY <1>1
<1>3. QED
  BY <1>2 DEF RepliesSized, IsReply

LEMMA SizesUpdateThread ==
    ASSUME TypeOK, TypeOK', SizesKnown, UpdateThread, ~RecvRest
    PROVE  SizesKnown'
<1>1. CASE RecvFlag
  <2>1. /\ cpc = "flag" /\ toClient # <<>> /\ toClient' = Tail(toClient)
        /\ UNCHANGED <<record, spc, sess>> /\ store \in Store
        /\ cpc' = "reply" => pack' = Head(toClient) /\ IsReply(pack')
    BY <1>1 DEF RecvFlag, TypeOK, IsReply
  <2>2. PICK n \in {0, store.offset} :
          store' = store \/ store' = [store EXCEPT !.offset = n]
    BY <1>1 DEF RecvFlag, OffsetAfter
  <2>3. Sized(store')
    BY <2>1, <2>2 DEF SizesKnown, Sized, Store
  <2>4. Head(toClient) = toClient[1] /\ 1 \in 1 .. Len(toClient)
    BY <2>1, TailAt DEF TypeOK
  <2>5. RepliesSized'
    BY <2>1, RepliesTaken DEF SizesKnown
  <2>6. cpc' = "reply" => pack'.total = Blocks[pack'.mtime]
    BY <2>1, <2>4 DEF SizesKnown, RepliesSized, IsReply
  <2>7. QED
    BY <2>1, <2>3, <2>5, <2>6 DEF SizesKnown, Sized, Saved
<1>2. CASE RecvReply
  <2>1. /\ cpc = "reply" /\ cpc' = "save" /\ store \in Store
        /\ store' = [store EXCEPT !.name = pack.name, !.total = pack.total,
                                  !.mtime = pack.mtime]
        /\ UNCHANGED <<record, toClient, spc, sess>>
    BY <1>2 DEF RecvReply, TypeOK
  <2>2. store'.total = pack.total /\ store'.mtime = pack.mtime
    BY <2>1 DEF Store
  <2>3. QED
    BY <2>1, <2>2 DEF SizesKnown, Sized, Saved, RepliesSized, IsReply
<1>3. CASE SaveOpen
  BY <1>3 DEF SaveOpen, SizesKnown, Sized, Saved, RepliesSized, IsReply, Saving
<1>4. CASE SaveWrite
  <2>1. CASE ClientGone
    BY <1>4, <2>1, SizesGone DEF SaveWrite
  <2>2. CASE cpc' = "flag" /\ UNCHANGED <<toClient, serverVars>>
    BY <1>4, <2>2 DEF SaveWrite, SizesKnown, Sized, Saved, RepliesSized, IsReply
  <2>3. QED
    BY <1>4, <2>1, <2>2 DEF SaveWrite
<1>5. CASE WriteBlock \/ SendAck \/ Unpack \/ Install
  <2>1. cpc' # "reply" /\ UNCHANGED <<store, record, toClient, spc, sess>>
    BY <1>5 DEF WriteBlock, SendAck, Unpack, Install
  <2>2. QED
    BY <2>1 DEF SizesKnown, Sized, Saved, RepliesSized, IsReply
<1>6. CASE CountBlock \/ ResetOffset
  <2>1. /\ cpc' # "reply" /\ UNCHANGED <<record, toClient, spc, sess>>
        /\ store \in Store
        /\ \/ \E n \in DataLen : store' = [store EXCEPT !.offset = @ + n]
           \/ store' = [store EXCEPT !.offset = 0]
    BY <1>6 DEF CountBlock, ResetOffset, TypeOK
  <2>2. store'.mtime = store.mtime /\ store'.total = store.total
    BY <2>1 DEF Store
  <2>3. QED
    BY <2>1, <2>2 DEF SizesKnown, Sized, Saved, RepliesSized, IsReply
<1>7. QED
  BY <1>1, <1>2, <1>3, <1>4, <1>5, <1>6 DEF UpdateThread

LEMMA SizesServer ==
    ASSUME TypeOK, TypeOK', SizesKnown,
           Server \/ ServerFails \/ ServerKilled
    PROVE  SizesKnown'
<1>1. UNCHANGED <<store, record, cpc, pack>>
  BY DEF Server, AcceptRequest, RefuseRequest, SendBlock, RecvAck, RecvNak,
         ServerFails, ServerKilled
<1>2. SUFFICES /\ RepliesSized'
               /\ spc' \in {"read", "ack"} => sess'.total = Blocks[sess'.ver]
  BY <1>1 DEF SizesKnown, Sized, Saved
<1>3. CASE AcceptRequest
  <2> DEFINE r == Head(toServer)
             v == serverFile[r.name]
             p == [flag |-> IF Resumes(r, v) THEN "G" ELSE "Y",
                   name |-> r.name, total |-> Blocks[v], mtime |-> v]
  <2>1. toClient = <<>> /\ toClient' = <<p>>
    BY <1>3 DEF AcceptRequest, TypeOK
  <2>2. p.total = Blocks[p.mtime] /\ sess'.total = Blocks[sess'.ver]
    BY <1>3 DEF AcceptRequest
  <2> HIDE DEF p
  <2>3. \A i \in 1 .. Len(toClient') : toClient'[i] = p
    BY <2>1
  <2>4. QED
    BY <2>2, <2>3 DEF RepliesSized, IsReply
<1>4. CASE SendBlock
  <2> DEFINE len == ReadLen(sess)
             p == [flag |-> IF sess.offset + len = sess.total THEN "E" ELSE "F",
                   len |-> len,
                   block |-> IF len = 0 THEN NoBlock
                             ELSE <<sess.ver, sess.offset>>,
                   at |-> sess.offset]
  <2>1. /\ sess' = [sess EXCEPT !.data = p]
        /\ toClient' = Append(toClient, p)
        /\ p.flag \in {"F", "E"}
    BY <1>4 DEF SendBlock
  <2> HIDE DEF p
  <2>2. /\ sess \in Session /\ sess' \in Session /\ sess'.data \in Data
        /\ sess.total = Blocks[sess.ver]
    BY <1>4 DEF SendBlock, TypeOK, SizesKnown
  <2>3. sess'.data = p /\ sess'.total = sess.total /\ sess'.ver = sess.ver
    BY <2>1, <2>2 DEF Session
  <2>4. p \in ServerPacket /\ ~IsReply(p)
    BY <2>1, <2>2, <2>3 DEF ServerPacket, IsReply
  <2>5. RepliesSized'
    BY <2>1, <2>4, RepliesAppended DEF SizesKnown
  <2>6. QED
    BY <2>2, <2>3, <2>5
<1>5. CASE RecvAck
  <2>1. UNCHANGED toClient
    BY <1>5 DEF RecvAck
  <2>2. RepliesSized'
    BY <2>1 DEF SizesKnown, RepliesSized, IsReply
  <2>3. ASSUME spc' = "read" PROVE sess'.total = Blocks[sess'.ver]
    <3>1. /\ sess \in Session /\ sess.total = Blocks[sess.ver]
          /\ sess' = [sess EXCEPT !.offset = @ + sess.data.len]
      BY <1>5, <2>3 DEF RecvAck, TypeOK, SizesKnown
    <3>2. QED
      BY <3>1 DEF Session
  <2>4. QED
    BY <1>5, <2>2, <2>3 DEF RecvAck
<1>6. CASE RecvNak
  <2>1. /\ toClient' = Append(toClient, sess.data) /\ sess.data \in Data
        /\ UNCHANGED <<spc, sess>>
    BY <1>6 DEF RecvNak, TypeOK
  <2>2. sess.data \in ServerPacket /\ ~IsReply(sess.data)
    BY <2>1, DataFields DEF ServerPacket, IsReply
  <2>3. RepliesSized'
    BY <2>1, <2>2, RepliesAppended DEF SizesKnown
  <2>4. QED
    BY <2>1, <2>3 DEF SizesKnown
<1>7. CASE RefuseRequest \/ ServerFails
  <2>1. toClient' = Append(toClient, Stop) /\ spc' = "none"
    BY <1>7 DEF RefuseRequest, ServerFails
  <2>2. Stop \in ServerPacket /\ ~IsReply(Stop)
    BY DEF ServerPacket, Stop, IsReply
  <2>3. QED
    BY <2>1, <2>2, RepliesAppended DEF SizesKnown
<1>8. CASE ServerKilled
  BY <1>8 DEF ServerKilled, SizesKnown, RepliesSized, IsReply
<1>9. QED
  BY <1>3, <1>4, <1>5, <1>6, <1>7, <1>8 DEF Server

LEMMA SizesNext ==
    ASSUME AtomicCopy, TypeOK, TypeOK', Truth, SizesKnown, [Next]_vars,
           ~RecvRest
    PROVE  SizesKnown'
<1>1. ASSUME NEW n \in Names, ClientStart(n) PROVE SizesKnown'
  <2>1. /\ toClient' = <<>> /\ cpc' = "flag" /\ spc' = "recv"
        /\ store' = ReadFileInfo(n) /\ record # Empty
        /\ UNCHANGED <<record, sess>>
    BY <1>1 DEF ClientStart
  <2>2. Sized(store')
    <3>1. CASE record = Absent
      BY <2>1, <3>1, NoVersionAssumption DEF ReadFileInfo, Sized
    <3>2. CASE record # Absent
      BY <2>1, <3>2 DEF ReadFileInfo, Sized, Saved, SizesKnown
    <3>3. QED
      BY <3>1, <3>2
  <2>3. RepliesSized'
    BY <2>1 DEF RepliesSized
  <2>4. QED
    BY <2>1, <2>2, <2>3 DEF SizesKnown, Sized, Saved
<1>2. CASE \/ \E n \in Names : ReplaceFile(n)
           \/ ClientCannotStart \/ UNCHANGED vars
           \/ HeartbeatTimeout \/ HeartbeatCopy
  <2>1. /\ UNCHANGED <<cpc, store, pack, toClient, spc, sess>>
        /\ record' = record \/ record' = Empty
    BY <1>2 DEF ReplaceFile, ClientCannotStart, vars, HeartbeatTimeout,
                HeartbeatCopy
  <2>2. QED
    BY <2>1 DEF SizesKnown, Sized, Saved, RepliesSized, IsReply
<1>3. CASE UpdateThread
  BY <1>3, SizesUpdateThread
<1>4. CASE Server \/ ServerFails \/ ServerKilled
  BY <1>4, SizesServer
<1>5. CASE HeartbeatExit
  <2>1. copied = store /\ store \in Store
    BY <1>5 DEF HeartbeatExit, Truth, CopyWhole, TypeOK
  <2>2. record' = store
    BY <1>5, <2>1 DEF HeartbeatExit, Store
  <2>3. QED
    BY <1>5, <2>2, SizesGone DEF HeartbeatExit
<1>6. CASE WriteOrSendFails \/ ClientKilled \/ ConnectionLost
  BY <1>6, SizesGone DEF WriteOrSendFails, ClientKilled, ConnectionLost
<1>7. CASE RecvBodyFails
  <2>1. /\ toClient' = <<Junk>> \o toClient /\ cpc' = "saveNak"
        /\ UNCHANGED <<store, record, spc, sess>>
    BY <1>7 DEF RecvBodyFails
  <2>2. toClient \in Seq(ServerPacket) /\ ~IsReply(Junk)
    BY DEF TypeOK, Junk, IsReply
  <2>3. ASSUME NEW i \in 1 .. Len(toClient')
        PROVE  \/ toClient'[i] = Junk
               \/ i - 1 \in 1 .. Len(toClient) /\ toClient'[i] = toClient[i - 1]
    BY <2>1, <2>2
  <2>4. RepliesSized'
    BY <2>2, <2>3 DEF SizesKnown, RepliesSized, IsReply
  <2>5. QED
    BY <2>1, <2>4 DEF SizesKnown, Sized, Saved
<1>8. QED
  BY <1>1, <1>2, <1>3, <1>4, <1>5, <1>6, <1>7 DEF Next, HeartbeatThread, Faulty

---------------------------------------------------------------------------
(* The last packet completes the copy.                                     *)

\* A packet the server marked as the last ends version v.
EndsVersion(p, v) ==
    p.flag = "E" => v \in Versions /\ p.at + p.len = Blocks[v]

StreamEnds ==
    \A i \in 1 .. Len(toClient) :
        IsData(toClient[i]) => EndsVersion(toClient[i], EffVer)

\* All of the version in progress has been counted.
Complete == store.mtime \in Versions /\ store.offset = Blocks[store.mtime]

PackEnds ==
    /\ cpc \in {"body", "count"} => EndsVersion(pack, store.mtime)
    /\ cpc = "ack" /\ pack.flag = "E" => Complete
    /\ cpc \in {"unpack", "install"} => Complete

LastCompletes == PackEnds /\ (Over \/ StreamEnds)

LEMMA LastInit == Init => LastCompletes
  BY DEF Init, LastCompletes, PackEnds, Over

LEMMA LastGone == ClientGone => LastCompletes'
  BY DEF ClientGone, LastCompletes, PackEnds, Over

\* Nothing the client looks at has changed.
LEMMA LastSeesNothing ==
    ASSUME LastCompletes, UNCHANGED <<astray, cpc, store, pack, updateFile, toClient>>
    PROVE  LastCompletes'
  BY ClientSeesNothing
     DEF LastCompletes, PackEnds, StreamEnds, EndsVersion, Complete, IsData

\* The stream is not read, and what is in it is for the version it was for.
LEMMA StreamEndsKept ==
    ASSUME StreamEnds, UNCHANGED toClient, EffVer' = EffVer
    PROVE  StreamEnds'
  BY DEF StreamEnds, EndsVersion, IsData

LEMMA LastAppended ==
    ASSUME TypeOK, LastCompletes, NEW p \in ServerPacket, ~IsReply(p),
           p.flag # "junk", Over \/ (IsData(p) => EndsVersion(p, EffVer)),
           UNCHANGED <<astray, cpc, store, pack, updateFile>>,
           toClient' = Append(toClient, p)
    PROVE  LastCompletes'
<1>1. (Over' <=> Over) /\ EffVer' = EffVer
  BY ServerAppends
<1>2. PackEnds'
  BY DEF LastCompletes, PackEnds, EndsVersion, Complete
<1>3. /\ Len(toClient) \in Nat
      /\ Len(toClient') = Len(toClient) + 1
      /\ \A i \in 1 .. Len(toClient) : toClient'[i] = toClient[i]
      /\ toClient'[Len(toClient) + 1] = p
  BY AppendAt DEF TypeOK
<1>4. ASSUME NEW i \in 1 .. Len(toClient')
      PROVE  \/ i \in 1 .. Len(toClient) /\ toClient'[i] = toClient[i]
             \/ toClient'[i] = p
  BY <1>3
<1>5. ASSUME ~Over PROVE StreamEnds'
  BY <1>1, <1>4, <1>5 DEF LastCompletes, StreamEnds, EndsVersion, IsData
<1>6. QED
  BY <1>1, <1>2, <1>5 DEF LastCompletes

LEMMA LastServer ==
    ASSUME TypeOK, TypeOK', Agreement, SizesKnown, LastCompletes,
           Server \/ ServerFails \/ ServerKilled
    PROVE  LastCompletes'
<1>1. CASE AcceptRequest
  <2> DEFINE r == Head(toServer)
             v == serverFile[r.name]
             p == [flag |-> IF Resumes(r, v) THEN "G" ELSE "Y",
                   name |-> r.name, total |-> Blocks[v], mtime |-> v]
  <2>1. /\ cpc = "flag" /\ UNCHANGED <<cpc, store, pack>>
        /\ toClient = <<>> /\ toClient' = <<p>>
    BY <1>1 DEF AcceptRequest, TypeOK
  <2>2. ~IsData(p)
    BY DEF IsData
  <2> HIDE DEF p
  <2>3. \A i \in 1 .. Len(toClient') : toClient'[i] = p
    BY <2>1
  <2>4. StreamEnds'
    BY <2>2, <2>3 DEF StreamEnds, IsData
  <2>5. PackEnds'
    BY <2>1 DEF PackEnds
  <2>6. QED
    BY <2>4, <2>5 DEF LastCompletes
<1>2. CASE SendBlock
  <2> DEFINE len == ReadLen(sess)
             p == [flag |-> IF sess.offset + len = sess.total THEN "E" ELSE "F",
                   len |-> len,
                   block |-> IF len = 0 THEN NoBlock
                             ELSE <<sess.ver, sess.offset>>,
                   at |-> sess.offset]
  <2>1. /\ sess' = [sess EXCEPT !.data = p]
        /\ toClient' = Append(toClient, p)
        /\ spc = "read"
        /\ UNCHANGED <<astray, cpc, store, pack, updateFile>>
    BY <1>2 DEF SendBlock
  <2>2. /\ p.flag \in {"F", "E"}
        /\ p.flag = "E" => p.at + p.len = sess.total
    OBVIOUS
  <2> HIDE DEF p
  <2>3. /\ sess \in Session /\ sess' \in Session /\ sess'.data \in Data
        /\ sess.total = Blocks[sess.ver]
    BY <1>2 DEF SendBlock, TypeOK, SizesKnown
  <2>4. sess'.data = p
    BY <2>1, <2>3 DEF Session
  <2>5. p \in ServerPacket /\ ~IsReply(p) /\ p.flag # "junk"
    BY <2>2, <2>3, <2>4 DEF ServerPacket, IsReply
  <2>6. ~Over => EndsVersion(p, EffVer)
    <3>1. ~Over => sess.ver = EffVer
      BY <2>1 DEF Agreement, ServerAgrees
    <3>2. QED
      BY <2>2, <2>3, <3>1, SessionFields DEF EndsVersion
  <2>7. QED
    BY <2>1, <2>5, <2>6, LastAppended
<1>3. CASE RecvAck
  BY <1>3, LastSeesNothing DEF RecvAck
<1>4. CASE RecvNak
  <2>1. /\ toClient' = Append(toClient, sess.data) /\ sess.data \in Data
        /\ UNCHANGED <<astray, cpc, store, pack, updateFile>>
    BY <1>4 DEF RecvNak, TypeOK
  <2>2. /\ sess.data \in ServerPacket /\ ~IsReply(sess.data)
        /\ sess.data.flag # "junk"
    BY <2>1, DataFields DEF ServerPacket, IsReply
  <2>3. QED
    BY <1>4, <2>1, <2>2, NakWhenOver, LastAppended
<1>5. CASE RefuseRequest \/ ServerFails
  <2>1. /\ toClient' = Append(toClient, Stop)
        /\ UNCHANGED <<astray, cpc, store, pack, updateFile>>
    BY <1>5 DEF RefuseRequest, ServerFails
  <2>2. /\ Stop \in ServerPacket /\ ~IsReply(Stop) /\ ~IsData(Stop)
        /\ Stop.flag # "junk"
    BY DEF ServerPacket, Stop, IsReply, IsData
  <2>3. QED
    BY <2>1, <2>2, LastAppended
<1>6. CASE ServerKilled
  BY <1>6, LastSeesNothing DEF ServerKilled
<1>7. QED
  BY <1>1, <1>2, <1>3, <1>4, <1>5, <1>6 DEF Server

LEMMA LastRecvFlag ==
    ASSUME TypeOK, Agreement, LastCompletes, RecvFlag, InStep
    PROVE  LastCompletes'
<1>1. CASE cpc' = "saveExit"
  BY <1>1 DEF LastCompletes, PackEnds, Over
<1>2. CASE cpc' # "saveExit"
  <2>1. /\ cpc = "flag" /\ toClient # <<>> /\ toClient' = Tail(toClient)
        /\ Head(toClient).flag # "junk"
        /\ pack' = Head(toClient)
    BY <1>2 DEF RecvFlag
  <2>2. Head(toClient) = toClient[1]
    BY <2>1, TailAt DEF TypeOK
  <2>3. ~Over
    BY <2>1, <2>2 DEF InStep, Over
  <2>4. ClientAgrees /\ StreamEnds
    BY <2>3 DEF Agreement, LastCompletes
  <2>5. /\ 1 \in 1 .. Len(toClient)
        /\ \A i \in 1 .. Len(toClient') :
               /\ i + 1 \in 1 .. Len(toClient)
               /\ toClient'[i] = toClient[i + 1]
        /\ Len(toClient) \in Nat
    BY <2>1, <2>4, RestOfStream DEF ClientAgrees
  <2>6. CASE cpc' = "reply"
    <3>1. Head(toClient).flag \in {"Y", "G"}
      BY <1>2, <2>6 DEF RecvFlag
    <3>2. ReplyPending /\ ~ReplyPending'
      BY <2>1, <2>2, <2>6, <3>1 DEF ReplyPending, IsReply
    <3>3. EffVer' = EffVer
      BY <2>1, <2>2, <2>6, <3>2 DEF EffVer
    <3>4. StreamEnds'
      BY <2>4, <2>5, <3>3 DEF StreamEnds, EndsVersion, IsData
    <3>5. PackEnds'
      BY <2>6 DEF PackEnds
    <3>6. QED
      BY <3>4, <3>5 DEF LastCompletes
  <2>7. CASE cpc' = "body"
    <3>1. Head(toClient).flag \in {"F", "E"} /\ UNCHANGED store
      BY <1>2, <2>7 DEF RecvFlag
    <3>2. IsData(toClient[1]) /\ ~ReplyPending
      BY <2>2, <3>1 DEF ReplyPending, IsReply, IsData
    <3>3. EffVer = store.mtime
      BY <2>1, <3>2 DEF EffVer
    <3>4. EndsVersion(pack', store'.mtime)
      BY <2>1, <2>2, <2>4, <2>5, <3>1, <3>2, <3>3 DEF StreamEnds, EndsVersion
    <3>5. \A i \in 1 .. Len(toClient') : ~IsData(toClient'[i])
      <4>1. TAKE i \in 1 .. Len(toClient')
      <4>2. /\ i + 1 \in 1 .. Len(toClient) /\ i + 1 # 1
            /\ toClient'[i] = toClient[i + 1]
        BY <2>5
      <4>3. QED
        BY <2>4, <2>5, <3>2, <4>2 DEF OneData, ClientAgrees, IsData
    <3>6. StreamEnds'
      BY <3>5 DEF StreamEnds, IsData
    <3>7. PackEnds'
      BY <2>7, <3>4 DEF PackEnds, EndsVersion
    <3>8. QED
      BY <3>6, <3>7 DEF LastCompletes
  <2>8. QED
    BY <1>2, <2>6, <2>7 DEF RecvFlag
<1>3. QED
  BY <1>1, <1>2

\* A packet in hand is written, counted or acknowledged: no other is on its
\* way then.
LEMMA LastHandled ==
    ASSUME TypeOK, Agreement, LastCompletes, InStep,
           WriteBlock \/ CountBlock \/ SendAck
    PROVE  LastCompletes'
<1>1. cpc \in {"body", "count", "ack"} /\ UNCHANGED <<pack, toClient>>
  BY DEF WriteBlock, CountBlock, SendAck
<1>2. ClientAgrees
  BY <1>1 DEF InStep, Over, Agreement
<1>3. \A i \in 1 .. Len(toClient) : ~IsData(toClient[i])
  BY <1>1, <1>2, StreamQuiet DEF NoData
<1>4. StreamEnds'
  BY <1>1, <1>3 DEF StreamEnds, IsData
<1>5. CASE WriteBlock
  <2>1. PackEnds'
    BY <1>5 DEF WriteBlock, LastCompletes, PackEnds, EndsVersion
  <2>2. QED
    BY <1>4, <2>1 DEF LastCompletes
<1>6. CASE CountBlock
  <2>1. /\ cpc = "count" /\ cpc' = "ack" /\ pack \in Data /\ store \in Store
        /\ store' = [store EXCEPT !.offset = @ + pack.len]
    BY <1>6 DEF InStep, CountBlock, DataLen, TypeOK
  <2>2. store.offset + pack.len \in Nat
    BY <2>1, StoreFields, DataFields
  <2>3. store'.offset = store.offset + pack.len /\ store'.mtime = store.mtime
    BY <2>1, <2>2, StoreOffsetFields
  <2>4. pack.at = store.offset
    BY <1>2, <2>1 DEF ClientAgrees, PackFits
  <2>5. PackEnds'
    BY <1>1, <2>1, <2>3, <2>4 DEF LastCompletes, PackEnds, EndsVersion, Complete
  <2>6. QED
    BY <1>4, <2>5 DEF LastCompletes
<1>7. CASE SendAck
  <2>1. PackEnds'
    BY <1>7 DEF SendAck, LastCompletes, PackEnds, Complete
  <2>2. QED
    BY <1>4, <2>1 DEF LastCompletes
<1>8. QED
  BY <1>5, <1>6, <1>7

LEMMA LastUpdateThread ==
    ASSUME TypeOK, Agreement, LastCompletes, UpdateThread, InStep, ~RecvRest
    PROVE  LastCompletes'
<1>1. CASE RecvFlag
  BY <1>1, LastRecvFlag
<1>2. CASE WriteBlock \/ CountBlock \/ SendAck
  BY <1>2, LastHandled
<1>3. CASE SaveOpen
  BY <1>3, LastSeesNothing DEF SaveOpen
<1>4. CASE Unpack \/ Install \/ ResetOffset
  <2>1. CASE Unpack
    BY <2>1 DEF Unpack, LastCompletes, PackEnds, Complete, Over
  <2>2. CASE Install \/ ResetOffset
    BY <2>2 DEF Install, ResetOffset, LastCompletes, PackEnds, Over
  <2>3. QED
    BY <1>4, <2>1, <2>2
<1>5. CASE RecvReply \/ (SaveWrite /\ cpc = "save")
  <2>1. /\ cpc \in {"reply", "save"} /\ cpc' \in {"save", "flag"}
        /\ UNCHANGED toClient
    BY <1>5 DEF RecvReply, SaveWrite
  <2>2. ~Over
    BY <2>1 DEF InStep, Over
  <2>3. ClientAgrees /\ StreamEnds
    BY <2>2 DEF Agreement, LastCompletes
  <2>4. ~ReplyPending'
    <3>1. \A i \in 1 .. Len(toClient) : ~IsReply(toClient[i])
      BY <2>1, <2>3, StreamQuiet
    <3>2. toClient # <<>> => 1 \in 1 .. Len(toClient)
      <4>1. toClient \in Seq(ServerPacket)
        BY DEF TypeOK
      <4>2. QED
        BY <4>1
    <3>3. QED
      BY <2>1, <3>1, <3>2 DEF ReplyPending, IsReply
  <2>5. EffVer' = EffVer
    <3>1. CASE RecvReply
      <4>1. /\ store \in Store /\ cpc = "reply" /\ cpc' = "save"
            /\ store' = [store EXCEPT !.name = pack.name, !.total = pack.total,
                                      !.mtime = pack.mtime]
        BY <3>1 DEF RecvReply, TypeOK
      <4>2. store'.mtime = pack.mtime
        BY <4>1, StoreReplyFields
      <4>3. QED
        BY <2>4, <4>1, <4>2 DEF EffVer, ReplyPending
    <3>2. CASE SaveWrite /\ cpc = "save"
      BY <2>4, <3>2 DEF SaveWrite, EffVer, ReplyPending
    <3>3. QED
      BY <1>5, <3>1, <3>2
  <2>6. StreamEnds'
    BY <2>1, <2>3, <2>5, StreamEndsKept
  <2>7. PackEnds'
    BY <2>1 DEF PackEnds
  <2>8. QED
    BY <2>6, <2>7 DEF LastCompletes
<1>6. CASE SaveWrite /\ cpc = "saveNak"
  <2>1. cpc' = "flag" /\ UNCHANGED toClient
    BY <1>6 DEF SaveWrite
  <2>2. Over'
    BY <1>6, <2>1 DEF Agreement, JunkFirst, Over
  <2>3. QED
    BY <2>1, <2>2 DEF LastCompletes, PackEnds
<1>7. CASE SaveWrite /\ cpc = "saveExit"
  BY <1>7, LastGone DEF SaveWrite
<1>8. QED
  BY <1>1, <1>2, <1>3, <1>4, <1>5, <1>6, <1>7
     DEF UpdateThread, SaveWrite, Saving

LEMMA LastNext ==
    ASSUME TypeOK, TypeOK', Agreement, SizesKnown, LastCompletes, [Next]_vars,
           InStep, ~RecvRest
    PROVE  LastCompletes'
<1>1. CASE \E n \in Names : ClientStart(n)
  <2>1. cpc' = "flag" /\ toClient' = <<>>
    BY <1>1 DEF ClientStart
  <2>2. QED
    BY <2>1 DEF LastCompletes, PackEnds, StreamEnds
<1>2. CASE \/ \E n \in Names : ReplaceFile(n)
           \/ ClientCannotStart \/ UNCHANGED vars
           \/ HeartbeatTimeout \/ HeartbeatCopy
  BY <1>2, LastSeesNothing
     DEF ReplaceFile, ClientCannotStart, vars, HeartbeatTimeout, HeartbeatCopy
<1>3. CASE UpdateThread
  BY <1>3, LastUpdateThread
<1>4. CASE Server \/ ServerFails \/ ServerKilled
  BY <1>4, LastServer
<1>5. CASE HeartbeatExit \/ WriteOrSendFails \/ ClientKilled \/ ConnectionLost
  BY <1>5, LastGone
     DEF HeartbeatExit, WriteOrSendFails, ClientKilled, ConnectionLost
<1>6. CASE RecvBodyFails
  BY <1>6 DEF RecvBodyFails, LastCompletes, PackEnds, Over
<1>7. QED
  BY <1>1, <1>2, <1>3, <1>4, <1>5, <1>6 DEF Next, HeartbeatThread, Faulty

---------------------------------------------------------------------------
(* What is installed.                                                      *)

\* A complete copy is a copy of the version it is meant to be.
LEMMA CompleteIsCopy ==
    ASSUME TypeOK, Truth, SizesKnown, cpc # "off", Complete
    PROVE  store.mtime \in CopyOf(updateFile, store.total)
<1>1. /\ store.total = Blocks[store.mtime] /\ store.offset = store.total
      /\ store.mtime \in Versions
  BY DEF Complete, SizesKnown, Sized
<1>2. Blocks[store.mtime] \in 1 .. MaxBlocks /\ MaxBlocks \in Nat
  BY <1>1, BlocksAssumption
<1>3. ASSUME NEW p \in 0 .. store.total - 1
      PROVE  updateFile[p] = <<store.mtime, p>>
  <2>1. p \in Position /\ p < store.offset
    BY <1>1, <1>2 DEF Position
  <2>2. QED
    BY <2>1 DEF Truth, StoreTruthful, Truthful
<1>4. QED
  BY <1>1, <1>3 DEF CopyOf

Uncorrupted == installed # "corrupt"

LEMMA InstallNext ==
    ASSUME TypeOK, Truth, SizesKnown, LastCompletes, Uncorrupted, [Next]_vars
    PROVE  Uncorrupted'
<1>1. CASE Install
  <2>1. store.mtime \in CopyOf(updateFile, store.total)
    BY <1>1, CompleteIsCopy DEF Install, LastCompletes, PackEnds
  <2>2. installed' \in CopyOf(updateFile, store.total)
    BY <1>1, <2>1 DEF Install
  <2>3. installed' \in Versions
    BY <2>2 DEF CopyOf
  <2>4. QED
    BY <2>3, OutcomeAssumption DEF Uncorrupted
<1>2. CASE ~Install
  <2>1. installed' = installed \/ installed' = "partial"
    BY <1>2
       DEF Next, UpdateThread, HeartbeatThread, Server, Faulty, ClientStart,
           ReplaceFile, ClientCannotStart, RecvFlag, RecvRest, RecvReply, SaveOpen,
           SaveWrite, WriteBlock, CountBlock, SendAck, Unpack, ResetOffset,
           HeartbeatTimeout, HeartbeatCopy, HeartbeatExit, AcceptRequest,
           RefuseRequest, SendBlock, RecvAck, RecvNak, RecvBodyFails,
           WriteOrSendFails, ServerFails, ClientKilled, ServerKilled,
           ConnectionLost, vars
  <2>2. QED
    BY <2>1 DEF Uncorrupted
<1>3. QED
  BY <1>1, <1>2

\* If write() copies store_file_info at once, unpack_file only ever installs
\* one whole version, although it checks additive sums only: what interrupted
\* the update before, and what replaced the file on the server, does not
\* matter, unless the rest of a packet was taken for a packet.
THEOREM NeverCorruptHolds == AtomicCopy => (Spec => []NeverCorrupt)
<1> SUFFICES ASSUME AtomicCopy PROVE Spec => []NeverCorrupt
  OBVIOUS
<1> DEFINE IInv == InStep => Truth /\ SizesKnown /\ LastCompletes /\ Uncorrupted
<1>1. Init => IInv
  BY TruthInit, SizesInit, LastInit DEF Init, Uncorrupted
<1>2. TypeOK /\ TypeOK' /\ Agreement /\ IInv /\ [Next]_vars => IInv'
  BY TruthNext, SizesNext, LastNext, InstallNext, StillInStep
<1>3. IInv => NeverCorrupt
  BY DEF InStep, Uncorrupted, NeverCorrupt
<1> HIDE DEF IInv
<1>4. QED
  BY <1>1, <1>2, <1>3, TypeCorrect, AgreementHolds, PTL DEF Spec

---------------------------------------------------------------------------
(* The session implements ResumableTransfer, for every set of names and    *)
(* versions and for every bound: whatever happens to client, server and    *)
(* streams is a step of the abstract transfer or none.                     *)

\* A block carries the version it was read from, which has that position.
OfVersion(p) ==
    p \in Data /\ p.len = 1 =>
        p.block[1] \in Versions /\ p.block[2] < Blocks[p.block[1]]

BlocksOfVersions ==
    /\ OfVersion(pack)
    /\ spc = "ack" => OfVersion(sess.data)
    /\ \A i \in 1 .. Len(toClient) : OfVersion(toClient[i])

\* A version in progress has its checkpoint.
Begun == cpc \notin {"off", "save"} /\ store.mtime # NoVersion => Saved

Unpacking == cpc = "install" => installed = "partial"

---------------------------------------------------------------------------
(* Blocks come from versions.                                              *)

LEMMA NotOfData == ~(NoPack \in Data) /\ ~(Junk \in Data) /\ ~(Stop \in Data)
<1>1. ASSUME NEW p \in Data PROVE p # NoPack /\ p # Junk /\ p # Stop
  <2>1. p.flag \in {"F", "E"}
    BY DataFields
  <2>2. QED
    BY <2>1 DEF NoPack, Junk, Stop
<1>2. QED
  BY <1>1

LEMMA ReplyNotData ==
    ASSUME NEW p, p.flag \in {"Y", "G"}
    PROVE  p \notin Data
  BY DataFields

LEMMA OfVersionAppended ==
    ASSUME TypeOK, BlocksOfVersions, NEW p \in ServerPacket, OfVersion(p),
           toClient' = Append(toClient, p)
    PROVE  \A i \in 1 .. Len(toClient') : OfVersion(toClient'[i])
<1>1. /\ Len(toClient) \in Nat
      /\ Len(toClient') = Len(toClient) + 1
      /\ \A i \in 1 .. Len(toClient) : toClient'[i] = toClient[i]
      /\ toClient'[Len(toClient) + 1] = p
  BY AppendAt DEF TypeOK
<1>2. ASSUME NEW i \in 1 .. Len(toClient')
      PROVE  \/ i \in 1 .. Len(toClient) /\ toClient'[i] = toClient[i]
             \/ toClient'[i] = p
  BY <1>1
<1>3. QED
  BY <1>2 DEF BlocksOfVersions

LEMMA BlocksInit == Init => BlocksOfVersions
  BY NotOfData DEF Init, BlocksOfVersions, OfVersion

LEMMA BlocksServer ==
    ASSUME TypeOK, TypeOK', BlocksOfVersions,
           Server \/ ServerFails \/ ServerKilled
    PROVE  BlocksOfVersions'
<1>1. UNCHANGED pack
  BY DEF Server, AcceptRequest, RefuseRequest, SendBlock, RecvAck, RecvNak,
         ServerFails, ServerKilled
<1>2. OfVersion(pack')
  BY <1>1 DEF BlocksOfVersions
<1>3. SUFFICES /\ spc' = "ack" => OfVersion(sess'.data)
               /\ \A i \in 1 .. Len(toClient') : OfVersion(toClient'[i])
  BY <1>2 DEF BlocksOfVersions, OfVersion
<1>4. CASE AcceptRequest
  <2> DEFINE r == Head(toServer)
             v == serverFile[r.name]
             p == [flag |-> IF Resumes(r, v) THEN "G" ELSE "Y",
                   name |-> r.name, total |-> Blocks[v], mtime |-> v]
  <2>1. toClient = <<>> /\ toClient' = <<p>> /\ spc' # "ack"
    BY <1>4 DEF AcceptRequest, TypeOK
  <2>2. p.flag \in {"Y", "G"}
    OBVIOUS
  <2> HIDE DEF p
  <2>3. OfVersion(p)
    BY <2>2, ReplyNotData DEF OfVersion
  <2>4. \A i \in 1 .. Len(toClient') : toClient'[i] = p
    BY <2>1
  <2>5. QED
    BY <2>1, <2>3, <2>4
<1>5. CASE SendBlock
  <2> DEFINE len == ReadLen(sess)
             p == [flag |-> IF sess.offset + len = sess.total THEN "E" ELSE "F",
                   len |-> len,
                   block |-> IF len = 0 THEN NoBlock
                             ELSE <<sess.ver, sess.offset>>,
                   at |-> sess.offset]
  <2>1. /\ sess' = [sess EXCEPT !.data = p]
        /\ toClient' = Append(toClient, p)
        /\ sess \in Session /\ sess' \in Session /\ sess'.data \in Data
    BY <1>5 DEF SendBlock, TypeOK
  <2>2. p.len = 1 => p.block[1] = sess.ver /\ p.block[2] = sess.offset
                     /\ sess.offset < Blocks[sess.ver]
    BY DEF ReadLen
  <2> HIDE DEF p
  <2>3. sess'.data = p
    BY <2>1 DEF Session
  <2>4. OfVersion(p) /\ p \in ServerPacket
    BY <2>1, <2>2, <2>3, SessionFields DEF OfVersion, ServerPacket
  <2>5. QED
    BY <2>1, <2>3, <2>4, OfVersionAppended
<1>6. CASE RecvAck
  BY <1>6 DEF RecvAck, BlocksOfVersions
<1>7. CASE RecvNak
  <2>1. /\ toClient' = Append(toClient, sess.data) /\ sess.data \in Data
        /\ spc = "ack" /\ UNCHANGED <<spc, sess>>
    BY <1>7 DEF RecvNak, TypeOK
  <2>2. OfVersion(sess.data) /\ sess.data \in ServerPacket
    BY <2>1 DEF BlocksOfVersions, ServerPacket
  <2>3. QED
    BY <2>1, <2>2, OfVersionAppended
<1>8. CASE RefuseRequest \/ ServerFails
  <2>1. toClient' = Append(toClient, Stop) /\ spc' = "none"
    BY <1>8 DEF RefuseRequest, ServerFails
  <2>2. OfVersion(Stop) /\ Stop \in ServerPacket
    BY NotOfData DEF OfVersion, ServerPacket
  <2>3. QED
    BY <2>1, <2>2, OfVersionAppended
<1>9. CASE ServerKilled
  BY <1>9 DEF ServerKilled, BlocksOfVersions
<1>10. QED
  BY <1>4, <1>5, <1>6, <1>7, <1>8, <1>9 DEF Server

LEMMA BlocksNext ==
    ASSUME TypeOK, TypeOK', BlocksOfVersions, [Next]_vars, ~RecvRest
    PROVE  BlocksOfVersions'
<1>1. CASE Server \/ ServerFails \/ ServerKilled
  BY <1>1, BlocksServer
<1>2. CASE \E n \in Names : ClientStart(n)
  <2>1. toClient' = <<>> /\ pack' = NoPack /\ spc' = "recv"
    BY <1>2 DEF ClientStart
  <2>2. QED
    BY <2>1, NotOfData DEF BlocksOfVersions, OfVersion
<1>3. CASE ClientGone /\ UNCHANGED pack
  BY <1>3 DEF ClientGone, BlocksOfVersions, OfVersion
<1>4. CASE RecvFlag
  <2>1. /\ toClient # <<>> /\ toClient' = Tail(toClient)
        /\ pack' \in {pack, Head(toClient)} /\ UNCHANGED <<spc, sess>>
    BY <1>4 DEF RecvFlag
  <2>2. /\ Head(toClient) = toClient[1] /\ 1 \in 1 .. Len(toClient)
        /\ \A i \in 1 .. Len(toClient') :
               toClient'[i] = toClient[i + 1] /\ i + 1 \in 1 .. Len(toClient)
    BY <2>1, TailAt DEF TypeOK
  <2>3. OfVersion(pack')
    BY <2>1, <2>2 DEF BlocksOfVersions
  <2>4. \A i \in 1 .. Len(toClient') : OfVersion(toClient'[i])
    BY <2>2 DEF BlocksOfVersions
  <2>5. QED
    BY <2>1, <2>3, <2>4 DEF BlocksOfVersions, OfVersion
<1>5. CASE RecvBodyFails
  <2>1. /\ toClient' = <<Junk>> \o toClient /\ pack' = NoPack
        /\ UNCHANGED <<spc, sess>>
    BY <1>5 DEF RecvBodyFails
  <2>2. toClient \in Seq(ServerPacket)
    BY DEF TypeOK
  <2>3. ASSUME NEW i \in 1 .. Len(toClient')
        PROVE  \/ toClient'[i] = Junk
               \/ i - 1 \in 1 .. Len(toClient) /\ toClient'[i] = toClient[i - 1]
    BY <2>1, <2>2
  <2>4. \A i \in 1 .. Len(toClient') : OfVersion(toClient'[i])
    BY <2>3, NotOfData DEF BlocksOfVersions, OfVersion
  <2>5. QED
    BY <2>1, <2>4, NotOfData DEF BlocksOfVersions, OfVersion
<1>6. CASE UNCHANGED <<pack, toClient, spc, sess>>
  BY <1>6 DEF BlocksOfVersions, OfVersion
<1>7. QED
  BY <1>1, <1>2, <1>3, <1>4, <1>5, <1>6
     DEF Next, UpdateThread, HeartbeatThread, Faulty, ReplaceFile,
         ClientCannotStart, RecvReply, SaveOpen, SaveWrite, WriteBlock,
         CountBlock, SendAck, Unpack, Install, ResetOffset, HeartbeatTimeout,
         HeartbeatCopy, HeartbeatExit, WriteOrSendFails, ClientKilled,
         ConnectionLost, vars

---------------------------------------------------------------------------
(* Checkpoints come first.                                                 *)

LEMMA StoreIsSaved == ASSUME NEW s \in Store PROVE s \notin {Absent, Empty}
<1>1. DOMAIN s = {"name", "total", "offset", "mtime"}
  BY DEF Store
<1>2. DOMAIN Absent = {"file"} /\ DOMAIN Empty = {"file"}
  BY DEF Absent, Empty
<1>3. QED
  BY <1>1, <1>2

LEMMA BegunNext ==
    ASSUME TypeOK, Begun, [Next]_vars, ~RecvRest
    PROVE  Begun'
<1> USE DEF Begun, Saved
<1>1. CASE \E n \in Names : ClientStart(n)
  BY <1>1 DEF ClientStart, ReadFileInfo
<1>2. CASE RecvFlag
  <2>1. cpc = "flag" /\ UNCHANGED record /\ store \in Store
    BY <1>2 DEF RecvFlag, TypeOK
  <2>2. PICK n \in {0, store.offset} :
          store' = store \/ store' = [store EXCEPT !.offset = n]
    BY <1>2 DEF RecvFlag, OffsetAfter
  <2>3. store'.mtime = store.mtime
    BY <2>1, <2>2 DEF Store
  <2>4. QED
    BY <2>1, <2>3
<1>3. CASE RecvReply
  BY <1>3 DEF RecvReply
<1>4. CASE SaveOpen
  BY <1>4 DEF SaveOpen
<1>5. CASE SaveWrite
  BY <1>5, StoreIsSaved DEF SaveWrite, TypeOK
<1>6. CASE CountBlock \/ ResetOffset
  <2>1. /\ cpc \in {"count", "reset"} /\ UNCHANGED record /\ store \in Store
        /\ \/ \E n \in DataLen : store' = [store EXCEPT !.offset = @ + n]
           \/ store' = [store EXCEPT !.offset = 0]
    BY <1>6 DEF CountBlock, ResetOffset, TypeOK
  <2>2. store'.mtime = store.mtime
    BY <2>1 DEF Store
  <2>3. QED
    BY <2>1, <2>2
<1>7. CASE WriteBlock \/ SendAck \/ Unpack \/ Install \/ RecvBodyFails
  <2>1. cpc \notin {"off", "save"} /\ UNCHANGED <<record, store>>
    BY <1>7 DEF WriteBlock, SendAck, Unpack, Install, RecvBodyFails
  <2>2. QED
    BY <2>1
<1>8. CASE ClientGone
  BY <1>8 DEF ClientGone
<1>9. CASE /\ UNCHANGED <<cpc, store>>
           /\ record' = record \/ (record = Absent /\ record' = Empty)
  BY <1>9
<1>10. QED
  BY <1>1, <1>2, <1>3, <1>4, <1>5, <1>6, <1>7, <1>8, <1>9
     DEF Next, UpdateThread, HeartbeatThread, Faulty, Server, ReplaceFile,
         ClientCannotStart, HeartbeatTimeout, HeartbeatCopy, HeartbeatExit,
         AcceptRequest, RefuseRequest, SendBlock, RecvAck, RecvNak,
         ServerFails, ServerKilled, WriteOrSendFails, ClientKilled,
         ConnectionLost, vars

LEMMA UnpackingNext ==
    ASSUME Unpacking, [Next]_vars
    PROVE  Unpacking'
  BY DEF Unpacking, Next, UpdateThread, HeartbeatThread, Faulty, Server,
         ClientStart, ReplaceFile, ClientCannotStart, RecvFlag, RecvRest, RecvReply,
         SaveOpen, SaveWrite, WriteBlock, CountBlock, SendAck, Unpack, Install,
         ResetOffset, HeartbeatTimeout, HeartbeatCopy, HeartbeatExit,
         AcceptRequest, RefuseRequest, SendBlock, RecvAck, RecvNak,
         RecvBodyFails, WriteOrSendFails, ServerFails, ClientKilled,
         ServerKilled, ConnectionLost, ClientGone, vars

---------------------------------------------------------------------------
(* The steps of the session as steps of the transfer.                      *)

\* One packet more in hand: the next block of the version begun, or none.
LEMMA CountIsReceive ==
    ASSUME TypeOK, Truth, Agreement, BlocksOfVersions, Begun, CountBlock,
           pack.len = 1, InStep
    PROVE  Transfer!Receive
<1>1. /\ cpc = "count" /\ cpc' = "ack" /\ UNCHANGED <<record, installed>>
      /\ pack \in Data /\ store \in Store
      /\ store' = [store EXCEPT !.offset = @ + pack.len]
  BY DEF InStep, CountBlock, DataLen, TypeOK
<1>2. /\ store'.offset = store.offset + 1 /\ store'.mtime = store.mtime
      /\ store.offset \in Nat
  BY <1>1, StoreOffsetFields, StoreFields
<1>3. pack.block = <<store.mtime, store.offset>>
  BY <1>1 DEF InStep, Agreement, Over, ClientAgrees, PackFits
<1>4. store.mtime \in Versions /\ store.offset < Blocks[store.mtime]
  BY <1>1, <1>3 DEF BlocksOfVersions, OfVersion
<1>5. Saved /\ record.mtime = store.mtime
  BY <1>1, <1>4, NoVersionAssumption DEF Begun, Truth, Checkpointed
<1>6. /\ savedProgress = Progress(record) /\ savedProgress' = savedProgress
      /\ workingProgress = Progress(store)
      /\ workingProgress' = Progress(store')
  BY <1>1, <1>5 DEF savedProgress, workingProgress, Saved, Progress
<1>7. Progress(store') = [Progress(store) EXCEPT !.count = @ + 1]
  BY <1>2 DEF Progress
<1>8. QED
  BY <1>1, <1>4, <1>5, <1>6, <1>7 DEF Transfer!Receive, Progress

\* The copy is of one version only: a file has a first block.
LEMMA InstallIsEnd ==
    ASSUME TypeOK, Truth, SizesKnown, LastCompletes, Unpacking, Install
    PROVE  Transfer!EndInstall
<1>1. /\ cpc = "install" /\ cpc' = "reset" /\ UNCHANGED <<record, store>>
      /\ installed = "partial" /\ Complete
      /\ installed' \in IF CopyOf(updateFile, store.total) = {} THEN {"corrupt"}
                        ELSE CopyOf(updateFile, store.total)
  BY DEF Install, Unpacking, LastCompletes, PackEnds
<1>2. store.mtime \in CopyOf(updateFile, store.total)
  BY <1>1, CompleteIsCopy
<1>3. store.total \in Nat /\ store.total > 0
  BY <1>1, BlocksAssumption DEF Complete, SizesKnown, Sized
<1>4. 0 \in 0 .. store.total - 1
  BY <1>3
<1>5. \A v \in CopyOf(updateFile, store.total) : updateFile[0] = <<v, 0>>
  BY <1>4 DEF CopyOf
<1>6. installed' = store.mtime
  BY <1>1, <1>2, <1>5
<1>7. /\ savedProgress' = savedProgress
      /\ workingProgress = Progress(store) /\ workingProgress' = workingProgress
  BY <1>1 DEF savedProgress, workingProgress, Progress
<1>8. QED
  BY <1>1, <1>6, <1>7 DEF Transfer!EndInstall, Transfer!Complete, Complete,
                          Progress

\* The client ends: it falls back to what was saved, or saves once more.
LEMMA GoneIsStep ==
    ASSUME TypeOK, cpc # "off", ClientGone, UNCHANGED installed,
           record' \in {record, store}
    PROVE  Transfer!Next
<1>1. workingProgress = Progress(store) /\ workingProgress' = savedProgress'
  BY DEF workingProgress, ClientGone
<1>2. CASE record' = record
  <2>1. savedProgress' = savedProgress
    BY <1>2 DEF savedProgress, Progress
  <2>2. Transfer!Interrupt
    BY <1>1, <2>1 DEF Transfer!Interrupt
  <2>3. QED
    BY <2>2 DEF Transfer!Next
<1>3. CASE record' = store
  <2>1. savedProgress' = Progress(store)
    BY <1>3, StoreIsSaved DEF savedProgress, Progress, TypeOK
  <2>2. Transfer!Save
    BY <1>1, <2>1 DEF Transfer!Save
  <2>3. QED
    BY <2>2 DEF Transfer!Next
<1>4. QED
  BY <1>2, <1>3

\* The update thread goes on without a change of the progress.
LEMMA SameProgress ==
    ASSUME cpc # "off", cpc' # "off", UNCHANGED <<record, installed>>,
           store'.mtime = store.mtime, store'.offset = store.offset
    PROVE  UNCHANGED Transfer!tvars
  BY DEF Transfer!tvars, savedProgress, workingProgress, Progress

\* The update thread starts over, or with a version.
LEMMA StartOver ==
    ASSUME TypeOK', cpc # "off", cpc' # "off", UNCHANGED <<record, installed>>,
           store'.offset = 0
    PROVE  Transfer!Next
<1>1. savedProgress' = savedProgress /\ workingProgress' = Progress(store')
  BY DEF savedProgress, workingProgress, Progress
<1>2. store'.mtime \in Versions \cup {NoVersion}
  BY StoreFields DEF TypeOK, Mtime
<1>3. Transfer!Begin(store'.mtime)
  BY <1>1 DEF Transfer!Begin, Progress
<1>4. QED
  BY <1>2, <1>3 DEF Transfer!Next

Strong ==
    /\ TypeOK /\ Agreement /\ Truth
    /\ SizesKnown /\ LastCompletes /\ BlocksOfVersions /\ Begun /\ Unpacking

LEMMA UpdateThreadRefines ==
    ASSUME Strong, TypeOK', UpdateThread, InStep, ~RecvRest
    PROVE  [Transfer!Next]_(Transfer!tvars)
<1> USE DEF Strong
<1>1. CASE RecvFlag
  <2>1. /\ cpc = "flag" /\ cpc' # "off" /\ UNCHANGED <<record, installed>>
        /\ store \in Store
    BY <1>1 DEF RecvFlag, TypeOK
  <2>2. PICK n \in {0, store.offset} :
          store' = store \/ store' = [store EXCEPT !.offset = n]
    BY <1>1 DEF RecvFlag, OffsetAfter
  <2>3. CASE store'.mtime = store.mtime /\ store'.offset = store.offset
    BY <2>1, <2>3, SameProgress
  <2>4. CASE store'.offset = 0
    BY <2>1, <2>4, StartOver
  <2>5. QED
    <3>1. CASE store' = store
      BY <2>3, <3>1
    <3>2. CASE store' = [store EXCEPT !.offset = n]
      <4>1. n \in Nat
        BY <2>1, <2>2, StoreFields
      <4>2. store'.offset = n /\ store'.mtime = store.mtime
        BY <2>1, <3>2, <4>1, StoreOffsetFields
      <4>3. QED
        BY <2>2, <2>3, <2>4, <4>2
    <3>3. QED
      BY <2>2, <3>1, <3>2
<1>2. CASE RecvReply
  <2>1. /\ cpc = "reply" /\ cpc' = "save" /\ UNCHANGED <<record, installed>>
        /\ store \in Store /\ pack \in Reply
        /\ store' = [store EXCEPT !.name = pack.name, !.total = pack.total,
                                  !.mtime = pack.mtime]
    BY <1>2 DEF RecvReply, TypeOK
  <2>2. store'.offset = store.offset /\ store'.mtime = pack.mtime
    BY <2>1, StoreReplyFields
  <2>3. store.offset = 0 \/ pack.mtime = store.mtime
    <3>1. ~Over
      BY <2>1 DEF InStep, Over
    <3>2. QED
      BY <2>1, <3>1, ReplyFields DEF Agreement, ClientAgrees, GoesOn
  <2>4. QED
    BY <2>1, <2>2, <2>3, SameProgress, StartOver
<1>3. CASE SaveOpen
  <2>1. /\ cpc # "off" /\ UNCHANGED <<cpc, store, installed>>
        /\ record = Absent /\ record' = Empty
    BY <1>3 DEF SaveOpen, Saving
  <2>2. QED
    BY <2>1 DEF Transfer!tvars, savedProgress, workingProgress, Progress
<1>4. CASE SaveWrite
  <2>1. cpc # "off" /\ record' = store /\ UNCHANGED <<store, installed>>
    BY <1>4 DEF SaveWrite, Saving
  <2>2. CASE ClientGone
    BY <2>1, <2>2, GoneIsStep
  <2>3. CASE cpc' = "flag"
    <3>1. savedProgress' = Progress(store)
      BY <2>1, StoreIsSaved DEF savedProgress, Progress, TypeOK
    <3>2. /\ workingProgress = Progress(store)
          /\ workingProgress' = workingProgress
      BY <2>1, <2>3 DEF workingProgress, Progress
    <3>3. Transfer!Save
      BY <2>1, <3>1, <3>2 DEF Transfer!Save
    <3>4. QED
      BY <3>3 DEF Transfer!Next
  <2>4. QED
    BY <1>4, <2>2, <2>3 DEF SaveWrite
<1>5. CASE WriteBlock \/ SendAck \/ (Unpack /\ cpc' = "reset")
  <2>1. cpc # "off" /\ cpc' # "off" /\ UNCHANGED <<record, store, installed>>
    BY <1>5 DEF WriteBlock, SendAck, Unpack
  <2>2. QED
    BY <2>1, SameProgress
<1>6. CASE CountBlock
  <2>1. /\ cpc = "count" /\ cpc' = "ack" /\ UNCHANGED <<record, installed>>
        /\ store \in Store /\ pack \in Data
        /\ store' = [store EXCEPT !.offset = @ + pack.len]
    BY <1>6 DEF InStep, CountBlock, DataLen, TypeOK
  <2>2. CASE pack.len = 1
    BY <1>6, <2>2, CountIsReceive DEF Transfer!Next
  <2>3. CASE pack.len = 0
    <3>1. store.offset \in Nat /\ store.offset + pack.len = store.offset
      BY <2>1, <2>3, StoreFields
    <3>2. store'.offset = store.offset /\ store'.mtime = store.mtime
      BY <2>1, <3>1, StoreOffsetFields
    <3>3. QED
      BY <2>1, <3>2, SameProgress
  <2>4. QED
    BY <2>1, <2>2, <2>3, DataFields
<1>7. CASE Unpack /\ cpc' = "install"
  <2>1. /\ cpc = "unpack" /\ UNCHANGED <<record, store>>
        /\ installed' = "partial" /\ Complete
    BY <1>7 DEF Unpack, LastCompletes, PackEnds
  <2>2. /\ savedProgress' = savedProgress
        /\ workingProgress = Progress(store)
        /\ workingProgress' = workingProgress
    BY <1>7, <2>1 DEF savedProgress, workingProgress, Progress
  <2>3. Transfer!BeginInstall
    BY <2>1, <2>2 DEF Transfer!BeginInstall, Transfer!Complete, Complete,
                      Progress
  <2>4. QED
    BY <2>3 DEF Transfer!Next
<1>8. CASE Install
  BY <1>8, InstallIsEnd DEF Transfer!Next
<1>9. CASE ResetOffset
  <2>1. /\ cpc = "reset" /\ cpc' = "saveExit" /\ UNCHANGED <<record, installed>>
        /\ store \in Store /\ store' = [store EXCEPT !.offset = 0]
    BY <1>9 DEF ResetOffset, TypeOK
  <2>2. store'.offset = 0
    BY <2>1, StoreOffsetFields
  <2>3. QED
    BY <2>1, <2>2, StartOver
<1>10. QED
  BY <1>1, <1>2, <1>3, <1>4, <1>5, <1>6, <1>7, <1>8, <1>9
     DEF UpdateThread, Unpack

LEMMA StepRefines ==
    ASSUME AtomicCopy, Strong, TypeOK', [Next]_vars, InStep, ~RecvRest
    PROVE  [Transfer!Next]_(Transfer!tvars)
<1>1. CASE \E n \in Names : ClientStart(n)
  <2>1. PICK n \in Names : ClientStart(n)
    BY <1>1
  <2>2. /\ cpc = "off" /\ cpc' = "flag" /\ record # Empty
        /\ UNCHANGED <<record, installed>> /\ store' = ReadFileInfo(n)
    BY <2>1 DEF ClientStart
  <2>3. Progress(store') = savedProgress
    BY <2>2 DEF ReadFileInfo, savedProgress, Progress
  <2>4. QED
    BY <2>2, <2>3 DEF Transfer!tvars, savedProgress, workingProgress, Progress
<1>2. CASE UpdateThread
  BY <1>2, UpdateThreadRefines DEF Strong
<1>3. CASE HeartbeatExit
  <2>1. copied = store /\ store \in Store
    BY <1>3 DEF HeartbeatExit, Strong, Truth, CopyWhole, TypeOK
  <2>2. record' = store
    BY <1>3, <2>1 DEF HeartbeatExit, Store
  <2>3. QED
    BY <1>3, <2>2, GoneIsStep DEF HeartbeatExit, Strong
<1>4. CASE WriteOrSendFails \/ ClientKilled \/ ConnectionLost
  BY <1>4, GoneIsStep
     DEF WriteOrSendFails, ClientKilled, ConnectionLost, Strong
<1>5. CASE RecvBodyFails
  BY <1>5, SameProgress DEF RecvBodyFails
<1>6. CASE \/ Server \/ ServerFails \/ ServerKilled
           \/ \E n \in Names : ReplaceFile(n)
           \/ ClientCannotStart \/ UNCHANGED vars
           \/ HeartbeatTimeout \/ HeartbeatCopy
  <2>1. /\ UNCHANGED <<cpc, store, installed>>
        /\ record' = record \/ (record = Absent /\ record' = Empty)
    BY <1>6 DEF Server, AcceptRequest, RefuseRequest, SendBlock, RecvAck,
                RecvNak, ServerFails, ServerKilled, ReplaceFile,
                ClientCannotStart, vars, HeartbeatTimeout, HeartbeatCopy
  <2>2. QED
    BY <2>1 DEF Transfer!tvars, savedProgress, workingProgress, Progress
<1>7. QED
  BY <1>1, <1>2, <1>3, <1>4, <1>5, <1>6 DEF Next, HeartbeatThread, Faulty

LEMMA StrongInit == Init => Strong
<1>1. Init => Begun /\ Unpacking
  BY DEF Init, Begun, Unpacking
<1>2. QED
  BY <1>1, TypeInit, AgreementInit, TruthInit, SizesInit, LastInit, BlocksInit
     DEF Strong

LEMMA StrongNext ==
    ASSUME AtomicCopy, Strong, [Next]_vars, InStep, ~RecvRest
    PROVE  Strong'
  BY TypeNext, AgreementNext, TruthNext, SizesNext, LastNext, BlocksNext,
     BegunNext, UnpackingNext DEF Strong

\* If write() copies store_file_info at once, client, server and streams
\* together implement the resumable transfer: a version is checkpointed before
\* its first block is counted, an interruption falls back to the checkpoint,
\* and only a complete version is installed (update_process, unpack_file), as
\* long as the rest of a packet is not taken for a packet.
THEOREM ImplementsTransfer == AtomicCopy => (Spec => TransferSpec)
<1> SUFFICES ASSUME AtomicCopy PROVE Spec => TransferSpec
  OBVIOUS
<1> DEFINE IInv == InStep => Strong
           Follows == [astray' = "never" => Transfer!Next]_(Transfer!tvars)
<1>1. Init => Transfer!Init
  BY DEF Init, Transfer!Init, Transfer!Nothing, savedProgress, workingProgress
<1>2. Init => IInv
  BY StrongInit
<1>3. IInv /\ [Next]_vars => IInv'
  BY StrongNext, StillInStep
<1>4. IInv /\ IInv' /\ [Next]_vars => Follows
  <2>1. ASSUME IInv, IInv', [Next]_vars, InStep'
        PROVE  [Transfer!Next]_(Transfer!tvars)
    BY <2>1, StepRefines, StillInStep DEF Strong
  <2>2. QED
    BY <2>1 DEF InStep
<1> HIDE DEF IInv
<1>5. QED
  BY <1>1, <1>2, <1>3, <1>4, PTL DEF Spec, TransferSpec
=============================================================================
