--------------------------- MODULE UpdateSession ---------------------------
(***************************************************************************)
(* One firmware updater (client_tool) and the session the update server    *)
(* (server_tool) keeps for it: the request, the stop-and-wait transfer of  *)
(* the file, the record the client saves to resume an interrupted update   *)
(* (the file "file_packet"), and the copy it writes ("update_file").       *)
(*                                                                         *)
(* The client is two threads over one global store_file_info: the update   *)
(* thread, and the heart_beat_thread, which saves the record and exits the *)
(* whole process when no heartbeat arrived in time.  When it does so is    *)
(* left open here: the clocks are not modelled.                            *)
(*                                                                         *)
(* Data is abstracted to what resuming depends on.  A version of a file is *)
(* identified with its st_mtime; a file is its number of BUFFER_SIZE       *)
(* blocks; a block of the copy is the pair <<version, position in it>>.    *)
(***************************************************************************)
EXTENDS Naturals, Sequences

CONSTANTS
    Names,        \* names of files on the server
    Versions,     \* contents a file may have, identified with st_mtime
    NoVersion,    \* mtime 0, and a file that does not exist
    Blocks,       \* Blocks[v]: blocks of version v
    MaxBlocks,    \* bound on the size of a file
    MaxFaults,    \* bound on kills, resets, I/O failures and early timeouts
    Garbage,      \* <<name, size, mtime>> as read where there are none
    MaxReplace,   \* bound on the number of times a file is replaced
    AtomicCopy    \* FALSE: store_file_info may change while write() copies it

ASSUME BlocksAssumption ==
    /\ MaxBlocks \in Nat
    /\ Blocks \in [Versions -> 1 .. MaxBlocks]
ASSUME NoVersionAssumption == NoVersion \notin Versions
ASSUME GarbageAssumption ==
    Garbage \subseteq Names \X Nat \X (Versions \cup {NoVersion})
ASSUME OutcomeAssumption == Versions \cap {"nothing", "partial", "corrupt"} = {}
ASSUME BoundsAssumption ==
    /\ MaxFaults \in Nat
    /\ MaxReplace \in Nat
    /\ AtomicCopy \in BOOLEAN

VARIABLES
    serverFile,   \* the files in the server's directory
    record,       \* "file_packet": Absent, Empty, or a saved Store
    updateFile,   \* "update_file", written in place and never truncated
    installed,    \* what unpack_file left installed
    store,        \* store_file_info, shared by the client's threads
    cpc,          \* control of the client's update thread
    hpc,          \* control of the client's heart_beat_thread
    copied,       \* what write() of the heartbeat thread has copied so far
    pack,         \* the packet the update thread is handling
    toServer,     \* the TCP stream to the server
    toClient,     \* the TCP stream to the client
    spc,          \* control of handle_tcp_connection
    sess,         \* its locals
    astray,       \* history: the client has taken the rest of a packet for a
                  \* packet, "now" in this connection or "before"
    faults,       \* faults so far
    replaced      \* replacements so far

clientVars == <<store, cpc, hpc, copied, pack>>
diskVars   == <<record, updateFile, installed>>
serverVars == <<spc, sess>>
envVars    == <<faults, replaced>>
vars == <<serverFile, record, updateFile, installed, store, cpc, hpc, copied,
          pack, toServer, toClient, spc, sess, astray, faults, replaced>>

Position == 0 .. MaxBlocks - 1
NoBlock  == <<NoVersion, 0>>
Block    == (Versions \X Position) \cup {NoBlock}
Mtime    == Versions \cup {NoVersion}

\* store_file: what is saved to resume an update.
Store == [name : Names, total : Nat, offset : Nat, mtime : Mtime]

\* No record yet, and one that was created but not written.
Absent == [file |-> "absent"]
Empty  == [file |-> "empty"]

\* The packets of the server; Junk is the unread rest of one of them.
Reply   == [flag : {"Y", "G"}, name : Names, total : Nat, mtime : Mtime]
Data    == [flag : {"F", "E"}, len : {0, 1}, block : Block, at : Nat]
Stop    == [flag |-> "N"]
Junk    == [flag |-> "junk"]
Request == [flag : {"U"}, resume : {"G", "T"}, offset : Nat, mtime : Mtime,
            name : Names]
Ack     == [flag : {"ackY", "ackN"}]

ClientPacket == Request \cup Ack
ServerPacket == Reply \cup Data \cup {Stop, Junk}

NoPack    == [flag |-> "none"]
Session   == [name : Names, ver : Versions, offset : Nat, total : Nat,
              data : Data \cup {NoPack}]
NoSession == [ver |-> NoVersion]

\* Where the update thread calls write_file_info, and where it goes next.
Saving == {"save", "saveNak", "saveExit"}

TypeOK ==
    /\ serverFile \in [Names -> Mtime]
    /\ record \in Store \cup {Absent, Empty}
    /\ updateFile \in [Position -> Block]
    /\ installed \in Versions \cup {"nothing", "partial", "corrupt"}
    /\ store \in Store
    /\ cpc \in {"off", "flag", "reply", "body", "count", "ack", "unpack",
                "install", "reset"} \cup Saving
    /\ hpc \in {"watch", "copy", "copyRest"}
    /\ copied \in Store
    /\ pack \in Reply \cup Data \cup {NoPack}
    /\ toServer \in Seq(ClientPacket)
    /\ toClient \in Seq(ServerPacket)
    /\ spc \in {"none", "recv", "read", "ack"}
    /\ sess \in Session \cup {NoSession}
    /\ astray \in {"never", "now", "before"}
    /\ faults \in 0 .. MaxFaults
    /\ replaced \in 0 .. MaxReplace
    /\ cpc = "reply" => pack \in Reply
    /\ cpc \in {"body", "count", "ack"} => pack \in Data
    /\ spc = "recv" => /\ cpc = "flag"
                       /\ toClient = <<>>
                       /\ toServer \in Seq(Request)
    /\ spc \in {"read", "ack"} => sess \in Session
    /\ spc = "ack" => sess.data \in Data

---------------------------------------------------------------------------
Init ==
    /\ serverFile \in [Names -> Mtime]
    /\ record = Absent
    /\ updateFile = [p \in Position |-> NoBlock]
    /\ installed = "nothing"
    /\ \E n \in Names : store = [name |-> n, total |-> 0, offset |-> 0, mtime |-> NoVersion]
    /\ cpc = "off"
    /\ hpc = "watch"
    /\ copied = store
    /\ pack = NoPack
    /\ toServer = <<>>
    /\ toClient = <<>>
    /\ spc = "none"
    /\ sess = NoSession
    /\ astray = "never"
    /\ faults = 0
    /\ replaced = 0

Fault == faults < MaxFaults /\ faults' = faults + 1

\* The client's process is gone and so is its connection.  What becomes of
\* the thread that served it is UpdateServer's matter.
ClientGone ==
    /\ cpc' = "off"
    /\ hpc' = "watch"
    /\ toServer' = <<>>
    /\ toClient' = <<>>
    /\ spc' = "none"
    /\ sess' = NoSession
    /\ astray' = IF astray = "never" THEN "never" ELSE "before"

---------------------------------------------------------------------------
(* The client's update thread.                                             *)

\* read_file_info: the saved record wins over the name on the command line.
ReadFileInfo(n) ==
    IF record = Absent
      THEN [name |-> n, total |-> 0, offset |-> 0, mtime |-> NoVersion]
      ELSE record

\* update_process sends its request; the server's thread is started by it.
ClientStart(n) ==
    /\ cpc = "off"
    /\ record # Empty
    /\ store' = ReadFileInfo(n)
    /\ toServer' = <<[flag   |-> "U",
                      resume |-> IF store'.offset = 0 THEN "T" ELSE "G",
                      offset |-> store'.offset,
                      mtime  |-> store'.mtime,
                      name   |-> store'.name]>>
    /\ toClient' = <<>>
    /\ pack' = NoPack
    /\ cpc' = "flag"
    /\ spc' = "recv"
    /\ UNCHANGED <<astray, serverFile, diskVars, hpc, copied, sess, envVars>>

\* An empty record cannot be read: exit(1), this time and every time.
ClientCannotStart ==
    /\ cpc = "off"
    /\ record = Empty
    /\ UNCHANGED vars

\* 'Y' starts the transfer over; a slip would leave out the reset.
OffsetAfterKept(flag) == store.offset
OffsetAfter(flag) == IF flag = "Y" THEN 0 ELSE store.offset

\* The first byte of a packet: its flag selects the branch of the switch.
RecvFlag ==
    /\ cpc = "flag"
    /\ toClient # <<>>
    /\ toClient' = Tail(toClient)
    /\ LET p == Head(toClient) IN
         \/ /\ p.flag \in {"Y", "G"}
            /\ store' = [store EXCEPT !.offset = OffsetAfter(p.flag)]
            /\ pack' = p
            /\ cpc' = "reply"
         \/ /\ p.flag \in {"F", "E"}
            /\ pack' = p
            /\ cpc' = "body"
            /\ UNCHANGED store
         \/ /\ p.flag \in {"N", "junk"}
            /\ cpc' = "saveExit"
            /\ UNCHANGED <<store, pack>>
    /\ UNCHANGED <<astray, serverFile, diskVars, hpc, copied, toServer,
                   serverVars, envVars>>

\* After a recv that failed the next byte is one of the rest of the packet, and
\* any flag.  What is read for the packet is the rest and, of data always, of
\* what follows it; what it says is whatever lies there.
GarbledReply(flag) ==
    {[flag |-> flag, name |-> x[1], total |-> x[2], mtime |-> x[3]] : x \in Garbage}
GarbledData == [flag : {"F", "E"}, len : {0, 1}, block : {NoBlock}, at : {0}]

Unread(k) == {SubSeq(toClient, k + 2, Len(toClient)),
              <<Junk>> \o SubSeq(toClient, k + 2, Len(toClient))}

RecvRest ==
    /\ cpc = "flag"
    /\ toClient # <<>>
    /\ Head(toClient) = Junk
    /\ \E k \in {0, 1} : k < Len(toClient) /\ toClient' \in Unread(k)
    /\ \/ UNCHANGED <<store, cpc, pack>>                          \* 'H'
       \/ \E flag \in {"Y", "G"} :
             /\ pack' \in GarbledReply(flag)
             /\ store' = [store EXCEPT !.offset = OffsetAfter(flag)]
             /\ cpc' = "reply"
       \/ /\ Len(toClient) > 1 /\ toClient' \in Unread(1)
          /\ pack' \in GarbledData
          /\ cpc' = "body"
          /\ UNCHANGED store
    /\ astray' = "now"
    /\ UNCHANGED <<serverFile, diskVars, hpc, copied, toServer,
                   serverVars, envVars>>

\* The rest of a 'Y' or 'G' reply names the file that will follow.
RecvReply ==
    /\ cpc = "reply"
    /\ store' = [store EXCEPT !.name = pack.name, !.total = pack.total,
                              !.mtime = pack.mtime]
    /\ cpc' = "save"
    /\ UNCHANGED <<astray, serverFile, diskVars, hpc, copied, pack, toServer,
                   toClient, serverVars, envVars>>

\* write_file_info, first half: open(O_CREAT) leaves an empty record.
SaveOpen ==
    /\ cpc \in Saving
    /\ record = Absent
    /\ record' = Empty
    /\ UNCHANGED <<astray, serverFile, updateFile, installed, clientVars, toServer,
                   toClient, serverVars, envVars>>

\* write_file_info, second half, then back to the loop or exit(1).
SaveWrite ==
    /\ cpc \in Saving
    /\ record # Absent
    /\ record' = store
    /\ \/ /\ cpc # "saveExit"
          /\ cpc' = "flag"
          /\ UNCHANGED <<hpc, toServer, toClient, serverVars, astray>>
       \/ /\ cpc = "saveExit"
          /\ ClientGone
    /\ UNCHANGED <<serverFile, updateFile, installed, store, copied, pack,
                   envVars>>

\* recv_file_pack: the packet's data is written at the client's own offset.
WriteBlock ==
    /\ cpc = "body"
    /\ updateFile' = IF pack.len = 0 \/ store.offset \notin Position THEN updateFile
                     ELSE [updateFile EXCEPT ![store.offset] = pack.block]
    /\ cpc' = "count"
    /\ UNCHANGED <<astray, serverFile, record, installed, store, hpc, copied, pack,
                   toServer, toClient, serverVars, envVars>>

\* What the rest of a packet says it carries is any number.
DataLen == IF astray = "now" THEN {pack.len} \cup {x[2] : x \in Garbage}
           ELSE {pack.len}

CountBlock ==
    /\ cpc = "count"
    /\ \E n \in DataLen : store' = [store EXCEPT !.offset = @ + n]
    /\ cpc' = "ack"
    /\ UNCHANGED <<astray, serverFile, diskVars, hpc, copied, pack, toServer,
                   toClient, serverVars, envVars>>

\* The reply 'Y'; after the last packet the copy is unpacked.
SendAck ==
    /\ cpc = "ack"
    /\ toServer' = IF spc = "none" THEN toServer
                   ELSE Append(toServer, [flag |-> "ackY"])
    /\ cpc' = IF pack.flag = "E" THEN "unpack" ELSE "flag"
    /\ UNCHANGED <<astray, serverFile, diskVars, store, hpc, copied, pack,
                   toClient, serverVars, envVars>>

\* The versions the first total blocks of the copy are a faithful copy of.
CopyOf(file, total) ==
    {v \in Versions : /\ Blocks[v] = total
                      /\ \A p \in 0 .. total - 1 : file[p] = <<v, p>>}

\* unpack_file checks the sums, then overwrites the files one by one.  The
\* sums are additive: a copy that is no version is refused, or is not.
Unpack ==
    /\ cpc = "unpack"
    /\ \/ /\ installed' = "partial"
          /\ cpc' = "install"
       \/ /\ CopyOf(updateFile, store.total) = {}
          /\ cpc' = "reset"
          /\ UNCHANGED installed
    /\ UNCHANGED <<astray, serverFile, record, updateFile, store, hpc, copied, pack,
                   toServer, toClient, serverVars, envVars>>

Install ==
    /\ cpc = "install"
    /\ installed' \in IF CopyOf(updateFile, store.total) = {} THEN {"corrupt"}
                      ELSE CopyOf(updateFile, store.total)
    /\ cpc' = "reset"
    /\ UNCHANGED <<astray, serverFile, record, updateFile, store, hpc, copied, pack,
                   toServer, toClient, serverVars, envVars>>

\* A finished update starts over the next time.
ResetOffset ==
    /\ cpc = "reset"
    /\ store' = [store EXCEPT !.offset = 0]
    /\ cpc' = "saveExit"
    /\ UNCHANGED <<astray, serverFile, diskVars, hpc, copied, pack, toServer,
                   toClient, serverVars, envVars>>

\* recv_data fails after the flag was read: 'N' is sent, the offset is saved,
\* and the unread rest of the packet is what the next recv returns.
RecvBodyFails ==
    /\ cpc = "body"
    /\ spc # "none"
    /\ Fault
    /\ toServer' = Append(toServer, [flag |-> "ackN"])
    /\ toClient' = <<Junk>> \o toClient
    /\ pack' = NoPack
    /\ cpc' = "saveNak"
    /\ UNCHANGED <<astray, serverFile, diskVars, store, hpc, copied, serverVars,
                   replaced>>

\* write() of the block or send() of the reply fails: save and exit(1).
WriteOrSendFails ==
    /\ cpc \in {"body", "ack"}
    /\ Fault
    /\ record' = store
    /\ ClientGone
    /\ UNCHANGED <<serverFile, updateFile, installed, store, copied, pack,
                   replaced>>

\* The server is gone.  A recv that fails is exit(1) without a save, and a
\* send that fails is SIGPIPE, which the client does not ignore.
ConnectionLost ==
    /\ spc = "none"
    /\ cpc \in {"flag", "reply", "body", "ack"}
    /\ ClientGone
    /\ UNCHANGED <<serverFile, diskVars, store, copied, pack, envVars>>

---------------------------------------------------------------------------
(* The client's heart_beat_thread.                                         *)

\* Nothing is left to receive and nothing will come: the wait is a timeout.
\* (A client without its heartbeat thread would never know.)
NeverSilent == FALSE
Silent == spc = "none" /\ cpc = "flag" /\ toClient = <<>>

\* More than 10 seconds without a heartbeat: open(O_CREAT) of the record.
HeartbeatTimeout ==
    /\ cpc # "off"
    /\ hpc = "watch"
    /\ \/ Silent /\ UNCHANGED faults
       \/ ~Silent /\ Fault
    /\ hpc' = "copy"
    /\ record' = IF record = Absent THEN Empty ELSE record
    /\ UNCHANGED <<astray, serverFile, updateFile, installed, store, cpc, copied, pack,
                   toServer, toClient, serverVars, replaced>>

\* write() copies store_file_info in the order of its fields while the update
\* thread may be changing it: mtime is the last of them.
HeartbeatCopy ==
    /\ cpc # "off"
    /\ hpc = "copy"
    /\ copied' = store
    /\ hpc' = "copyRest"
    /\ UNCHANGED <<astray, serverFile, diskVars, store, cpc, pack, toServer,
                   toClient, serverVars, envVars>>

HeartbeatExit ==
    /\ cpc # "off"
    /\ hpc = "copyRest"
    /\ record' = [copied EXCEPT !.mtime = store.mtime]
    /\ ClientGone
    /\ UNCHANGED <<serverFile, updateFile, installed, store, copied, pack,
                   envVars>>

\* If write() copies the whole of it at once, nothing happens in between.
StoreHeld == AtomicCopy /\ hpc = "copyRest"

---------------------------------------------------------------------------
(* The server's thread for this client.                                    *)

\* Resumed only if asked for, and if the file is the version begun with.
ResumesAnyVersion(r, v) == r.resume = "G"
Resumes(r, v) == r.resume = "G" /\ v = r.mtime

StartOffsetIgnored(r, v) == 0
StartOffset(r, v) == IF Resumes(r, v) THEN r.offset ELSE 0

\* The file can be served: resume it if it is the version the client began
\* with, else send it from its start.
AcceptRequest ==
    /\ spc = "recv"
    /\ toServer # <<>>
    /\ toServer' = Tail(toServer)
    /\ LET r == Head(toServer)
           v == serverFile[r.name]
       IN /\ v # NoVersion
          /\ sess' = [name |-> r.name, ver |-> v,
                      offset |-> StartOffset(r, v),
                      total |-> Blocks[v], data |-> NoPack]
          /\ toClient' = Append(toClient,
                 [flag |-> IF Resumes(r, v) THEN "G" ELSE "Y", name |-> r.name,
                  total |-> Blocks[v], mtime |-> v])
    /\ spc' = "read"
    /\ UNCHANGED <<astray, serverFile, diskVars, clientVars, envVars>>

\* No such file: stop_update, and the connection is closed.
RefuseRequest ==
    /\ spc = "recv"
    /\ toServer # <<>>
    /\ serverFile[Head(toServer).name] = NoVersion
    /\ toServer' = <<>>
    /\ toClient' = Append(toClient, Stop)
    /\ spc' = "none"
    /\ UNCHANGED <<astray, serverFile, diskVars, clientVars, sess, envVars>>

\* What read returns at the server's offset: a block, or nothing at the end.
ReadPastEnd(s) == 1
ReadLen(s) == IF s.offset < Blocks[s.ver] THEN 1 ELSE 0

\* lseek to the server's own offset, read a block, send it.
SendBlock ==
    /\ spc = "read"
    /\ LET len == ReadLen(sess)
           p   == [flag  |-> IF sess.offset + len = sess.total THEN "E" ELSE "F",
                   len   |-> len,
                   block |-> IF len = 0 THEN NoBlock
                             ELSE <<sess.ver, sess.offset>>,
                   at    |-> sess.offset]
       IN /\ sess' = [sess EXCEPT !.data = p]
          /\ toClient' = Append(toClient, p)
    /\ spc' = "ack"
    /\ UNCHANGED <<astray, serverFile, diskVars, clientVars, toServer, envVars>>

\* 'Y': count the block; after the last packet the session is over.
RecvAck ==
    /\ spc = "ack"
    /\ toServer # <<>>
    /\ Head(toServer).flag = "ackY"
    /\ toServer' = Tail(toServer)
    /\ \/ /\ sess.data.flag = "F"
          /\ sess' = [sess EXCEPT !.offset = @ + sess.data.len]
          /\ spc' = "read"
       \/ /\ sess.data.flag = "E"
          /\ sess' = NoSession
          /\ spc' = "none"
    /\ UNCHANGED <<astray, serverFile, diskVars, clientVars, toClient, envVars>>

\* 'N': send the same packet again.
RecvNak ==
    /\ spc = "ack"
    /\ toServer # <<>>
    /\ Head(toServer).flag = "ackN"
    /\ toServer' = Tail(toServer)
    /\ toClient' = Append(toClient, sess.data)
    /\ UNCHANGED <<astray, serverFile, diskVars, clientVars, serverVars, envVars>>

\* A read or a send of the server fails: stop_update and close.
ServerFails ==
    /\ spc \in {"read", "ack"}
    /\ Fault
    /\ toClient' = Append(toClient, Stop)
    /\ toServer' = <<>>
    /\ spc' = "none"
    /\ sess' = NoSession
    /\ UNCHANGED <<astray, serverFile, diskVars, clientVars, replaced>>

---------------------------------------------------------------------------
(* The environment.                                                        *)

\* The client is killed: nothing is saved.
ClientKilled ==
    /\ cpc # "off"
    /\ Fault
    /\ ClientGone
    /\ UNCHANGED <<serverFile, diskVars, store, copied, pack, replaced>>

\* The server dies; what it sent can still be read, then recv returns 0.
ServerKilled ==
    /\ spc # "none"
    /\ Fault
    /\ spc' = "none"
    /\ sess' = NoSession
    /\ toServer' = <<>>
    /\ UNCHANGED <<astray, serverFile, diskVars, clientVars, toClient, replaced>>

\* A file is replaced by renaming another over it, or removed: a session
\* that has it open goes on with what it opened.
ReplaceFile(n) ==
    /\ replaced < MaxReplace
    /\ replaced' = replaced + 1
    /\ \E v \in Mtime \ {serverFile[n]} :
         serverFile' = [serverFile EXCEPT ![n] = v]
    /\ UNCHANGED <<astray, diskVars, clientVars, toServer, toClient, serverVars,
                   faults>>

---------------------------------------------------------------------------
UpdateThread ==
    \/ RecvFlag \/ RecvRest \/ RecvReply \/ SaveOpen \/ SaveWrite \/ WriteBlock
    \/ CountBlock \/ SendAck \/ Unpack \/ Install \/ ResetOffset

HeartbeatThread == HeartbeatTimeout \/ HeartbeatCopy \/ HeartbeatExit

Server == AcceptRequest \/ RefuseRequest \/ SendBlock \/ RecvAck \/ RecvNak

Faulty == RecvBodyFails \/ WriteOrSendFails \/ ServerFails \/ ClientKilled
          \/ ServerKilled \/ ConnectionLost

Next ==
    \/ \E n \in Names : ClientStart(n) \/ ReplaceFile(n)
    \/ ClientCannotStart
    \/ ~StoreHeld /\ UpdateThread
    \/ HeartbeatThread
    \/ Server
    \/ Faulty

Spec == Init /\ [][Next]_vars

\* The threads run, a silent server is noticed within 10 seconds, and whoever
\* wants the update runs the client again.
Fairness ==
    /\ WF_vars(~StoreHeld /\ UpdateThread)
    /\ WF_vars(Silent /\ HeartbeatTimeout)
    /\ WF_vars(HeartbeatCopy \/ HeartbeatExit)
    /\ WF_vars(Server)
    /\ WF_vars(\E n \in Names : ClientStart(n))

FairSpec == Spec /\ Fairness

---------------------------------------------------------------------------
(* What makes resuming correct.                                            *)

\* No packet says where its data belongs: client and server count blocks on
\* their own.  Every block is nevertheless written at the position the server
\* read it from (recv_file_pack's lseek against the server's lseek), except in a
\* connection in which a recv failed and the client has taken the rest of that
\* packet for a packet (client_tool.c:224); the next connection is in step again,
\* whatever was saved.
WritesInPlace == cpc = "body" /\ astray # "now" => pack.at = store.offset

\* Whenever the client may be restarted, the saved offset counts blocks of
\* the very version whose mtime is saved: resuming never mixes versions, until the
\* client takes the rest of a packet for a packet and saves what that says.
RecordTruthful ==
    astray = "never" /\ record \notin {Absent, Empty} =>
        \A p \in Position : p < record.offset =>
            updateFile[p] = <<record.mtime, p>>

\* unpack_file never installs a copy that is not one whole version, with the same
\* exception.
NeverCorrupt == astray = "never" => installed # "corrupt"

\* The update is installed sooner or later, however often it is interrupted,
\* unless the server has no such file, or the client was stopped between
\* creating its record and writing it for the first time, or has saved what the
\* rest of a packet says.
EventuallyInstalled ==
    []<>(\/ record = Empty
         \/ astray # "never"
         \/ serverFile[store.name] = NoVersion
         \/ installed = serverFile[store.name])

---------------------------------------------------------------------------
(* A resumable transfer: the saved and the working progress.               *)

Progress(s) == [ver |-> s.mtime, count |-> s.offset]
savedProgress == IF record \in {Absent, Empty}
                 THEN [ver |-> NoVersion, count |-> 0]
                 ELSE Progress(record)
workingProgress == IF cpc = "off" THEN savedProgress ELSE Progress(store)

Transfer == INSTANCE ResumableTransfer WITH
                saved <- savedProgress, working <- workingProgress
\* As long as the client stays in step with the packets.
TransferSpec == Transfer!Init /\ [][astray' = "never" => Transfer!Next]_(Transfer!tvars)

=============================================================================
