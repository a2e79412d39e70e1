-------------------------- MODULE TransfersProofs ---------------------------
(***************************************************************************)
(* Theorems about the two parts of MCTransfers.  The threads of            *)
(* server_tool, for any number of clients, of threads and of descriptors:  *)
(* packets and heartbeats of a session are not mixed, and sessions are     *)
(* mixed only when main overwrites the argument of a thread that has not   *)
(* copied it.  The FTP client, for any number of retries and of rounds:    *)
(* what it reads and what it returns.                                      *)
(***************************************************************************)
EXTENDS MCTransfers, FiniteSetTheorems, WellFoundedInduction, SequenceTheorems, TLAPS

USE DEF mainVars, handlerVars, beatVars

-----------------------------------------------------------------------------
(* accept returns the least descriptor that is free.                       *)

LEMMA LeastExists ==
    ASSUME NEW S, S \subseteq Nat, S # {}
    PROVE  \E d \in S : \A e \in S : d <= e
<1> DEFINE T == {0 .. d : d \in S}
<1>1. T \subseteq FiniteSubsetsOf(Nat)
  <2>1. SUFFICES ASSUME NEW d \in S PROVE 0 .. d \in FiniteSubsetsOf(Nat)
    OBVIOUS
  <2>2. 0 \in Int /\ d \in Int /\ 0 .. d \subseteq Nat
    BY <2>1
  <2>3. IsFiniteSet(0 .. d)
    BY <2>2, FS_Interval
  <2>4. QED
    BY <2>2, <2>3 DEF FiniteSubsetsOf
<1>2. T # {}
  OBVIOUS
<1>3. PICK t \in T : \A u \in T : ~(<<u, t>> \in StrictSubsetOrdering(Nat))
  <2> HIDE DEF T
  <2>1. QED
    BY <1>1, <1>2, FS_StrictSubsetOrderingWellFounded, WFMin
<1>4. PICK d \in S : t = 0 .. d
  BY <1>3
<1>5. ASSUME NEW e \in S PROVE d <= e
  <2>1. SUFFICES ASSUME e < d PROVE FALSE
    BY <1>5
  <2>2. 0 .. e \subseteq 0 .. d /\ 0 .. e # 0 .. d
    <3>1. d \in 0 .. d /\ d \notin 0 .. e
      BY <2>1
    <3>2. QED
      BY <2>1, <3>1
  <2>3. 0 .. e \subseteq Nat /\ 0 .. d \subseteq Nat
    BY <1>5
  <2>4. <<0 .. e, 0 .. d>> \in StrictSubsetOrdering(Nat)
    BY <2>2, <2>3 DEF StrictSubsetOrdering
  <2>5. QED
    BY <1>3, <1>4, <2>4
<1>6. QED
  BY <1>5

LEMMA AcceptedIsFree ==
    ASSUME ~Failed(Accepted)
    PROVE  Accepted \in Free
<1>1. Free # {}
  BY DEF Accepted, Failed
<1>2. Free \subseteq Nat
  BY ServerAssumption DEF Free
<1>3. \E d \in Free : \A e \in Free : d <= e
  BY <1>1, <1>2, LeastExists
<1>4. Lowest(Free) \in Free
  BY <1>3 DEF Lowest
<1>5. QED
  BY <1>1, <1>4 DEF Accepted

-----------------------------------------------------------------------------
LEMMA InitTypeOK == Init => TypeOK
<1>1. NoArg \in ThreadArg
  BY DEF NoArg, ThreadArg
<1>2. ASSUME Init PROVE harg \in [Handlers -> ThreadArg] /\ barg \in [Handlers -> ThreadArg] /\ arg \in ThreadArg
  BY <1>1, <1>2 DEF Init
<1>3. ASSUME Init PROVE quit \in [Handlers -> BOOLEAN] /\ raced \in BOOLEAN
  BY <1>3, Zenon DEF Init
<1>4. ASSUME Init
      PROVE  /\ hpc \in [Handlers -> {"none", "start", "half", "spawn", "recv", "lock", "send", "quit", "close", "gone"}]
             /\ bpc \in [Handlers -> {"none", "start", "check", "lock", "send", "gone"}]
             /\ lock \in [Handlers -> {"free", "handler", "beat"}]
             /\ owner \in [Descriptors -> Clients \cup {NoClient}]
  BY <1>4 DEF Init
<1>5. QED
  BY <1>2, <1>3, <1>4 DEF Init, TypeOK

LEMMA MainTypeOK ==
    ASSUME TypeOK, Main
    PROVE  TypeOK'
<1>1. ASSUME NEW c \in Clients, Accept(c) PROVE TypeOK'
  <2>1. Accepted \in Descriptors
    BY <1>1, AcceptedIsFree DEF Accept, Free
  <2>2. QED
    BY <1>1, <2>1 DEF TypeOK, Accept, ThreadArg
<1>2. CASE AcceptFails
  BY <1>2 DEF TypeOK, AcceptFails
<1>3. CASE FillAddress
  BY <1>3 DEF TypeOK, FillAddress, Address, ThreadArg
<1>4. ASSUME NEW h \in Handlers, CreateHandler(h) PROVE TypeOK'
  BY <1>4 DEF TypeOK, CreateHandler
<1>5. QED
  BY <1>1, <1>2, <1>3, <1>4 DEF Main

LEMMA HandlerTypeOK ==
    ASSUME TypeOK, NEW h \in Handlers, Handler(h)
    PROVE  TypeOK'
<1>1. CASE CopySock(h)
  BY <1>1 DEF TypeOK, CopySock, ThreadArg
<1>2. CASE CopyAddress(h)
  BY ZenonT(60), <1>2 DEF TypeOK, CopyAddress, ThreadArg
<1>3. CASE SpawnHeartbeat(h)
  BY <1>3 DEF TypeOK, SpawnHeartbeat
<1>4. CASE Recv(h)
  BY <1>4 DEF TypeOK, Recv
<1>5. CASE Lock(h)
  BY <1>5 DEF TypeOK, Lock
<1>6. CASE Sent(h)
  BY <1>6 DEF TypeOK, Sent
<1>7. CASE StopHeartbeat(h)
  BY <1>7 DEF TypeOK, StopHeartbeat
<1>8. CASE Close(h)
  <2>1. owner' \in [Descriptors -> Clients \cup {NoClient}]
    BY <1>8 DEF TypeOK, Close
  <2>2. QED
    BY <1>8, <2>1 DEF TypeOK, Close, AfterClose
<1>9. QED
  BY <1>1, <1>2, <1>3, <1>4, <1>5, <1>6, <1>7, <1>8 DEF Handler

LEMMA HeartbeatTypeOK ==
    ASSUME TypeOK, NEW h \in Handlers, Heartbeat(h)
    PROVE  TypeOK'
<1>1. CASE BeatStart(h)
  BY <1>1 DEF TypeOK, BeatStart, Frames
<1>2. CASE BeatCheck(h)
  BY <1>2 DEF TypeOK, BeatCheck
<1>3. CASE BeatLock(h)
  BY <1>3 DEF TypeOK, BeatLock
<1>4. CASE BeatSent(h)
  BY <1>4 DEF TypeOK, BeatSent
<1>5. QED
  BY <1>1, <1>2, <1>3, <1>4 DEF Heartbeat

LEMMA NextTypeOK == TypeOK /\ [Next]_vars => TypeOK'
<1> SUFFICES ASSUME TypeOK, [Next]_vars PROVE TypeOK'
  OBVIOUS
<1>1. ASSUME NEW c \in Clients, ClientDies(c) PROVE TypeOK'
  BY <1>1 DEF TypeOK, ClientDies
<1>2. CASE UNCHANGED vars
  BY <1>2 DEF TypeOK, vars
<1>3. QED
  BY <1>1, <1>2, MainTypeOK, HandlerTypeOK, HeartbeatTypeOK DEF Next

\* Descriptors, threads and arguments stay what they are (main, handle_tcp_connection
\* and heard_beat_thread).
THEOREM TypeCorrect == Spec => []TypeOK
  BY InitTypeOK, NextTypeOK, PTL DEF Spec

-----------------------------------------------------------------------------
(* Who holds send_lock.  Once a handler destroyed it, its heartbeat thread *)
(* may send without it.                                                    *)

Locked ==
    \A h \in Handlers :
        /\ hpc[h] = "send" => lock[h] = "handler"
        /\ bpc[h] = "send" /\ ~Destroyed(h) => lock[h] = "beat"

LEMMA HandlerLocked ==
    ASSUME TypeOK, Locked, NEW h \in Handlers, Handler(h)
    PROVE  Locked'
<1>1. CASE CopySock(h) \/ CopyAddress(h) \/ Recv(h)
  BY <1>1 DEF TypeOK, Locked, Destroyed, CopySock, CopyAddress, Recv
<1>2. CASE SpawnHeartbeat(h)
  BY <1>2 DEF TypeOK, Locked, Destroyed, SpawnHeartbeat
<1>3. CASE Lock(h)
  BY <1>3 DEF TypeOK, Locked, Destroyed, Lock, MayLock
<1>4. CASE Sent(h)
  BY <1>4 DEF TypeOK, Locked, Destroyed, Sent
<1>5. CASE StopHeartbeat(h)
  BY <1>5 DEF TypeOK, Locked, Destroyed, StopHeartbeat
<1>6. CASE Close(h)
  BY <1>6 DEF TypeOK, Locked, Destroyed, Close, AfterClose
<1>7. QED
  BY <1>1, <1>2, <1>3, <1>4, <1>5, <1>6 DEF Handler

LEMMA HeartbeatLocked ==
    ASSUME TypeOK, Locked, NEW h \in Handlers, Heartbeat(h)
    PROVE  Locked'
<1>1. CASE BeatStart(h) \/ BeatCheck(h)
  BY <1>1 DEF TypeOK, Locked, Destroyed, BeatStart, BeatCheck
<1>2. CASE BeatLock(h)
  BY <1>2 DEF TypeOK, Locked, Destroyed, BeatLock, MayLock
<1>3. CASE BeatSent(h)
  BY <1>3 DEF TypeOK, Locked, Destroyed, BeatSent
<1>4. QED
  BY <1>1, <1>2, <1>3 DEF Heartbeat

LEMMA NextLocked == TypeOK /\ Locked /\ [Next]_vars => Locked'
<1> SUFFICES ASSUME TypeOK, Locked, [Next]_vars PROVE Locked'
  OBVIOUS
<1>1. CASE Main
  BY <1>1 DEF TypeOK, Locked, Destroyed, Main, Accept, AcceptFails, FillAddress, CreateHandler
<1>2. ASSUME NEW c \in Clients, ClientDies(c) PROVE Locked'
  BY <1>2 DEF Locked, Destroyed, ClientDies
<1>3. CASE UNCHANGED vars
  BY <1>3 DEF Locked, Destroyed, vars
<1>4. QED
  BY <1>1, <1>2, <1>3, HandlerLocked, HeartbeatLocked DEF Next

\* A heartbeat is never sent in the middle of a data packet of its session:
\* both take send_lock (handle_tcp_connection and heard_beat_thread), and the
\* handler destroys it only after its last packet.
THEOREM SessionFramesWholeHolds == Spec => []SessionFramesWhole
<1>1. Init => Locked
  BY DEF Init, Locked
<1>2. Locked => SessionFramesWhole
  BY DEF Locked, Destroyed, SessionFramesWhole
<1>3. QED
  BY <1>1, <1>2, TypeCorrect, NextLocked, PTL DEF Spec

-----------------------------------------------------------------------------
(* Until main overwrites an argument, it has one thread at a time that     *)
(* copies it, and each thread has a descriptor of its own.                 *)

Starting(h) == hpc[h] \in {"start", "half"}
Taken(h)    == hpc[h] = "half" \/ Serving(h)

\* No thread has copied arg.sock yet.
Pending == mpc \in {"address", "create"} \/ \E h \in Handlers : hpc[h] = "start"

OneStarts ==
    /\ \A h, k \in Handlers : Starting(h) /\ Starting(k) => h = k
    /\ mpc # "accept" => \A h \in Handlers : ~Starting(h)

PendingKept ==
    Pending =>
        /\ accepted \in Clients
        /\ arg.sock \in Descriptors /\ owner[arg.sock] = accepted
        /\ \A h \in Handlers : Taken(h) => harg[h].sock # arg.sock

AddressKept == mpc = "create" \/ (\E h \in Handlers : Starting(h)) => arg.ip = accepted

TakenKept ==
    \A h \in Handlers :
        Taken(h) =>
            /\ harg[h].sock \in Descriptors /\ owner[harg[h].sock] # NoClient
            /\ hpc[h] = "half" => owner[harg[h].sock] = accepted
            /\ Serving(h) => owner[harg[h].sock] = harg[h].ip

Distinct ==
    \A h, k \in Handlers : Taken(h) /\ Taken(k) /\ h # k => harg[h].sock # harg[k].sock

Sharing == ~raced => OneStarts /\ PendingKept /\ AddressKept /\ TakenKept /\ Distinct

LEMMA QuietSharing ==
    ASSUME Sharing, UNCHANGED <<owner, mpc, accepted, arg, hpc, harg, raced>>
    PROVE  Sharing'
  BY DEF Sharing, OneStarts, PendingKept, AddressKept, TakenKept, Distinct, Pending, Starting, Taken, Serving

\* While a thread serves its client it keeps its copy.
LEMMA ServingSharing ==
    ASSUME TypeOK, Sharing, NEW h \in Handlers,
           SpawnHeartbeat(h) \/ Recv(h) \/ Lock(h) \/ Sent(h) \/ StopHeartbeat(h)
    PROVE  Sharing'
<1>1. UNCHANGED <<owner, mpc, accepted, arg, harg, raced>>
  BY DEF SpawnHeartbeat, Recv, Lock, Sent, StopHeartbeat
<1>2. Serving(h) /\ Serving(h)' /\ \A k \in Handlers : k # h => hpc'[k] = hpc[k]
  BY DEF TypeOK, Serving, SpawnHeartbeat, Recv, Lock, Sent, StopHeartbeat
<1>3. \A k \in Handlers :
          /\ Starting(k)' <=> Starting(k)
          /\ Taken(k)' <=> Taken(k)
          /\ Serving(k)' <=> Serving(k)
          /\ hpc'[k] = "half" <=> hpc[k] = "half"
          /\ hpc'[k] = "start" <=> hpc[k] = "start"
  BY <1>2 DEF Starting, Taken, Serving
<1>4. QED
  BY <1>1, <1>3 DEF Sharing, OneStarts, PendingKept, AddressKept, TakenKept, Distinct, Pending

LEMMA CopySockSharing ==
    ASSUME TypeOK, Sharing, NEW h \in Handlers, CopySock(h)
    PROVE  Sharing'
<1> SUFFICES ASSUME ~raced' PROVE (OneStarts /\ PendingKept /\ AddressKept /\ TakenKept /\ Distinct)'
  BY DEF Sharing
<1>1. UNCHANGED <<owner, mpc, accepted, arg, raced>> /\ hpc[h] = "start"
  BY DEF CopySock
<1>2. OneStarts /\ PendingKept /\ AddressKept /\ TakenKept /\ Distinct
  BY <1>1 DEF Sharing
<1>3. hpc'[h] = "half" /\ harg'[h].sock = arg.sock
      /\ \A k \in Handlers : k # h => hpc'[k] = hpc[k] /\ harg'[k] = harg[k]
  BY DEF TypeOK, ThreadArg, CopySock
<1>4. mpc = "accept" /\ \A k \in Handlers : k # h => ~Starting(k)
  BY <1>1, <1>2 DEF OneStarts, Starting
<1>5. OneStarts' /\ ~Pending'
  BY <1>1, <1>3, <1>4 DEF OneStarts, Starting, Pending
<1>6. PendingKept' /\ AddressKept'
  BY <1>1, <1>2, <1>5 DEF PendingKept, AddressKept, Starting
<1>7. accepted \in Clients /\ arg.sock \in Descriptors /\ owner[arg.sock] = accepted
      /\ \A k \in Handlers : Taken(k) => harg[k].sock # arg.sock
  BY <1>1, <1>2 DEF PendingKept, Pending
<1>8. TakenKept'
  BY <1>1, <1>2, <1>3, <1>7, ServerAssumption DEF TakenKept, Taken, Serving
<1>9. Distinct'
  BY <1>1, <1>2, <1>3, <1>7 DEF Distinct, Taken, Serving
<1>10. QED
  BY <1>5, <1>6, <1>8, <1>9

LEMMA CopyAddressSharing ==
    ASSUME TypeOK, Sharing, NEW h \in Handlers, CopyAddress(h)
    PROVE  Sharing'
<1> SUFFICES ASSUME ~raced' PROVE (OneStarts /\ PendingKept /\ AddressKept /\ TakenKept /\ Distinct)'
  BY DEF Sharing
<1>1. UNCHANGED <<owner, mpc, accepted, arg, raced>> /\ hpc[h] = "half"
  BY DEF CopyAddress
<1>2. OneStarts /\ PendingKept /\ AddressKept /\ TakenKept /\ Distinct
  BY <1>1 DEF Sharing
<1>3. hpc'[h] = "spawn" /\ harg'[h].sock = harg[h].sock /\ harg'[h].ip = arg.ip
      /\ \A k \in Handlers : k # h => hpc'[k] = hpc[k] /\ harg'[k] = harg[k]
  BY DEF TypeOK, ThreadArg, CopyAddress
<1>4. mpc = "accept" /\ arg.ip = accepted /\ \A k \in Handlers : k # h => ~Starting(k)
  BY <1>1, <1>2 DEF OneStarts, AddressKept, Starting
<1>5. \A k \in Handlers : ~Starting(k)' /\ hpc'[k] # "start"
  BY <1>3, <1>4 DEF Starting
<1>6. OneStarts' /\ PendingKept' /\ AddressKept'
  BY <1>1, <1>4, <1>5 DEF OneStarts, PendingKept, AddressKept, Pending
<1>7. TakenKept'
  BY <1>1, <1>2, <1>3, <1>4 DEF TakenKept, Taken, Serving
<1>8. Distinct'
  BY <1>1, <1>2, <1>3 DEF Distinct, Taken, Serving
<1>9. QED
  BY <1>6, <1>7, <1>8

\* What a thread closes is its own descriptor.
LEMMA CloseSharing ==
    ASSUME TypeOK, Sharing, NEW h \in Handlers, Close(h)
    PROVE  Sharing'
<1> SUFFICES ASSUME ~raced' PROVE (OneStarts /\ PendingKept /\ AddressKept /\ TakenKept /\ Distinct)'
  BY DEF Sharing
<1>1. UNCHANGED <<mpc, accepted, arg, harg, raced>> /\ hpc[h] = "close"
  BY DEF Close
<1>2. OneStarts /\ PendingKept /\ AddressKept /\ TakenKept /\ Distinct
  BY <1>1 DEF Sharing
<1>3. hpc'[h] = "gone" /\ \A k \in Handlers : k # h => hpc'[k] = hpc[k]
  BY DEF TypeOK, Close, AfterClose
<1>4. ~Taken(h)' /\ ~Starting(h)' /\ hpc'[h] # "start" /\ Taken(h) /\ ~Starting(h)
  BY <1>1, <1>3 DEF Taken, Serving, Starting
<1>5. \A k \in Handlers : k # h => /\ Taken(k)' <=> Taken(k)
                                   /\ Serving(k)' <=> Serving(k)
                                   /\ Starting(k)' <=> Starting(k)
  BY <1>3 DEF Taken, Serving, Starting
<1>6. \A d \in Descriptors : d # harg[h].sock => owner'[d] = owner[d]
  BY DEF TypeOK, Close
<1>7. OneStarts' /\ AddressKept'
  BY <1>1, <1>2, <1>4, <1>5 DEF OneStarts, AddressKept
<1>8. Pending' => Pending
  BY <1>1, <1>3 DEF Pending
<1>9. PendingKept'
  BY <1>1, <1>2, <1>4, <1>5, <1>6, <1>8 DEF PendingKept
<1>10. TakenKept'
  BY <1>1, <1>2, <1>3, <1>4, <1>5, <1>6 DEF TakenKept, Distinct
<1>11. Distinct'
  BY <1>1, <1>2, <1>4, <1>5 DEF Distinct
<1>12. QED
  BY <1>7, <1>9, <1>10, <1>11

\* accept gives a descriptor that no thread has.
LEMMA AcceptSharing ==
    ASSUME TypeOK, Sharing, NEW c \in Clients, Accept(c)
    PROVE  Sharing'
<1> SUFFICES ASSUME ~raced' PROVE (OneStarts /\ PendingKept /\ AddressKept /\ TakenKept /\ Distinct)'
  BY DEF Sharing
<1>1. UNCHANGED <<hpc, harg>> /\ ~raced /\ accepted' = c /\ mpc' = "address"
      /\ \A h \in Handlers : ~Starting(h)
  BY DEF Accept, Starting
<1>2. TakenKept /\ Distinct
  BY <1>1 DEF Sharing
<1>3. Accepted \in Descriptors /\ owner[Accepted] = NoClient
  BY AcceptedIsFree DEF Accept, Free
<1>4. arg'.sock = Accepted /\ owner'[Accepted] = c /\ \A d \in Descriptors : d # Accepted => owner'[d] = owner[d]
  BY <1>3 DEF TypeOK, ThreadArg, Accept
<1>5. \A h \in Handlers : Taken(h) => harg[h].sock # Accepted
  BY <1>2, <1>3 DEF TakenKept
<1>6. OneStarts' /\ AddressKept'
  BY <1>1 DEF OneStarts, AddressKept, Starting
<1>7. PendingKept'
  BY <1>1, <1>3, <1>4, <1>5 DEF PendingKept, Taken, Serving
<1>8. TakenKept'
  BY <1>1, <1>2, <1>4, <1>5 DEF TakenKept, Taken, Serving, Starting
<1>9. Distinct'
  BY <1>1, <1>2 DEF Distinct, Taken, Serving
<1>10. QED
  BY <1>6, <1>7, <1>8, <1>9

LEMMA MainSharing ==
    ASSUME TypeOK, Sharing, Main
    PROVE  Sharing'
<1>1. CASE AcceptFails
  <2>1. \A h \in Handlers : ~Starting(h)' /\ ~Taken(h)' /\ hpc'[h] # "start"
    BY <1>1 DEF AcceptFails, Starting, Taken, Serving
  <2>2. mpc' = "exited"
    BY <1>1 DEF AcceptFails
  <2>3. QED
    BY <2>1, <2>2 DEF Sharing, OneStarts, PendingKept, AddressKept, TakenKept, Distinct, Pending
<1>2. CASE FillAddress
  <2>1. UNCHANGED <<owner, accepted, hpc, harg, raced>> /\ mpc = "address" /\ mpc' = "create"
        /\ arg'.sock = arg.sock /\ arg'.ip = accepted
    BY <1>2 DEF FillAddress, Address, TypeOK, ThreadArg
  <2>2. QED
    BY <2>1 DEF Sharing, OneStarts, PendingKept, AddressKept, TakenKept, Distinct, Pending, Starting, Taken, Serving
<1>3. ASSUME NEW h \in Handlers, CreateHandler(h) PROVE Sharing'
  <2> SUFFICES ASSUME ~raced' PROVE (OneStarts /\ PendingKept /\ AddressKept /\ TakenKept /\ Distinct)'
    BY DEF Sharing
  <2>1. UNCHANGED <<owner, accepted, arg, harg, raced>> /\ mpc = "create" /\ mpc' = "accept" /\ hpc[h] = "none"
        /\ hpc'[h] = "start" /\ \A k \in Handlers : k # h => hpc'[k] = hpc[k]
    BY <1>3 DEF CreateHandler, TypeOK
  <2>2. OneStarts /\ PendingKept /\ AddressKept /\ TakenKept /\ Distinct
    BY <2>1 DEF Sharing
  <2>3. \A k \in Handlers : /\ Taken(k)' <=> Taken(k)
                            /\ Serving(k)' <=> Serving(k)
                            /\ hpc'[k] = "half" <=> hpc[k] = "half"
                            /\ Starting(k)' <=> k = h
    BY <2>1, <2>2 DEF OneStarts, Taken, Serving, Starting
  <2>4. OneStarts' /\ AddressKept'
    BY <2>1, <2>2, <2>3 DEF OneStarts, AddressKept
  <2>5. PendingKept' /\ TakenKept' /\ Distinct'
    BY <2>1, <2>2, <2>3 DEF PendingKept, TakenKept, Distinct, Pending
  <2>6. QED
    BY <2>4, <2>5
<1>4. QED
  BY <1>1, <1>2, <1>3, AcceptSharing DEF Main

LEMMA NextSharing == TypeOK /\ Sharing /\ [Next]_vars => Sharing'
<1> SUFFICES ASSUME TypeOK, Sharing, [Next]_vars PROVE Sharing'
  OBVIOUS
<1>1. ASSUME NEW h \in Handlers, Heartbeat(h) PROVE Sharing'
  BY <1>1, QuietSharing DEF Heartbeat, BeatStart, BeatCheck, BeatLock, BeatSent
<1>2. ASSUME NEW c \in Clients, ClientDies(c) PROVE Sharing'
  BY <1>2, QuietSharing DEF ClientDies
<1>3. CASE UNCHANGED vars
  BY <1>3, QuietSharing DEF vars
<1>4. ASSUME NEW h \in Handlers, Handler(h) PROVE Sharing'
  BY <1>4, ServingSharing, CopySockSharing, CopyAddressSharing, CloseSharing DEF Handler
<1>5. QED
  BY <1>1, <1>2, <1>3, <1>4, MainSharing DEF Next

LEMMA Shared == Spec => []Sharing
<1>1. Init => Sharing
  BY DEF Init, Sharing, OneStarts, PendingKept, AddressKept, TakenKept, Distinct, Pending, Starting, Taken, Serving
<1>2. QED
  BY <1>1, TypeCorrect, NextSharing, PTL DEF Spec

\* As long as main has not overwritten the argument of a thread that had not
\* copied it, no two sessions have the same descriptor.
THEOREM SharedOnlyByRaceHolds == Spec => []SharedOnlyByRace
<1>1. Sharing => SharedOnlyByRace
  BY DEF Sharing, Distinct, Taken, SharedOnlyByRace
<1>2. QED
  BY <1>1, Shared, PTL

\* ... and the address a session has is that of the client at its descriptor.
THEOREM AddressMatchesHolds == Spec => []AddressMatches
<1>1. Sharing => AddressMatches
  BY DEF Sharing, TakenKept, Taken, AddressMatches
<1>2. QED
  BY <1>1, Shared, PTL

HIDE DEF mainVars, handlerVars, beatVars

-----------------------------------------------------------------------------
(* The stream of lines that the client reads, cut into replies.            *)

Commands == DOMAIN Answers \cup {"transfer"}
Askers == Commands \cup {"greeting", "any"}

Lines == [code : Int, more : BOOLEAN, to : Askers]
ReplyTo == [code : Nat \ {0}, to : Askers]

\* The lines of s after the first `from` ones, up to number `upTo`, are the
\* reply r: none but the last looks like its end.
Piece(s, from, upTo, r) ==
    /\ from < upTo /\ upTo <= Len(s)
    /\ s[from + 1].code = r.code
    /\ s[upTo].code = r.code /\ ~s[upTo].more /\ s[upTo].to = r.to
    /\ \A j \in from + 1 .. upTo - 1 : s[j].code # r.code \/ s[j].more

\* s is the replies q, one after the other, of which number i ends at pos[i].
Cut(s, q, pos) ==
    /\ pos \in [0 .. Len(q) -> Nat]
    /\ pos[0] = 0 /\ pos[Len(q)] = Len(s)
    /\ \A i, j \in 0 .. Len(q) : i <= j => pos[i] <= pos[j]
    /\ \A i \in 1 .. Len(q) : Piece(s, pos[i - 1], pos[i], q[i])

Reads(s, q) == \E pos : Cut(s, q, pos)

LEMMA ReadsNothing == Reads(<<>>, <<>>)
<1> DEFINE pos == [i \in 0 .. 0 |-> 0]
<1>1. Cut(<<>>, <<>>, pos)
  BY DEF Cut
<1>2. QED
  BY <1>1 DEF Reads

\* A reply that is put ends the stream, and only its last line ends it.
LEMMA ReplyLines ==
    ASSUME NEW code \in Nat \ {0}, NEW to \in Askers, NEW r \in Replies(code, to)
    PROVE  /\ r \in Seq(Lines) /\ Len(r) \in {1, 5}
           /\ r[1].code = code
           /\ r[Len(r)].code = code /\ ~r[Len(r)].more /\ r[Len(r)].to = to
           /\ \A j \in 1 .. Len(r) - 1 : r[j].code # code \/ r[j].more
<1> DEFINE Part(c, m) == [code |-> c, more |-> m, to |-> to]
<1>0. \A c \in Int, m \in BOOLEAN : Part(c, m) \in Lines
  BY DEF Lines
<1>c. code \in Int /\ 0 \in Int /\ -1 \in Int /\ TRUE \in BOOLEAN /\ FALSE \in BOOLEAN /\ code # 0 /\ code # -1
  OBVIOUS
<1>1. CASE r = <<Part(code, FALSE)>>
  <2>1. Part(code, FALSE) \in Lines
    BY <1>0, <1>c
  <2>2. Len(r) = 1 /\ r[1] = Part(code, FALSE)
    BY <1>1
  <2>3. r \in Seq(Lines)
    BY <1>1, <2>1
  <2>4. 1 .. Len(r) - 1 = {}
    BY <2>2
  <2>5. QED
    BY <2>2, <2>3, <2>4
<1>2. CASE r = <<Part(code, TRUE), Part(0, FALSE), Part(-1, FALSE), Part(code, TRUE), Part(code, FALSE)>>
  <2>1. Len(r) = 5 /\ r[1] = Part(code, TRUE) /\ r[2] = Part(0, FALSE) /\ r[3] = Part(-1, FALSE)
           /\ r[4] = Part(code, TRUE) /\ r[5] = Part(code, FALSE)
    BY <1>2
  <2>2. /\ Part(code, TRUE) \in Lines /\ Part(0, FALSE) \in Lines
        /\ Part(-1, FALSE) \in Lines /\ Part(code, FALSE) \in Lines
    BY <1>0, <1>c
  <2>3. r \in Seq(Lines)
    <3>1. \A a, b, c, d, e \in Lines : <<a, b, c, d, e>> \in Seq(Lines)
      OBVIOUS
    <3>2. QED
      BY ONLY <1>2, <2>2, <3>1
  <2>4. \A j \in 1 .. Len(r) - 1 : j = 1 \/ j = 2 \/ j = 3 \/ j = 4
    BY <2>1
  <2>5. QED
    BY <2>1, <2>3, <2>4, <1>c
<1>3. QED
  BY <1>1, <1>2 DEF Replies, Line, ERROR

LEMMA PieceSame ==
    ASSUME NEW s, NEW t, NEW from \in Nat, NEW upTo \in Nat, NEW r, Piece(s, from, upTo, r),
           upTo <= Len(t), \A j \in from + 1 .. upTo : t[j] = s[j]
    PROVE  Piece(t, from, upTo, r)
<1>1. from < upTo
  BY DEF Piece
<1>2. from + 1 \in from + 1 .. upTo /\ upTo \in from + 1 .. upTo
  BY <1>1
<1>3. \A j \in from + 1 .. upTo - 1 : j \in from + 1 .. upTo
  OBVIOUS
<1>4. QED
  BY <1>1, <1>2, <1>3 DEF Piece

LEMMA ReadsMore ==
    ASSUME NEW s \in Seq(Lines), NEW q \in Seq(ReplyTo), Reads(s, q),
           NEW code \in Nat \ {0}, NEW to \in Askers, NEW r \in Replies(code, to)
    PROVE  /\ s \o r \in Seq(Lines)
           /\ Append(q, [code |-> code, to |-> to]) \in Seq(ReplyTo)
           /\ Reads(s \o r, Append(q, [code |-> code, to |-> to]))
<1> DEFINE e == [code |-> code, to |-> to]
           t == s \o r
           k == Append(q, e)
<1>1. PICK pos : Cut(s, q, pos)
  BY DEF Reads
<1>2. /\ r \in Seq(Lines) /\ Len(r) \in {1, 5}
      /\ r[1].code = code
      /\ r[Len(r)].code = code /\ ~r[Len(r)].more /\ r[Len(r)].to = to
      /\ \A j \in 1 .. Len(r) - 1 : r[j].code # code \/ r[j].more
  BY ReplyLines
<1>3. e \in ReplyTo /\ e.code = code /\ e.to = to
  BY DEF ReplyTo
<1>4. /\ t \in Seq(Lines) /\ Len(t) = Len(s) + Len(r)
      /\ \A j \in 1 .. Len(s) : t[j] = s[j]
      /\ \A j \in 1 .. Len(r) : t[Len(s) + j] = r[j]
  BY <1>2
<1>5. /\ k \in Seq(ReplyTo) /\ Len(k) = Len(q) + 1
      /\ \A i \in 1 .. Len(q) : k[i] = q[i]
      /\ k[Len(q) + 1] = e
  BY <1>3
<1> DEFINE more == [i \in 0 .. Len(q) + 1 |-> IF i <= Len(q) THEN pos[i] ELSE Len(t)]
<1>n. Len(q) \in Nat /\ Len(s) \in Nat /\ Len(t) \in Nat /\ Len(r) \in Nat
  BY <1>2, <1>4
<1>6. /\ more \in [0 .. Len(k) -> Nat] /\ more[Len(q) + 1] = Len(t)
      /\ \A i \in 0 .. Len(q) : more[i] = pos[i] /\ pos[i] \in Nat
  <2>1. \A i \in 0 .. Len(q) : pos[i] \in Nat
    BY <1>1 DEF Cut
  <2>2. \A i \in 0 .. Len(q) + 1 : (IF i <= Len(q) THEN pos[i] ELSE Len(t)) \in Nat
    BY <2>1, <1>n
  <2>3. more \in [0 .. Len(q) + 1 -> Nat]
    BY <2>2
  <2>4. \A i \in 0 .. Len(q) : i \in 0 .. Len(q) + 1 /\ i <= Len(q)
    BY <1>n
  <2>5. Len(q) + 1 \in 0 .. Len(q) + 1 /\ ~(Len(q) + 1 <= Len(q))
    BY <1>n
  <2>6. QED
    BY <2>1, <2>3, <2>4, <2>5, <1>5
<1> HIDE DEF e, t, k, more
<1>7. ASSUME NEW i \in 1 .. Len(q) PROVE Piece(t, more[i - 1], more[i], k[i])
  <2>1. Piece(s, pos[i - 1], pos[i], q[i])
    BY <1>1 DEF Cut
  <2>2. more[i - 1] = pos[i - 1] /\ more[i] = pos[i] /\ pos[i - 1] \in Nat /\ pos[i] \in Nat /\ k[i] = q[i]
    <3>1. i - 1 \in 0 .. Len(q) /\ i \in 0 .. Len(q)
      BY <1>n
    <3>2. QED
      BY <3>1, <1>6, <1>5
  <2>3. PICK from \in Nat : from = pos[i - 1]
    BY <2>2
  <2>4. PICK upTo \in Nat : upTo = pos[i]
    BY <2>2
  <2>5. Piece(s, from, upTo, q[i])
    BY <2>1, <2>3, <2>4
  <2>6. upTo <= Len(s)
    BY <2>5 DEF Piece
  <2>7. \A j \in from + 1 .. upTo : j \in 1 .. Len(s)
    BY <2>6, <1>n
  <2>8. upTo <= Len(t) /\ \A j \in from + 1 .. upTo : t[j] = s[j]
    BY <2>6, <2>7, <1>4, <1>n
  <2>9. Piece(t, from, upTo, q[i])
    BY ONLY <2>5, <2>8, from \in Nat, upTo \in Nat, PieceSame
  <2>10. QED
    BY <2>2, <2>3, <2>4, <2>9
<1>8. Piece(t, more[Len(q)], more[Len(q) + 1], k[Len(q) + 1])
  <2>1. more[Len(q)] = Len(s)
    <3>1. Len(q) \in 0 .. Len(q) /\ pos[Len(q)] = Len(s)
      BY <1>1, <1>n DEF Cut
    <3>2. QED
      BY <3>1, <1>6
  <2>2. t[Len(s) + 1] = r[1] /\ t[Len(t)] = r[Len(r)]
    BY <1>4, <1>2, <1>n
  <2>3. \A j \in Len(s) + 1 .. Len(t) - 1 : t[j].code # code \/ t[j].more
    <3>1. SUFFICES ASSUME NEW j \in Len(s) + 1 .. Len(t) - 1 PROVE t[j].code # code \/ t[j].more
      OBVIOUS
    <3>2. PICK m \in 1 .. Len(r) - 1 : j = Len(s) + m
      <4>1. j - Len(s) \in 1 .. Len(r) - 1 /\ j = Len(s) + (j - Len(s))
        BY <1>4, <1>n
      <4>2. QED
        BY <4>1
    <3>3. m \in 1 .. Len(r) /\ t[j] = r[m]
      BY <3>2, <1>4, <1>n
    <3>4. QED
      BY <3>2, <3>3, <1>2
  <2>4. Len(s) < Len(t) /\ Len(t) <= Len(t)
    BY <1>2, <1>4, <1>n
  <2>5. Piece(t, Len(s), Len(t), e)
    BY <2>2, <2>3, <2>4, <1>2, <1>3 DEF Piece
  <2>6. QED
    BY <2>1, <2>5, <1>5, <1>6
<1>9. Cut(t, k, more)
  <2>1. more[0] = 0 /\ more[Len(k)] = Len(t)
    BY <1>1, <1>5, <1>6, <1>n DEF Cut
  <2>2. \A i \in 1 .. Len(k) : i \in 1 .. Len(q) \/ i = Len(q) + 1
    BY <1>5, <1>n
  <2>3. \A i \in 1 .. Len(k) : Piece(t, more[i - 1], more[i], k[i])
    <3>1. SUFFICES ASSUME NEW i \in 1 .. Len(k) PROVE Piece(t, more[i - 1], more[i], k[i])
      OBVIOUS
    <3>2. CASE i \in 1 .. Len(q)
      BY <3>2, <1>7
    <3>3. CASE i = Len(q) + 1
      <4>1. i - 1 = Len(q)
        BY <3>3, <1>n
      <4>2. QED
        BY <3>3, <4>1, <1>8
    <3>4. QED
      BY <2>2, <3>2, <3>3
  <2>4. \A i, j \in 0 .. Len(q) : i <= j => pos[i] <= pos[j]
    BY <1>1 DEF Cut
  <2>5. \A i \in 0 .. Len(q) : pos[i] <= Len(t)
    <3>1. Len(q) \in 0 .. Len(q) /\ pos[Len(q)] = Len(s) /\ Len(s) <= Len(t)
      BY <1>1, <1>2, <1>4, <1>n DEF Cut
    <3>2. QED
      BY <3>1, <2>4, <1>6, <1>n
  <2>6. \A i \in 0 .. Len(k) : i \in 0 .. Len(q) \/ i = Len(q) + 1
    BY <1>5, <1>n
  <2>7. ASSUME NEW i \in 0 .. Len(k), NEW j \in 0 .. Len(k), i <= j
        PROVE  more[i] <= more[j]
    <3>1. CASE j = Len(q) + 1
      <4>1. more[j] = Len(t) /\ Len(t) <= Len(t)
        BY <3>1, <1>6, <1>n
      <4>2. more[i] <= Len(t)
        BY <4>1, <2>5, <2>6, <1>6
      <4>3. QED
        BY <4>1, <4>2
    <3>2. CASE j \in 0 .. Len(q)
      <4>1. i \in 0 .. Len(q)
        BY <3>2, <2>7, <1>n
      <4>2. pos[i] <= pos[j]
        BY <3>2, <4>1, <2>4, <2>7
      <4>3. QED
        BY <3>2, <4>1, <4>2, <1>6
    <3>3. QED
      BY <3>1, <3>2, <2>6
  <2>8. QED
    BY <1>6, <2>1, <2>3, <2>7 DEF Cut
<1>10. t \in Seq(Lines) /\ k \in Seq(ReplyTo) /\ Reads(t, k)
  BY <1>4, <1>5, <1>9 DEF Reads
<1>11. QED
  BY <1>10 DEF t, k, e

LEMMA ReadsOne ==
    ASSUME NEW code \in Nat \ {0}, NEW to \in Askers, NEW r \in Replies(code, to),
           NEW e, e = [code |-> code, to |-> to]
    PROVE  /\ r \in Seq(Lines) /\ <<e>> \in Seq(ReplyTo) /\ Reads(r, <<e>>)
<1>0. <<>> \in Seq(Lines) /\ <<>> \in Seq(ReplyTo)
  OBVIOUS
<1>1. PICK s \in Seq(Lines) : s = <<>>
  BY <1>0
<1>2. PICK q \in Seq(ReplyTo) : q = <<>>
  BY <1>0
<1>3. Reads(s, q)
  BY <1>1, <1>2, ReadsNothing
<1>4. Append(q, e) \in Seq(ReplyTo) /\ Reads(s \o r, Append(q, e))
  BY <1>3, ReadsMore
<1>5. r \in Seq(Lines)
  BY ReplyLines
<1>6. s \o r = r /\ Append(q, e) = <<e>>
  BY <1>1, <1>2, <1>5
<1>7. QED
  BY <1>4, <1>5, <1>6

LEMMA LeastIsFirst ==
    ASSUME NEW S, S \subseteq Nat, NEW x \in S, \A y \in S : x <= y
    PROVE  FirstOf(S) = x
<1>1. Min(S) \in S /\ \A y \in S : Min(S) <= y
  BY DEF Min
<1>2. Min(S) <= x /\ x <= Min(S) /\ x \in Nat /\ Min(S) \in Nat
  BY <1>1
<1>3. S # {} /\ Min(S) = x
  BY <1>2
<1>4. QED
  BY <1>3 DEF FirstOf

LEMMA RestOfSeq ==
    ASSUME NEW S, NEW s \in Seq(S), NEW p \in 1 .. Len(s)
    PROVE  /\ SubSeq(s, p + 1, Len(s)) \in Seq(S)
           /\ Len(SubSeq(s, p + 1, Len(s))) = Len(s) - p /\ Len(SubSeq(s, p + 1, Len(s))) \in Nat
           /\ \A j \in 1 .. Len(SubSeq(s, p + 1, Len(s))) : SubSeq(s, p + 1, Len(s))[j] = s[p + j]
OBVIOUS

\* ftpReplyGet takes the first reply of the stream, the whole of it and no more.
LEMMA ReadsFirst ==
    ASSUME NEW s \in Seq(Lines), NEW q \in Seq(ReplyTo), Reads(s, q), q # <<>>
    PROVE  /\ s # <<>> /\ LastLine(s) \in 1 .. Len(s)
           /\ origCode(s) = q[1].code /\ s[LastLine(s)].to = q[1].to
           /\ SubSeq(s, LastLine(s) + 1, Len(s)) \in Seq(Lines)
           /\ Tail(q) \in Seq(ReplyTo)
           /\ Reads(SubSeq(s, LastLine(s) + 1, Len(s)), Tail(q))
<1>1. PICK pos : Cut(s, q, pos)
  BY DEF Reads
<1>n. Len(q) \in Nat /\ Len(s) \in Nat /\ Len(q) >= 1
  OBVIOUS
<1>2. /\ pos[0] = 0 /\ pos[1] \in Nat /\ Piece(s, 0, pos[1], q[1])
      /\ q[1] \in ReplyTo
  <2>1. 1 \in 1 .. Len(q) /\ 1 - 1 = 0 /\ 1 \in 0 .. Len(q)
    BY <1>n
  <2>2. QED
    BY <2>1, <1>1 DEF Cut
<1> DEFINE p == pos[1]
           c == q[1].code
<1>3. /\ p \in 1 .. Len(s) /\ s[1].code = c
      /\ s[p].code = c /\ ~s[p].more /\ s[p].to = q[1].to
      /\ \A j \in 1 .. p - 1 : s[j].code # c \/ s[j].more
      /\ c \in Nat \ {0}
  BY <1>2, <1>n DEF Piece, ReplyTo
<1> HIDE DEF p, c
<1>4. origCode(s) = c
  <2>1. Coded(s) \subseteq Nat /\ 1 \in Coded(s) /\ \A y \in Coded(s) : 1 <= y
    BY <1>3, <1>n DEF Coded
  <2>2. FirstOf(Coded(s)) = 1
    BY <2>1, LeastIsFirst
  <2>3. QED
    BY <2>1, <2>2, <1>3 DEF origCode
<1>5. LastLine(s) = p
  <2> DEFINE S == {i \in Coded(s) : s[i].code = c /\ ~s[i].more}
  <2>1. S \subseteq Nat
    BY DEF Coded
  <2>2. p \in S
    BY <1>3, <1>n DEF Coded
  <2>3. ASSUME NEW y \in S PROVE p <= y
    <3>1. y \in 1 .. Len(s) /\ s[y].code = c /\ ~s[y].more
      BY DEF Coded
    <3>2. ~(y \in 1 .. p - 1)
      BY <3>1, <1>3
    <3>3. QED
      BY <3>1, <3>2, <1>3, <1>n
  <2>4. FirstOf(S) = p
    <3> HIDE DEF S
    <3>1. QED
      BY <2>1, <2>2, <2>3, LeastIsFirst
  <2>5. QED
    BY <2>4, <1>4 DEF LastLine
<1> DEFINE t == SubSeq(s, p + 1, Len(s))
           k == Tail(q)
           rest == [i \in 0 .. Len(k) |-> pos[i + 1] - p]
<1>6. /\ t \in Seq(Lines) /\ Len(t) = Len(s) - p /\ Len(t) \in Nat
      /\ \A j \in 1 .. Len(t) : t[j] = s[p + j]
  <2>1. p \in 1 .. Len(s)
    BY <1>3
  <2>2. QED
    BY <2>1, RestOfSeq
<1>7. /\ k \in Seq(ReplyTo) /\ Len(k) = Len(q) - 1 /\ Len(k) \in Nat
      /\ \A i \in 1 .. Len(k) : k[i] = q[i + 1]
  BY <1>n
<1>8. \A i \in 1 .. Len(q) : pos[i - 1] \in Nat /\ pos[i] \in Nat /\ Piece(s, pos[i - 1], pos[i], q[i])
  <2>1. \A i \in 1 .. Len(q) : i - 1 \in 0 .. Len(q) /\ i \in 0 .. Len(q)
    BY <1>n
  <2>2. QED
    BY <2>1, <1>1 DEF Cut
<1>9. Reads(t, k)
  <2> HIDE DEF t, k
  <2>1. \A i \in 0 .. Len(k) : i + 1 \in 1 .. Len(q) /\ rest[i] = pos[i + 1] - p /\ pos[i + 1] \in Nat
    BY <1>7, <1>8, <1>n
  <2>2. \A i, j \in 0 .. Len(q) : i <= j => pos[i] <= pos[j]
    BY <1>1 DEF Cut
  <2>3. \A i \in 0 .. Len(k) : i + 1 \in 0 .. Len(q) /\ p <= pos[i + 1]
    <3>1. 1 \in 0 .. Len(q) /\ pos[1] = p
      BY <1>n DEF p
    <3>2. QED
      BY <3>1, <2>2, <1>7, <1>n
  <2>4. /\ rest \in [0 .. Len(k) -> Nat] /\ rest[0] = 0
        /\ \A i \in 0 .. Len(k) : rest[i] = pos[i + 1] - p
    <3>1. \A i \in 0 .. Len(k) : pos[i + 1] - p \in Nat
      BY <2>1, <2>3, <1>3
    <3>2. pos[0 + 1] = p /\ 0 \in 0 .. Len(k) /\ p \in Nat
      BY <1>7, <1>3 DEF p
    <3>3. QED
      BY <3>1, <3>2
  <2> HIDE DEF rest
  <2>5. rest[Len(k)] = Len(t)
    <3>1. Len(k) \in 0 .. Len(k) /\ Len(k) + 1 = Len(q) /\ pos[Len(q)] = Len(s)
      BY <1>1, <1>7, <1>n DEF Cut
    <3>2. rest[Len(k)] = pos[Len(k) + 1] - p
      BY <3>1, <2>4
    <3>3. QED
      BY <3>1, <3>2, <1>6
  <2>6. \A i, j \in 0 .. Len(k) : i <= j => rest[i] <= rest[j]
    <3>1. SUFFICES ASSUME NEW i \in 0 .. Len(k), NEW j \in 0 .. Len(k), i <= j
                   PROVE  rest[i] <= rest[j]
      OBVIOUS
    <3>2. pos[i + 1] <= pos[j + 1]
      BY <3>1, <2>2, <2>3, <1>7
    <3>3. QED
      BY <3>2, <2>1, <2>4, <1>3
  <2>7. ASSUME NEW i \in 1 .. Len(k) PROVE Piece(t, rest[i - 1], rest[i], k[i])
    <3>1. i - 1 \in 0 .. Len(k) /\ i \in 0 .. Len(k) /\ i + 1 \in 1 .. Len(q)
      BY <1>7, <1>n
    <3>2. rest[i - 1] = pos[i] - p /\ rest[i] = pos[i + 1] - p /\ pos[i] >= p /\ k[i] = q[i + 1]
      <4>1. (i - 1) + 1 = i
        OBVIOUS
      <4>2. QED
        BY <3>1, <4>1, <2>3, <2>4, <1>7
    <3>3. pos[i] \in Nat /\ pos[i + 1] \in Nat /\ Piece(s, pos[i], pos[i + 1], q[i + 1])
      <4>1. (i + 1) - 1 = i
        OBVIOUS
      <4>2. QED
        BY <3>1, <4>1, <1>8
    <3>4. PICK from \in Nat : from = pos[i]
      BY <3>3
    <3>5. PICK upTo \in Nat : upTo = pos[i + 1]
      BY <3>3
    <3>6. p <= from /\ upTo <= Len(s)
      BY <3>2, <3>3, <3>4, <3>5 DEF Piece
    <3>7. \A j \in (from - p) + 1 .. upTo - p : j + p \in from + 1 .. upTo /\ t[j] = s[j + p]
      <4>1. SUFFICES ASSUME NEW j \in (from - p) + 1 .. upTo - p
                     PROVE  j + p \in from + 1 .. upTo /\ t[j] = s[j + p]
        OBVIOUS
      <4>2. j \in 1 .. Len(t) /\ j + p \in from + 1 .. upTo /\ j + p = p + j
        BY <3>6, <1>3, <1>6, <1>n
      <4>3. QED
        BY <4>2, <1>6
    <3>8. Piece(s, from, upTo, q[i + 1])
      BY <3>3, <3>4, <3>5
    <3>9. Piece(t, from - p, upTo - p, q[i + 1])
      <4>0. from < upTo /\ upTo <= Len(s)
        BY <3>8 DEF Piece
      <4>1. from - p < upTo - p /\ upTo - p <= Len(t)
        BY <4>0, <1>3, <1>6, <1>n
      <4>2. t[(from - p) + 1] = s[from + 1] /\ t[upTo - p] = s[upTo]
        <5>1. (from - p) + 1 \in (from - p) + 1 .. upTo - p /\ upTo - p \in (from - p) + 1 .. upTo - p
          BY <4>1, <1>3
        <5>2. ((from - p) + 1) + p = from + 1 /\ (upTo - p) + p = upTo
          BY <1>3
        <5>3. QED
          BY <5>1, <5>2, <3>7
      <4>3. \A j \in (from - p) + 1 .. (upTo - p) - 1 :
               j \in (from - p) + 1 .. upTo - p /\ j + p \in from + 1 .. upTo - 1
        BY <1>3
      <4>4. \A j \in (from - p) + 1 .. (upTo - p) - 1 : t[j].code # q[i + 1].code \/ t[j].more
        BY <4>3, <3>7, <3>8 DEF Piece
      <4>5. QED
        BY <4>1, <4>2, <4>4, <3>8 DEF Piece
    <3>10. QED
      BY <3>2, <3>4, <3>5, <3>9
  <2>8. QED
    BY <2>4, <2>5, <2>6, <2>7 DEF Reads, Cut
<1>10. s # <<>> /\ LastLine(s) \in 1 .. Len(s) /\ s[LastLine(s)].to = q[1].to
  BY <1>3, <1>5, <1>n
<1>11. QED
  BY <1>4, <1>5, <1>6, <1>7, <1>9, <1>10 DEF c

LEMMA ReadsNone ==
    ASSUME NEW s \in Seq(Lines), Reads(s, <<>>)
    PROVE  s = <<>> /\ LastLine(s) = 0
<1>1. s = <<>>
  BY DEF Reads, Cut
<1>2. {i \in Coded(s) : s[i].code = origCode(s) /\ ~s[i].more} = {}
  BY <1>1 DEF Coded
<1>3. QED
  BY <1>1, <1>2 DEF LastLine, FirstOf

-----------------------------------------------------------------------------
(* What is yet to be read.  L names the replies that are due, one after    *)
(* the other, and q are those of them that the server has put.  Once a     *)
(* transfer has begun it owes two replies to its command; "ready" is a     *)
(* greeting that says that another will follow.                            *)

Due == Commands \cup {"ready", "greeting", "begun", "final"}

Meant(d) == IF d \in {"begun", "final"} THEN "transfer" ELSE IF d = "ready" THEN "greeting" ELSE d
Said(d) ==
    IF d = "ready" THEN {120}
    ELSE IF d = "greeting" THEN {220}
    ELSE IF d = "begun" THEN {150}
    ELSE IF d = "final" THEN {226, 425, 426}
    ELSE IF d = "transfer" THEN IF call.data = "none" THEN Answers.simple ELSE {425, 450, 550}
    ELSE Answers[d]
Fits(r, d) == r.to = Meant(d) /\ r.code \in Said(d)
Farewell == [code |-> 421, to |-> "any"]

\* After n replies come the end of the transfer, if one has begun, and the
\* answers to the commands that the server has not looked at.
Coming(n, L) ==
    /\ \/ transfer = 0 /\ Len(L) = n + Len(toServer)
       \/ transfer # 0 /\ Len(L) = n + 1 + Len(toServer) /\ L[n + 1] = "final"
    /\ \A j \in 1 .. Len(toServer) : L[Len(L) - Len(toServer) + j] = toServer[j].cmd

Flows(q, L) ==
    /\ q \in Seq(ReplyTo) /\ L \in Seq(Due)
    /\ Reads(fromServer, q)
    /\ \A i \in 1 .. Len(q) :
          \/ i <= Len(L) /\ Fits(q[i], L[i])
          \/ i = Len(q) /\ ~serverUp /\ q[i] = Farewell
    /\ IF serverUp THEN Coming(Len(q), L) ELSE transfer = 0

FtTypes ==
    /\ call \in Calls
    /\ fromServer \in Seq(Lines)
    /\ toServer \in Seq([cmd : Commands, sock : Nat])
    /\ serverUp \in BOOLEAN /\ outOfStep \in BOOLEAN /\ early \in BOOLEAN
    /\ closedTwice \in BOOLEAN /\ ctrlOpen \in BOOLEAN

LEMMA AnswersTyped ==
    /\ DOMAIN Answers = {"USER", "PASS", "ACCT", "TYPE", "CWD", "PASV", "PORT", "QUIT", "simple"}
    /\ \A c \in DOMAIN Answers : Answers[c] \subseteq Nat \ {0, 421}
<1>1. DOMAIN Answers = {"USER", "PASS", "ACCT", "TYPE", "CWD", "PASV", "PORT", "QUIT", "simple"}
  BY DEF Answers
<1>2. /\ Answers["USER"] = {230, 331, 332, 530} /\ Answers["PASS"] = {230, 332, 530}
      /\ Answers["ACCT"] = {230, 530} /\ Answers["TYPE"] = {200, 504}
      /\ Answers["CWD"] = {250, 550} /\ Answers["PASV"] = {227, 502}
      /\ Answers["PORT"] = {200, 500} /\ Answers["QUIT"] = {221}
      /\ Answers["simple"] = {250, 450, 550}
  BY DEF Answers
<1>3. QED
  BY <1>1, <1>2

LEMMA SaidTyped ==
    ASSUME NEW d \in Due, call \in Calls
    PROVE  Said(d) \subseteq Nat \ {0} /\ Meant(d) \in Askers /\ 421 \notin Said(d)
<1>1. Said(d) \subseteq Nat \ {0, 421}
  <2>1. CASE d \in DOMAIN Answers
    BY <2>1, AnswersTyped DEF Said
  <2>2. CASE d \in {"ready", "greeting", "begun", "final", "transfer"}
    <3>1. "simple" \in DOMAIN Answers
      BY AnswersTyped
    <3>2. Answers.simple \subseteq Nat \ {0, 421}
      BY <3>1, AnswersTyped
    <3>3. QED
      BY <2>2, <3>2 DEF Said
  <2>3. QED
    BY <2>1, <2>2 DEF Due, Commands
<1>2. Meant(d) \in Askers
  BY DEF Meant, Due, Commands, Askers
<1>3. QED
  BY <1>1, <1>2

LEMMA FlowsSame ==
    ASSUME NEW q, NEW L, Flows(q, L),
           UNCHANGED <<call, fromServer, serverUp, transfer, toServer>>
    PROVE  Flows(q, L)'
BY DEF Flows, Coming, Fits, Said

\* The client sends a command.
LEMMA FlowsSend ==
    ASSUME NEW q, NEW L, Flows(q, L), NEW c \in Commands, NEW k \in Nat,
           toServer \in Seq([cmd : Commands, sock : Nat]),
           toServer' = Append(toServer, [cmd |-> c, sock |-> k]),
           UNCHANGED <<call, fromServer, serverUp, transfer>>
    PROVE  Flows(q, Append(L, c))'
<1> DEFINE M == Append(L, c)
<1>1. /\ q \in Seq(ReplyTo) /\ L \in Seq(Due) /\ Len(q) \in Nat /\ Len(L) \in Nat
      /\ c \in Due
  BY DEF Flows, Due
<1>2. /\ M \in Seq(Due) /\ Len(M) = Len(L) + 1 /\ M[Len(L) + 1] = c
      /\ \A i \in 1 .. Len(L) : M[i] = L[i]
  BY <1>1
<1>3. /\ Len(toServer') = Len(toServer) + 1 /\ Len(toServer) \in Nat
      /\ toServer'[Len(toServer) + 1].cmd = c
      /\ \A j \in 1 .. Len(toServer) : toServer'[j] = toServer[j]
  OBVIOUS
<1> HIDE DEF M
<1>4. \A i \in 1 .. Len(q) :
          \/ i <= Len(M) /\ Fits(q[i], M[i])'
          \/ i = Len(q) /\ ~serverUp' /\ q[i] = Farewell
  <2>1. SUFFICES ASSUME NEW i \in 1 .. Len(q), i <= Len(L) /\ Fits(q[i], L[i])
                 PROVE  i <= Len(M) /\ Fits(q[i], M[i])'
    BY DEF Flows
  <2>2. i <= Len(M) /\ M[i] = L[i]
    BY <2>1, <1>1, <1>2
  <2>3. Fits(q[i], L[i])'
    BY <2>1 DEF Fits, Said
  <2>4. QED
    BY <2>2, <2>3
<1>5. ASSUME serverUp PROVE Coming(Len(q), M)'
  <2>1. /\ \/ transfer = 0 /\ Len(L) = Len(q) + Len(toServer)
           \/ transfer # 0 /\ Len(L) = Len(q) + 1 + Len(toServer) /\ L[Len(q) + 1] = "final"
        /\ \A j \in 1 .. Len(toServer) : L[Len(L) - Len(toServer) + j] = toServer[j].cmd
    BY <1>5 DEF Flows, Coming
  <2>2. Len(toServer) <= Len(L)
    BY <2>1, <1>1, <1>3
  <2>3. \/ transfer' = 0 /\ Len(M) = Len(q) + Len(toServer')
        \/ transfer' # 0 /\ Len(M) = Len(q) + 1 + Len(toServer') /\ M[Len(q) + 1] = "final"
    <3>1. CASE transfer = 0
      BY <3>1, <2>1, <1>1, <1>2, <1>3
    <3>2. CASE transfer # 0
      <4>1. Len(q) + 1 \in 1 .. Len(L)
        BY <3>2, <2>1, <1>1, <1>3
      <4>2. M[Len(q) + 1] = "final"
        BY <4>1, <3>2, <2>1, <1>2
      <4>3. Len(M) = Len(q) + 1 + Len(toServer')
        <5>1. Len(L) = Len(q) + 1 + Len(toServer)
          BY <3>2, <2>1
        <5>2. QED
          BY <5>1, <1>1, <1>2, <1>3
      <4>4. QED
        BY <3>2, <4>2, <4>3
    <3>3. QED
      BY <3>1, <3>2
  <2>4. ASSUME NEW j \in 1 .. Len(toServer') PROVE M[Len(M) - Len(toServer') + j] = toServer'[j].cmd
    <3>1. CASE j \in 1 .. Len(toServer)
      <4>1. Len(M) - Len(toServer') + j = Len(L) - Len(toServer) + j /\ Len(L) - Len(toServer) + j \in 1 .. Len(L)
        BY <3>1, <2>2, <1>1, <1>2, <1>3
      <4>2. L[Len(L) - Len(toServer) + j] = toServer[j].cmd
        BY <3>1, <2>1
      <4>3. PICK m \in 1 .. Len(L) : m = Len(L) - Len(toServer) + j
        BY <4>1
      <4>4. M[m] = L[m] /\ toServer'[j] = toServer[j]
        BY <3>1, <1>2, <1>3
      <4>5. QED
        BY <4>1, <4>2, <4>3, <4>4
    <3>2. CASE j = Len(toServer) + 1
      <4>1. Len(M) - Len(toServer') + j = Len(L) + 1
        BY <3>2, <1>1, <1>2, <1>3
      <4>2. QED
        BY <4>1, <3>2, <1>2, <1>3
    <3>3. QED
      BY <3>1, <3>2, <1>3
  <2>5. QED
    BY <2>3, <2>4 DEF Coming
<1>6. Flows(q, M)'
  BY <1>1, <1>2, <1>4, <1>5 DEF Flows
<1>7. QED
  BY <1>6 DEF M

\* The next that is due, and what comes after it.
NextDue(q, L, d) == Len(q) < Len(L) /\ L[Len(q) + 1] = d
AfterNext(q, L) == Coming(Len(q) + 1, L)

\* The server puts a reply.
LEMMA FlowsPut ==
    ASSUME NEW q, NEW L, Flows(q, L), fromServer \in Seq(Lines), call \in Calls, serverUp,
           NEW code \in Nat \ {0}, NEW to \in Askers, Puts(code, to),
           \/ \E d : NextDue(q, L, d) /\ Fits([code |-> code, to |-> to], d)
           \/ ~serverUp' /\ code = 421 /\ to = "any",
           call' = call,
           serverUp' => AfterNext(q, L)', ~serverUp' => transfer' = 0
    PROVE  /\ Flows(Append(q, [code |-> code, to |-> to]), L)'
           /\ fromServer' \in Seq(Lines)
<1> DEFINE e == [code |-> code, to |-> to]
           k == Append(q, e)
<1>1. PICK r \in Replies(code, to) : fromServer' = fromServer \o r
  BY DEF Puts
<1>2. q \in Seq(ReplyTo) /\ L \in Seq(Due) /\ Reads(fromServer, q) /\ Len(q) \in Nat
  BY DEF Flows
<1>3. /\ fromServer' \in Seq(Lines) /\ k \in Seq(ReplyTo) /\ Reads(fromServer', k)
  BY <1>1, <1>2, ReadsMore
<1>4. /\ Len(k) = Len(q) + 1 /\ k[Len(q) + 1] = e
      /\ \A i \in 1 .. Len(q) : k[i] = q[i]
  BY <1>2
<1>5. \A i \in 1 .. Len(q) : i <= Len(L) /\ Fits(q[i], L[i])'
  BY DEF Flows, Fits, Said
<1>6. (Len(q) < Len(L) /\ Fits(e, L[Len(q) + 1])') \/ (~serverUp' /\ e = Farewell)
  BY DEF Fits, Said, Farewell, NextDue
<1>a. IF serverUp' THEN Coming(Len(k), L)' ELSE transfer' = 0
  BY <1>4 DEF AfterNext
<1> HIDE DEF k, e
<1>7. \A i \in 1 .. Len(k) :
          \/ i <= Len(L) /\ Fits(k[i], L[i])'
          \/ i = Len(k) /\ ~serverUp' /\ k[i] = Farewell
  <2>1. Len(L) \in Nat
    BY <1>2
  <2>2. \A i \in 1 .. Len(k) : i \in 1 .. Len(q) \/ i = Len(q) + 1
    BY <1>2, <1>4
  <2>3. QED
    BY <2>1, <2>2, <1>2, <1>4, <1>5, <1>6
<1>8. Flows(k, L)'
  BY <1>2, <1>3, <1>7, <1>a DEF Flows
<1>9. QED
  BY <1>3, <1>8 DEF k, e

\* The server takes the next command, and its answer is the next that is due.
LEMMA FlowsTakes ==
    ASSUME NEW q, NEW L, Flows(q, L), toServer \in Seq([cmd : Commands, sock : Nat]),
           Takes
    PROVE  /\ NextDue(q, L, Head(toServer).cmd)
           /\ transfer' = 0 => AfterNext(q, L)'
           /\ toServer' \in Seq([cmd : Commands, sock : Nat])
<1>1. Len(q) \in Nat /\ Len(L) \in Nat /\ Len(toServer) \in Nat /\ Len(toServer) >= 1
  BY DEF Flows, Takes
<1>2. /\ toServer' = Tail(toServer) /\ Len(toServer') = Len(toServer) - 1
      /\ \A j \in 1 .. Len(toServer') : toServer'[j] = toServer[j + 1]
      /\ toServer' \in Seq([cmd : Commands, sock : Nat])
      /\ Head(toServer) = toServer[1]
  BY <1>1 DEF Takes
<1>3. /\ Len(L) = Len(q) + Len(toServer)
      /\ \A j \in 1 .. Len(toServer) : L[Len(L) - Len(toServer) + j] = toServer[j].cmd
  BY DEF Flows, Coming, Takes
<1>4. Len(q) < Len(L) /\ L[Len(q) + 1] = Head(toServer).cmd
  <2>1. Len(L) - Len(toServer) + 1 = Len(q) + 1 /\ 1 \in 1 .. Len(toServer)
    BY <1>1, <1>3
  <2>2. QED
    BY <2>1, <1>1, <1>2, <1>3
<1>5. ASSUME NEW j \in 1 .. Len(toServer')
      PROVE  L[Len(L) - Len(toServer') + j] = toServer'[j].cmd
  <2>1. j + 1 \in 1 .. Len(toServer) /\ Len(L) - Len(toServer') + j = Len(L) - Len(toServer) + (j + 1)
    BY <1>1, <1>2
  <2>2. QED
    BY <2>1, <1>2, <1>3
<1>6. Len(L) = Len(q) + 1 + Len(toServer')
  BY <1>1, <1>2, <1>3
<1>7. transfer' = 0 => Coming(Len(q) + 1, L)'
  BY <1>5, <1>6 DEF Coming
<1>8. QED
  BY <1>2, <1>4, <1>7 DEF NextDue, AfterNext

\* A transfer ends.
LEMMA FlowsEnds ==
    ASSUME NEW q, NEW L, Flows(q, L), toServer \in Seq([cmd : Commands, sock : Nat]),
           serverUp, transfer # 0, transfer' = 0, toServer' = toServer
    PROVE  NextDue(q, L, "final") /\ AfterNext(q, L)'
<1>1. Len(q) \in Nat /\ Len(L) \in Nat /\ Len(toServer) \in Nat
  BY DEF Flows
<1>2. /\ Len(L) = Len(q) + 1 + Len(toServer) /\ L[Len(q) + 1] = "final"
      /\ \A j \in 1 .. Len(toServer) : L[Len(L) - Len(toServer) + j] = toServer[j].cmd
  BY DEF Flows, Coming
<1>3. Len(q) < Len(L)
  BY <1>1, <1>2
<1>4. QED
  BY <1>2, <1>3 DEF Coming, NextDue, AfterNext

\* It begins: its command is the last thing due, and now owes two replies.
LEMMA FlowsBegin ==
    ASSUME NEW q, NEW K, Flows(q, Append(K, "transfer")), K \in Seq(Due),
           \A i \in 1 .. Len(K) : K[i] # "transfer",
           fromServer \in Seq(Lines), call \in Calls,
           toServer \in Seq([cmd : Commands, sock : Nat]),
           Takes, Head(toServer).cmd = "transfer", Puts(150, "transfer"),
           transfer' # 0, UNCHANGED <<call, serverUp>>
    PROVE  /\ Len(q) = Len(K)
           /\ Flows(Append(q, [code |-> 150, to |-> "transfer"]), Append(Append(K, "begun"), "final"))'
           /\ fromServer' \in Seq(Lines) /\ toServer' \in Seq([cmd : Commands, sock : Nat])
<1> DEFINE L == Append(K, "transfer")
           M == Append(Append(K, "begun"), "final")
<1>1. /\ Len(q) \in Nat /\ Len(K) \in Nat /\ Len(toServer) \in Nat /\ Len(toServer) >= 1
      /\ q \in Seq(ReplyTo)
  BY DEF Flows, Takes
<1>2. /\ L \in Seq(Due) /\ Len(L) = Len(K) + 1 /\ L[Len(K) + 1] = "transfer"
      /\ \A i \in 1 .. Len(K) : L[i] = K[i]
  BY DEF Due, Commands
<1>3. /\ M \in Seq(Due) /\ Len(M) = Len(K) + 2 /\ M[Len(K) + 1] = "begun" /\ M[Len(K) + 2] = "final"
      /\ \A i \in 1 .. Len(K) : M[i] = K[i]
  <2>1. "begun" \in Due /\ "final" \in Due
    BY DEF Due
  <2>2. QED
    BY <2>1, <1>1
<1>4. /\ toServer' = Tail(toServer) /\ Len(toServer') = Len(toServer) - 1
      /\ toServer' \in Seq([cmd : Commands, sock : Nat])
      /\ Head(toServer) = toServer[1]
  BY <1>1 DEF Takes
<1> HIDE DEF L, M
<1>5. /\ Len(L) = Len(q) + Len(toServer)
      /\ \A j \in 1 .. Len(toServer) : L[Len(L) - Len(toServer) + j] = toServer[j].cmd
  <2>1. Flows(q, L)
    BY DEF L
  <2>2. QED
    BY <2>1 DEF Flows, Coming, Takes
<1>6. Len(q) = Len(K) /\ Len(toServer) = 1
  <2>1. L[Len(q) + 1] = "transfer" /\ Len(q) + 1 \in 1 .. Len(L)
    <3>1. Len(L) - Len(toServer) + 1 = Len(q) + 1 /\ 1 \in 1 .. Len(toServer) /\ Len(q) + 1 \in 1 .. Len(L)
      BY <1>1, <1>5
    <3>2. QED
      BY <3>1, <1>4, <1>5
  <2>2. ~(Len(q) + 1 \in 1 .. Len(K))
    BY <2>1, <1>2
  <2>3. Len(q) + 1 = Len(K) + 1
    BY <2>1, <2>2, <1>1, <1>2
  <2>4. Len(L) = Len(q) + Len(toServer) /\ Len(L) = Len(K) + 1
    BY <1>2, <1>5
  <2>5. Len(q) \in Nat /\ Len(K) \in Nat /\ Len(toServer) \in Nat
    BY <1>1
  <2>6. Len(q) + Len(toServer) = Len(K) + 1
    BY <2>4
  <2>7. \A a, b, c \in Nat : a + 1 = b + 1 /\ a + c = b + 1 => a = b /\ c = 1
    OBVIOUS
  <2>8. QED
    BY ONLY <2>3, <2>5, <2>6, <2>7
<1>7. Len(toServer') = 0
  BY <1>4, <1>6
<1> DEFINE e == [code |-> 150, to |-> "transfer"]
           k == Append(q, e)
<1>8. PICK r \in Replies(150, "transfer") : fromServer' = fromServer \o r
  BY DEF Puts
<1>9. fromServer' \in Seq(Lines) /\ k \in Seq(ReplyTo) /\ Reads(fromServer', k)
  <2>1. Reads(fromServer, q) /\ 150 \in Nat \ {0} /\ "transfer" \in Askers
    BY DEF Flows, Askers, Commands
  <2>2. QED
    BY <2>1, <1>1, <1>8, ReadsMore
<1>10. Len(k) = Len(q) + 1 /\ k[Len(q) + 1] = e /\ \A i \in 1 .. Len(q) : k[i] = q[i]
  BY <1>1
<1>11. \A i \in 1 .. Len(q) : Fits(q[i], L[i])'
  <2>1. Flows(q, L)
    BY DEF L
  <2>2. QED
    BY <2>1 DEF Flows, Fits, Said, Takes
<1>12. Fits(e, "begun")'
  BY DEF Fits, Said, Meant
<1> HIDE DEF k, e
<1>13. \A i \in 1 .. Len(k) : i <= Len(M) /\ Fits(k[i], M[i])'
  <2>1. \A i \in 1 .. Len(k) : i \in 1 .. Len(q) \/ i = Len(q) + 1
    BY <1>1, <1>10
  <2>2. ASSUME NEW i \in 1 .. Len(q) PROVE i <= Len(M) /\ Fits(k[i], M[i])'
    <3>1. i \in 1 .. Len(K) /\ M[i] = L[i] /\ k[i] = q[i]
      BY <1>2, <1>3, <1>6, <1>10
    <3>2. QED
      BY <3>1, <1>1, <1>3, <1>11
  <2>3. Len(q) + 1 <= Len(M) /\ Fits(k[Len(q) + 1], M[Len(q) + 1])'
    BY <1>1, <1>3, <1>6, <1>10, <1>12
  <2>4. QED
    BY <2>1, <2>2, <2>3
<1>14. Coming(Len(k), M)'
  <2>1. Len(M) = Len(k) + 1 /\ Len(k) + 1 = Len(K) + 2
    BY <1>1, <1>3, <1>6, <1>10
  <2>2. M[Len(k) + 1] = "final" /\ Len(M) = Len(k) + 1 + Len(toServer')
    BY <2>1, <1>1, <1>3, <1>7
  <2>3. 1 .. Len(toServer') = {}
    BY <1>7
  <2>4. QED
    BY <2>2, <2>3 DEF Coming
<1>15. Flows(k, M)'
  BY <1>3, <1>9, <1>13, <1>14 DEF Flows, Takes
<1>16. QED
  BY <1>4, <1>6, <1>9, <1>15 DEF k, e, M

\* A reply is read: the first of those that are due, or the farewell.
LEMMA FlowsRead ==
    ASSUME NEW q, NEW L, Flows(q, L), q # <<>>, L # <<>>,
           fromServer \in Seq(Lines),
           fromServer' = SubSeq(fromServer, LastLine(fromServer) + 1, Len(fromServer)),
           UNCHANGED <<call, serverUp, transfer, toServer>>
    PROVE  /\ q[1] \in ReplyTo
           /\ origCode(fromServer) = q[1].code /\ fromServer[LastLine(fromServer)].to = q[1].to
           /\ Fits(q[1], L[1]) \/ (~serverUp /\ q[1] = Farewell)
           /\ fromServer' \in Seq(Lines)
           /\ Flows(Tail(q), Tail(L))'
<1> DEFINE k == Tail(q)
           M == Tail(L)
<1>1. /\ q \in Seq(ReplyTo) /\ L \in Seq(Due) /\ Reads(fromServer, q)
      /\ Len(q) \in Nat /\ Len(L) \in Nat /\ Len(q) >= 1 /\ Len(L) >= 1
      /\ Len(toServer) \in Nat \/ ~serverUp
  BY DEF Flows
<1>2. /\ origCode(fromServer) = q[1].code /\ fromServer[LastLine(fromServer)].to = q[1].to
      /\ fromServer' \in Seq(Lines) /\ k \in Seq(ReplyTo) /\ Reads(fromServer', k)
  BY <1>1, ReadsFirst
<1>3. /\ Len(k) = Len(q) - 1 /\ Len(M) = Len(L) - 1 /\ M \in Seq(Due)
      /\ \A i \in 1 .. Len(k) : k[i] = q[i + 1]
      /\ \A i \in 1 .. Len(M) : M[i] = L[i + 1]
  BY <1>1
<1> HIDE DEF k, M
<1>4. 1 \in 1 .. Len(q) /\ q[1] \in ReplyTo
  BY <1>1
<1>5. \A i \in 1 .. Len(q) :
          \/ i <= Len(L) /\ Fits(q[i], L[i])
          \/ i = Len(q) /\ ~serverUp /\ q[i] = Farewell
  BY DEF Flows
<1>6. \A i \in 1 .. Len(k) :
          \/ i <= Len(M) /\ Fits(k[i], M[i])'
          \/ i = Len(k) /\ ~serverUp' /\ k[i] = Farewell
  <2>1. SUFFICES ASSUME NEW i \in 1 .. Len(k)
                 PROVE  \/ i <= Len(M) /\ Fits(k[i], M[i])
                        \/ i = Len(k) /\ ~serverUp /\ k[i] = Farewell
    BY DEF Fits, Said
  <2>2. i + 1 \in 1 .. Len(q) /\ k[i] = q[i + 1] /\ i \in Nat
    BY <1>1, <1>3
  <2>3. CASE i + 1 <= Len(L) /\ Fits(q[i + 1], L[i + 1])
    <3>1. i <= Len(M) /\ i \in 1 .. Len(M)
      BY <2>2, <2>3, <1>1, <1>3
    <3>2. M[i] = L[i + 1]
      BY <3>1, <1>3
    <3>3. QED
      BY <3>1, <3>2, <2>2, <2>3
  <2>4. CASE i + 1 = Len(q) /\ ~serverUp /\ q[i + 1] = Farewell
    <3>1. i = Len(k)
      BY <2>2, <2>4, <1>1, <1>3
    <3>2. QED
      BY <3>1, <2>2, <2>4
  <2>5. QED
    BY <2>2, <2>3, <2>4, <1>5
<1>7. ASSUME serverUp PROVE Coming(Len(k), M)'
  <2>1. /\ \/ transfer = 0 /\ Len(L) = Len(q) + Len(toServer)
           \/ transfer # 0 /\ Len(L) = Len(q) + 1 + Len(toServer) /\ L[Len(q) + 1] = "final"
        /\ \A j \in 1 .. Len(toServer) : L[Len(L) - Len(toServer) + j] = toServer[j].cmd
        /\ Len(toServer) \in Nat
    BY <1>1, <1>7 DEF Flows, Coming
  <2>2. \/ transfer = 0 /\ Len(M) = Len(k) + Len(toServer)
        \/ transfer # 0 /\ Len(M) = Len(k) + 1 + Len(toServer) /\ M[Len(k) + 1] = "final"
    <3>1. CASE transfer = 0
      <4>1. Len(L) = Len(q) + Len(toServer)
        BY <3>1, <2>1
      <4>2. QED
        BY <3>1, <4>1, <2>1, <1>1, <1>3
    <3>2. CASE transfer # 0
      <4>1. Len(L) = Len(q) + 1 + Len(toServer) /\ L[Len(q) + 1] = "final" /\ Len(toServer) \in Nat
        BY <3>2, <2>1
      <4>2. Len(M) = Len(k) + 1 + Len(toServer) /\ Len(k) + 1 \in 1 .. Len(M) /\ (Len(k) + 1) + 1 = Len(q) + 1
        BY <4>1, <1>1, <1>3
      <4>3. M[Len(k) + 1] = "final"
        BY <4>1, <4>2, <1>3
      <4>4. QED
        BY <3>2, <4>2, <4>3
    <3>3. QED
      BY <3>1, <3>2
  <2>3. ASSUME NEW j \in 1 .. Len(toServer) PROVE M[Len(M) - Len(toServer) + j] = toServer[j].cmd
    <3>0. Len(L) >= 1 + Len(toServer)
      BY <2>1, <1>1
    <3>1. /\ Len(M) - Len(toServer) + j \in 1 .. Len(M)
          /\ (Len(M) - Len(toServer) + j) + 1 = Len(L) - Len(toServer) + j
      BY <3>0, <2>1, <1>1, <1>3
    <3>2. QED
      BY <3>1, <2>1, <1>3
  <2>4. QED
    BY <2>2, <2>3 DEF Coming
<1>8. ~serverUp => transfer = 0
  BY DEF Flows
<1>9. Flows(k, M)'
  BY <1>2, <1>3, <1>6, <1>7, <1>8 DEF Flows
<1>10. Fits(q[1], L[1]) \/ (~serverUp /\ q[1] = Farewell)
  BY <1>4, <1>5
<1>11. QED
  BY <1>2, <1>4, <1>9, <1>10 DEF k, M

\* The connection has ended, and nothing more comes.
LEMMA FlowsNothing ==
    ASSUME NEW q, NEW L, Flows(q, L), ~serverUp, fromServer = <<>> \/ q = <<>>,
           UNCHANGED <<call, fromServer, serverUp, transfer, toServer>>,
           fromServer \in Seq(Lines), NEW M \in Seq(Due)
    PROVE  Flows(<<>>, M)'
<1>1. fromServer = <<>>
  BY ReadsNone DEF Flows
<1>2. Reads(fromServer', <<>>) /\ <<>> \in Seq(ReplyTo)
  BY <1>1, ReadsNothing
<1>3. QED
  BY <1>2 DEF Flows

\* What ftpReplyGet finds: the first of the replies that are due, the farewell
\* of a server that is gone, or neither, and then it is gone as well.
LEMMA Heard ==
    ASSUME FtTypes, NEW q, NEW L, Flows(q, L), ftAt = "reply" => L # <<>>,
           ftAt = "unsent" => ~serverUp,
           NEW cmd, NEW code, ftpReplyGet(cmd, code)
    PROVE  /\ UNCHANGED <<toServer, serverUp, transfer, call>> /\ ftCmd = cmd
           /\ fromServer' \in Seq(Lines) /\ outOfStep' \in BOOLEAN
           /\ \/ /\ ftAt = "reply" /\ q # <<>> /\ code = q[1].code /\ code \in Nat
                 /\ Fits(q[1], L[1]) \/ (~serverUp /\ q[1] = Farewell)
                 /\ outOfStep' = (outOfStep \/ q[1].to \notin {Awaited, "any"})
                 /\ Flows(Tail(q), Tail(L))'
              \/ /\ code = ERROR /\ ~serverUp /\ outOfStep' = outOfStep
                 /\ \/ ftAt = "unsent" /\ Flows(q, L)'
                    \/ ftAt = "reply" /\ q = <<>> /\ \A M \in Seq(Due) : Flows(<<>>, M)'
<1>1. q \in Seq(ReplyTo) /\ Reads(fromServer, q) /\ fromServer \in Seq(Lines)
  BY DEF Flows, FtTypes
<1>2. UNCHANGED <<toServer, serverUp, transfer, call>> /\ ftCmd = cmd
  BY DEF ftpReplyGet
<1>3. ASSUME ftAt = "reply", LastLine(fromServer) # 0, code = origCode(fromServer),
             fromServer' = SubSeq(fromServer, LastLine(fromServer) + 1, Len(fromServer)),
             outOfStep' = (outOfStep \/ fromServer[LastLine(fromServer)].to \notin {Awaited, "any"})
      PROVE  /\ fromServer' \in Seq(Lines) /\ outOfStep' \in BOOLEAN
             /\ ftAt = "reply" /\ q # <<>> /\ code = q[1].code /\ code \in Nat
             /\ Fits(q[1], L[1]) \/ (~serverUp /\ q[1] = Farewell)
             /\ outOfStep' = (outOfStep \/ q[1].to \notin {Awaited, "any"})
             /\ Flows(Tail(q), Tail(L))'
  <2>1. q # <<>>
    BY <1>1, <1>3, ReadsNone
  <2>2. /\ q[1] \in ReplyTo
        /\ origCode(fromServer) = q[1].code /\ fromServer[LastLine(fromServer)].to = q[1].to
        /\ Fits(q[1], L[1]) \/ (~serverUp /\ q[1] = Farewell)
        /\ fromServer' \in Seq(Lines)
        /\ Flows(Tail(q), Tail(L))'
    BY <2>1, <1>1, <1>2, <1>3, FlowsRead
  <2>3. code \in Nat /\ outOfStep' \in BOOLEAN
    BY <2>2, <1>3 DEF ReplyTo
  <2>4. QED
    BY <2>1, <2>2, <2>3, <1>3
<1>4. ASSUME (ftAt = "reply" /\ LastLine(fromServer) = 0 /\ ~serverUp) \/ ftAt = "unsent",
             code = ERROR, UNCHANGED <<fromServer, outOfStep>>
      PROVE  /\ fromServer' \in Seq(Lines) /\ outOfStep' \in BOOLEAN
             /\ code = ERROR /\ ~serverUp /\ outOfStep' = outOfStep
             /\ \/ ftAt = "unsent" /\ Flows(q, L)'
                \/ ftAt = "reply" /\ q = <<>> /\ \A M \in Seq(Due) : Flows(<<>>, M)'
  <2>1. fromServer' \in Seq(Lines) /\ outOfStep' \in BOOLEAN /\ ~serverUp
    BY <1>4 DEF FtTypes
  <2>2. CASE ftAt = "unsent"
    BY <2>1, <2>2, <1>2, <1>4, FlowsSame
  <2>3. CASE ftAt = "reply" /\ LastLine(fromServer) = 0
    <3>1. q = <<>>
      <4>1. SUFFICES ASSUME q # <<>> PROVE FALSE
        OBVIOUS
      <4>2. LastLine(fromServer) \in 1 .. Len(fromServer)
        BY <4>1, <1>1, ReadsFirst
      <4>3. QED
        BY <4>2, <2>3, <1>1
    <3>2. \A M \in Seq(Due) : Flows(<<>>, M)'
      BY <3>1, <2>1, <1>1, <1>2, <1>4, FlowsNothing
    <3>3. QED
      BY <3>1, <3>2, <2>1, <2>3, <1>4
  <2>4. QED
    BY <2>2, <2>3, <1>4
<1>5. QED
  BY <1>2, <1>3, <1>4 DEF ftpReplyGet

-----------------------------------------------------------------------------
(* Where ftpXfer is, and what is due then.                                 *)

Talking == ftAt \in {"send", "unsent", "reply"}

\* Nothing has happened that could bring it out of step.
InStep == ~early /\ orphans = {}

\* In step, it awaits what is due: nothing, the answer to the command that it
\* has sent, or the end of the transfer.
Matched(q, L) ==
    /\ ~outOfStep
    /\ \/ ftAt \in {"start", "send", "unsent", "init"} /\ L = <<>>
       \/ ftAt = "reply" /\ ftCmd \notin {"transfer", "second"} /\ L = <<ftCmd>>
       \/ ftAt = "reply" /\ ftCmd = "transfer" /\ L = <<"transfer">>
       \/ /\ ftAt = "reply" /\ ftCmd = "transfer" /\ L = <<"begun", "final">>
          /\ q # <<>> /\ Fits(q[1], "begun")
          /\ call.data # "none" /\ (dataSockPassive => dataSock \in began)
       \/ ftAt = "reply" /\ ftCmd = "second" /\ L = <<"final">> /\ (q # <<>> \/ ~serverUp)
       \/ ftAt \in {"select", "bottom"} /\ dataSock \in ftOpen /\ L = <<"final">>
       \/ ftAt \in {"select", "bottom"} /\ dataSock \notin ftOpen /\ L = <<>>

\* Out of step, it is one reply behind, and gets no further than to take the
\* answer to PORT for that to the command of the transfer.
Behind(L) ==
    \E p \in Due \ {"transfer", "begun"} :
       /\ p = "final" => orphans # {}
       /\ p = "PORT" => Talking /\ ftCmd = "transfer"
       /\ Talking =>
             /\ ftCmd \in Due \ {"ready", "begun", "final", "QUIT"}
             /\ Meant(p) # ftCmd \/ p = "ready"
             /\ ftCmd = "transfer" => p = "PORT" /\ ~dataSockPassive
       /\ \/ ftAt \in {"send", "unsent", "init"} /\ L = <<p>>
          \/ ftAt = "reply" /\ L = <<p, ftCmd>>
          \/ ftAt = "reply" /\ ftCmd = "transfer" /\ L = <<p, "begun", "final">> /\ call.data # "none"

\* It reads no more.
Ended == ftAt \in {"ok", "error"} \/ (ftAt = "select" /\ dataSock \notin ftOpen)

\* What is due, and how much of it has been put; after the end it is not read.
FtFlow ==
    Ended \/ \E q, L : Flows(q, L) /\ (InStep => Matched(q, L)) /\ (~InStep => Behind(L))

\* The cases in which OK need not mean a transfer (ftpLib.c:552).
Strayed == ~serverUp \/ outOfStep \/ call.data = "none"

\* The sockets: which are open where, and what is known of them.
FtSocks ==
    /\ made \in Nat /\ dataSock \in 0 .. made
    /\ ftListening \subseteq ftOpen
    /\ ftOpen \subseteq 1 .. made
    /\ ftOpen \subseteq orphans \cup {dataSock}
    /\ ftAt \in {"start", "init"} => ftOpen \subseteq orphans
    /\ Talking /\ ftCmd \notin {"PORT", "transfer"} => ftOpen \subseteq orphans
    /\ Talking /\ ftCmd \in {"PORT", "transfer"} => dataSock \in ftOpen
    /\ Talking /\ ftCmd = "transfer" /\ dataSockPassive => dataSock \notin ftListening
    /\ closedTwice => Strayed
    /\ outOfStep => ~InStep

\* What holds where, and of the data socket when ftpXfer is about to return.
FtPlaces ==
    /\ Talking => ftCmd \in Commands \cup {"greeting", "second"}
    /\ Talking /\ ftCmd \in {"greeting", "second"} => ftAt = "reply"
    /\ ftAt = "unsent" => ~serverUp
    /\ ctrlOpen <=> ftAt \notin {"start", "error"}
    /\ ftAt = "select" => ~dataSockPassive /\ (dataSock \in ftOpen \/ Strayed)
    /\ ftAt = "bottom" /\ ftpReply # FTP_TRANSIENT =>
          \/ dataSockPassive /\ dataSock \in ftOpen \cap began
          \/ dataSockPassive /\ dataSock \notin ftOpen /\ Strayed
          \/ ~dataSockPassive /\ dataSock \in ftOpen
    /\ ftAt = "bottom" => InStep
    /\ ftAt = "error" => ftOpen \subseteq orphans
    /\ ftAt = "ok" => /\ ftOpen \subseteq {dataSock}
                      /\ dataSock \in ftOpen \cap began \/ Strayed

\* The inductive invariant.
FtInv == FtTypes /\ FtSocks /\ FtPlaces /\ FtFlow

LEMMA FtInitInv == FtInit => FtInv
<1> SUFFICES ASSUME FtInit PROVE FtInv
  OBVIOUS
<1>1. FtTypes
  <2>1. fromServer \in Seq(Lines) /\ toServer \in Seq([cmd : Commands, sock : Nat])
    BY DEF FtInit
  <2>2. QED
    BY <2>1 DEF FtInit, FtTypes
<1>2. FtSocks
  BY DEF FtInit, FtSocks, Talking
<1>3. FtPlaces
  BY DEF FtInit, FtPlaces, Talking
<1>4. Flows(<<>>, <<>>)
  <2>1. fromServer = <<>> /\ toServer = <<>> /\ serverUp = TRUE /\ transfer = 0
    BY DEF FtInit
  <2>2. Coming(0, <<>>)
    BY <2>1 DEF Coming
  <2>3. QED
    BY <2>1, <2>2, ReadsNothing DEF Flows
<1>5. Matched(<<>>, <<>>) /\ InStep
  BY DEF FtInit, Matched, InStep
<1>6. FtFlow
  BY <1>4, <1>5 DEF FtFlow
<1>7. QED
  BY <1>1, <1>2, <1>3, <1>6 DEF FtInv

LEMMA OneDue ==
    ASSUME NEW p \in Due
    PROVE  /\ <<p>> \in Seq(Due) /\ <<p>> # <<>> /\ <<p>>[1] = p /\ Tail(<<p>>) = <<>>
           /\ Append(<<>>, p) = <<p>>
OBVIOUS

LEMMA TwoDue ==
    ASSUME NEW p \in Due, NEW d \in Due
    PROVE  /\ <<p, d>> \in Seq(Due) /\ <<p, d>> # <<>> /\ <<p, d>>[1] = p /\ Tail(<<p, d>>) = <<d>>
           /\ Append(<<p>>, d) = <<p, d>>
<1>1. <<p, d>> \in Seq(Due) /\ <<p, d>> # <<>> /\ <<p, d>>[1] = p /\ Tail(<<p, d>>) = <<d>>
  OBVIOUS
<1>2. Append(<<p>>, d) = <<p, d>>
  <2> DEFINE s == Append(<<p>>, d)
             t == <<p, d>>
  <2>1. /\ s \in Seq(Due) /\ Len(s) = 2 /\ s[1] = p /\ s[2] = d
        /\ t \in Seq(Due) /\ Len(t) = 2 /\ t[1] = p /\ t[2] = d
    OBVIOUS
  <2> HIDE DEF s, t
  <2>2. \A i \in 1 .. Len(s) : s[i] = t[i]
    <3>1. \A i \in 1 .. 2 : i = 1 \/ i = 2
      OBVIOUS
    <3>2. QED
      BY <2>1, <3>1
  <2>3. s = t
    BY <2>1, <2>2, SeqEqual
  <2>4. QED
    BY <2>3 DEF s, t
<1>3. QED
  BY <1>1, <1>2

LEMMA ThreeDue ==
    ASSUME NEW p \in Due, NEW d \in Due, NEW e \in Due
    PROVE  Append(<<p, d>>, e) = <<p, d, e>>
<1> DEFINE s == Append(<<p, d>>, e)
           t == <<p, d, e>>
<1>1. /\ s \in Seq(Due) /\ Len(s) = 3 /\ s[1] = p /\ s[2] = d /\ s[3] = e
      /\ t \in Seq(Due) /\ Len(t) = 3 /\ t[1] = p /\ t[2] = d /\ t[3] = e
  OBVIOUS
<1> HIDE DEF s, t
<1>2. \A i \in 1 .. Len(s) : s[i] = t[i]
  <2>1. \A i \in 1 .. 3 : i = 1 \/ i = 2 \/ i = 3
    OBVIOUS
  <2>2. QED
    BY <1>1, <2>1
<1>3. s = t
  BY <1>1, <1>2, SeqEqual
<1>4. QED
  BY <1>3 DEF s, t

\* What has been heard: in step, the answer, with nothing more due; behind, a
\* reply to something before, with the answer still due.
HeardInTime(cmd, code) ==
    /\ ~outOfStep'
    /\ \E k : Flows(k, <<>>)'
    /\ code \in Said(cmd) \/ (~serverUp /\ code \in {421, ERROR})

HeardLate(cmd, code) ==
    /\ cmd \in Due \ {"transfer", "begun", "final", "ready", "QUIT"}
    /\ \E p \in Due \ {"transfer", "begun", "PORT"} :
          /\ p = "final" => orphans # {}
          /\ Meant(p) # cmd \/ p = "ready"
          /\ code \in Said(p) \/ (~serverUp /\ code \in {421, ERROR})
          /\ ftAt = "reply" => \E k : Flows(k, <<cmd>>)'
          /\ ftAt = "unsent" => code = ERROR /\ \E k : Flows(k, <<p>>)'

HeardOf(cmd, code) == (InStep => HeardInTime(cmd, code)) /\ (~InStep => HeardLate(cmd, code))

\* Reading the answer to a command other than that of the transfer, in step.
LEMMA HeardInStep ==
    ASSUME FtTypes, NEW q, NEW L, Flows(q, L), Matched(q, L),
           ftAt = "unsent" => ~serverUp,
           NEW cmd \in (Commands \cup {"greeting"}) \ {"transfer"}, NEW code, ftpReplyGet(cmd, code)
    PROVE  HeardInTime(cmd, code)
<1>1. ftCmd = cmd /\ ftAt \in {"reply", "unsent"} /\ cmd # "second" /\ cmd \in Due /\ ~outOfStep
  BY AnswersTyped DEF ftpReplyGet, Commands, Due, Matched
<1>2. (ftAt = "reply" => L = <<cmd>>) /\ (ftAt = "unsent" => L = <<>>)
  BY <1>1 DEF Matched
<1>3. <<>> \in Seq(Due) /\ (ftAt = "reply" => L[1] = cmd /\ Tail(L) = <<>> /\ L # <<>>)
  <2>1. <<cmd>>[1] = cmd /\ Tail(<<cmd>>) = <<>> /\ <<cmd>> # <<>>
    OBVIOUS
  <2>2. <<>> \in Seq(Due)
    OBVIOUS
  <2>3. ASSUME ftAt = "reply" PROVE L[1] = cmd /\ Tail(L) = <<>> /\ L # <<>>
    <3>1. L = <<cmd>>
      BY <1>2, <2>3
    <3>2. QED
      BY ONLY <2>1, <3>1
  <2>4. QED
    BY <2>2, <2>3
<1>4. Awaited = cmd /\ Meant(cmd) = cmd
  BY <1>1, AnswersTyped DEF Awaited, Meant, Commands
<1>5. \/ /\ ftAt = "reply" /\ q # <<>> /\ code = q[1].code
         /\ Fits(q[1], L[1]) \/ (~serverUp /\ q[1] = Farewell)
         /\ outOfStep' = (outOfStep \/ q[1].to \notin {Awaited, "any"})
         /\ Flows(Tail(q), Tail(L))'
      \/ /\ code = ERROR /\ ~serverUp /\ outOfStep' = outOfStep
         /\ \/ ftAt = "unsent" /\ Flows(q, L)'
            \/ ftAt = "reply" /\ q = <<>> /\ \A M \in Seq(Due) : Flows(<<>>, M)'
  BY <1>2, Heard
<1>6. CASE /\ ftAt = "reply" /\ q # <<>> /\ code = q[1].code
           /\ Fits(q[1], L[1]) \/ (~serverUp /\ q[1] = Farewell)
           /\ outOfStep' = (outOfStep \/ q[1].to \notin {Awaited, "any"})
           /\ Flows(Tail(q), Tail(L))'
  <2>1. L[1] = cmd /\ Tail(L) = <<>>
    BY <1>3, <1>6
  <2>2. q[1].to \in {cmd, "any"} /\ (code \in Said(cmd) \/ (~serverUp /\ code = 421))
    BY <2>1, <1>4, <1>6 DEF Fits, Farewell
  <2>3. ~outOfStep'
    BY <2>2, <1>1, <1>4, <1>6
  <2>4. \E k : Flows(k, <<>>)'
    BY <2>1, <1>6
  <2>5. QED
    BY <2>2, <2>3, <2>4, <1>6 DEF HeardInTime
<1>7. CASE /\ code = ERROR /\ ~serverUp /\ outOfStep' = outOfStep
           /\ \/ ftAt = "unsent" /\ Flows(q, L)'
              \/ ftAt = "reply" /\ q = <<>> /\ \A M \in Seq(Due) : Flows(<<>>, M)'
  <2>1. \E k : Flows(k, <<>>)'
    BY <1>2, <1>3, <1>7
  <2>2. QED
    BY <2>1, <1>1, <1>7 DEF HeardInTime
<1>8. QED
  BY <1>5, <1>6, <1>7

\* And behind.
LEMMA HeardBehind ==
    ASSUME FtTypes, NEW q, NEW L, Flows(q, L), Behind(L),
           ftAt = "unsent" => ~serverUp,
           NEW cmd \in (Commands \cup {"greeting"}) \ {"transfer"}, NEW code, ftpReplyGet(cmd, code)
    PROVE  HeardLate(cmd, code)
<1>1. ftCmd = cmd /\ ftAt \in {"reply", "unsent"} /\ Talking
  BY DEF ftpReplyGet, Talking
<1>2. PICK p \in Due \ {"transfer", "begun"} :
         /\ p = "final" => orphans # {}
         /\ p = "PORT" => cmd = "transfer"
         /\ cmd \in Due \ {"ready", "begun", "final", "QUIT"}
         /\ Meant(p) # cmd \/ p = "ready"
         /\ (ftAt = "unsent" /\ L = <<p>>) \/ (ftAt = "reply" /\ L = <<p, cmd>>)
  BY <1>1 DEF Behind
<1>3. p # "PORT" /\ cmd \in Due /\ p \in Due
  BY <1>2
<1>4. ftAt = "reply" => L # <<>> /\ L[1] = p /\ Tail(L) = <<cmd>>
  BY <1>2, <1>3, TwoDue
<1>5. \/ /\ ftAt = "reply" /\ q # <<>> /\ code = q[1].code
         /\ Fits(q[1], L[1]) \/ (~serverUp /\ q[1] = Farewell)
         /\ Flows(Tail(q), Tail(L))'
      \/ /\ code = ERROR /\ ~serverUp
         /\ \/ ftAt = "unsent" /\ Flows(q, L)'
            \/ ftAt = "reply" /\ q = <<>> /\ \A M \in Seq(Due) : Flows(<<>>, M)'
  BY <1>4, Heard
<1>6. code \in Said(p) \/ (~serverUp /\ code \in {421, ERROR})
  BY <1>4, <1>5 DEF Fits, Farewell
<1>7. ftAt = "reply" => \E k : Flows(k, <<cmd>>)'
  BY <1>3, <1>4, <1>5, OneDue
<1>8. ftAt = "unsent" => code = ERROR /\ \E k : Flows(k, <<p>>)'
  BY <1>2, <1>5
<1>9. QED
  BY <1>2, <1>3, <1>6, <1>7, <1>8 DEF HeardLate

-----------------------------------------------------------------------------
(* The steps of the client.                                                *)

LEMMA FtInitStep == FtInv /\ ftpHookup => FtInv'
<1> SUFFICES ASSUME FtInv, ftpHookup PROVE FtInv'
  OBVIOUS
<1>1. FtTypes /\ FtSocks /\ FtPlaces /\ FtFlow /\ ftAt = "start"
  BY DEF FtInv, ftpHookup
<1>2. /\ UNCHANGED <<call, loopState, ftData, toServer, serverUp, reaches, transfer, outOfStep,
                     began, orphans, rounds>>
  BY DEF ftpHookup
<1>3. PICK q, L : Flows(q, L) /\ InStep /\ Matched(q, L) /\ L = <<>>
  BY <1>1 DEF FtFlow, Ended, Matched, Behind
<1>4. ~outOfStep /\ orphans = {} /\ ~early
  BY <1>3 DEF Matched, InStep
<1>5. CASE GivesUp /\ UNCHANGED <<early, fromServer>>
  <2>1. FtTypes'
    BY <1>1, <1>2, <1>5 DEF FtTypes, GivesUp, ftData
  <2>2. FtSocks'
    BY <1>1, <1>2, <1>5 DEF FtSocks, GivesUp, Talking, Strayed, InStep, ftData
  <2>3. FtPlaces'
    BY <1>1, <1>2, <1>5 DEF FtSocks, FtPlaces, GivesUp, Talking, ftData
  <2>4. FtFlow'
    BY <1>5 DEF FtFlow, Ended, GivesUp
  <2>5. QED
    BY <2>1, <2>2, <2>3, <2>4 DEF FtInv
<1>6. ASSUME NEW first \in BOOLEAN, NEW r \in Replies(220, "greeting"),
             early' = first,
             fromServer' = (IF first THEN <<Line(120, FALSE, "greeting")>> ELSE <<>>) \o r,
             ftAt' = "reply", ftCmd' = "greeting", ctrlOpen' = TRUE
      PROVE  FtInv'
  <2>g. PICK g : g = [code |-> 220, to |-> "greeting"]
    OBVIOUS
  <2>w. PICK w : w = [code |-> 120, to |-> "greeting"]
    OBVIOUS
  <2>1. /\ 220 \in Nat \ {0} /\ 120 \in Nat \ {0} /\ "greeting" \in Askers
        /\ <<>> \in Seq(Lines) /\ <<>> \in Seq(ReplyTo)
        /\ "greeting" \in Due /\ "ready" \in Due
    BY DEF Askers, Due
  <2>2. serverUp => toServer = <<>> /\ transfer = 0
    <3>1. Len(q) \in Nat /\ Len(toServer) \in Nat /\ Len(<<>>) = 0
      BY <1>1, <1>3 DEF Flows, FtTypes
    <3>2. serverUp => \/ transfer = 0 /\ 0 = Len(q) + Len(toServer)
                      \/ transfer # 0 /\ 0 = Len(q) + 1 + Len(toServer)
      BY <3>1, <1>3 DEF Flows, Coming
    <3>3. serverUp => Len(toServer) = 0 /\ transfer = 0
      BY <3>1, <3>2
    <3>4. QED
      BY <3>3, <1>1 DEF FtTypes
  <2>3. ~serverUp => transfer = 0
    BY <1>3 DEF Flows
  <2>4. \A k \in Seq(ReplyTo), M \in Seq(Due) :
           /\ Reads(fromServer', k) /\ Len(k) = Len(M)
           /\ \A i \in 1 .. Len(k) : Fits(k[i], M[i])'
           => Flows(k, M)'
    <3>1. SUFFICES ASSUME NEW k \in Seq(ReplyTo), NEW M \in Seq(Due),
                          Reads(fromServer', k), Len(k) = Len(M),
                          \A i \in 1 .. Len(k) : Fits(k[i], M[i])'
                   PROVE  Flows(k, M)'
      OBVIOUS
    <3>2. ASSUME serverUp' PROVE Coming(Len(k), M)'
      <4>1. toServer' = <<>> /\ transfer' = 0 /\ Len(toServer') = 0 /\ Len(k) \in Nat
        BY <3>2, <2>2, <1>2
      <4>2. QED
        BY <4>1, <3>1 DEF Coming
    <3>3. Len(k) \in Nat
      OBVIOUS
    <3>4. \A i \in 1 .. Len(k) : i <= Len(M)
      BY <3>1, <3>3
    <3>5. QED
      BY <3>1, <3>2, <3>4, <2>3, <1>2 DEF Flows
  <2>5. CASE first
    <3>1. <<Line(120, FALSE, "greeting")>> \in Replies(120, "greeting")
      BY DEF Replies
    <3>2. PICK s \in Replies(120, "greeting") : s = <<Line(120, FALSE, "greeting")>>
      BY <3>1
    <3>3. s \in Seq(Lines) /\ <<w>> \in Seq(ReplyTo) /\ Reads(s, <<w>>)
      BY <2>w, <2>1, ReadsOne
    <3>4. PICK u \in Seq(ReplyTo) : u = <<w>>
      BY <3>3
    <3>5. fromServer' = s \o r
      BY <1>6, <2>5, <3>2
    <3>6. /\ fromServer' \in Seq(Lines) /\ Append(u, g) \in Seq(ReplyTo)
          /\ Reads(fromServer', Append(u, g))
      <4>1. Reads(s, u) /\ s \in Seq(Lines) /\ r \in Replies(220, "greeting")
        BY <3>3, <3>4, <1>6
      <4>2. /\ s \o r \in Seq(Lines)
            /\ Append(u, [code |-> 220, to |-> "greeting"]) \in Seq(ReplyTo)
            /\ Reads(s \o r, Append(u, [code |-> 220, to |-> "greeting"]))
        BY <4>1, <2>1, ReadsMore
      <4>3. QED
        BY <4>2, <3>5, <2>g
    <3>7. PICK k \in Seq(ReplyTo) : k = Append(u, g)
      BY <3>6
    <3>8. Len(k) = 2 /\ k[1] = w /\ k[2] = g
      BY <3>4, <3>7
    <3>9. PICK M : M = <<"ready", "greeting">>
      OBVIOUS
    <3>10. Len(M) = 2 /\ M[1] = "ready" /\ M[2] = "greeting" /\ M \in Seq(Due)
      BY <3>9, <2>1
    <3>11. Fits(w, "ready")' /\ Fits(g, "greeting")'
      BY <2>g, <2>w DEF Fits, Meant, Said
    <3>12. Flows(k, M)'
      <4>1. \A i \in 1 .. Len(k) : i = 1 \/ i = 2
        BY <3>8
      <4>2. \A i \in 1 .. Len(k) : Fits(k[i], M[i])'
        BY <4>1, <3>8, <3>10, <3>11
      <4>3. Reads(fromServer', k) /\ Len(k) = Len(M)
        BY <3>6, <3>7, <3>8, <3>10
      <4>4. QED
        BY <4>2, <4>3, <3>10, <2>4
    <3>13. ~InStep'
      BY <1>6, <2>5 DEF InStep
    <3>14. Behind(M)'
      BY <1>6, <2>1, <3>9 DEF Behind, Talking, Due
    <3>15. FtFlow'
      BY <3>12, <3>13, <3>14 DEF FtFlow
    <3>16. FtTypes' /\ FtSocks' /\ FtPlaces'
      <4>1. FtTypes'
        BY <1>1, <1>2, <1>6, <3>6 DEF FtTypes, ftData
      <4>2. FtSocks'
        BY <1>1, <1>2, <1>4, <1>6 DEF FtSocks, Talking, Strayed, InStep, ftData
      <4>3. FtPlaces'
        BY <1>1, <1>2, <1>6 DEF FtPlaces, Talking, ftData
      <4>4. QED
        BY <4>1, <4>2, <4>3
    <3>17. QED
      BY <3>15, <3>16 DEF FtInv
  <2>6. CASE ~first
    <3>1. r \in Seq(Lines) /\ <<g>> \in Seq(ReplyTo) /\ Reads(r, <<g>>)
      BY <2>g, <2>1, <1>6, ReadsOne
    <3>2. fromServer' \in Seq(Lines) /\ fromServer' = r
      BY <3>1, <1>6, <2>6
    <3>3. PICK k \in Seq(ReplyTo) : k = <<g>> /\ Reads(fromServer', k)
      BY <3>1, <3>2
    <3>4. Len(k) = 1 /\ k[1] = g
      BY <3>3
    <3>5. PICK M : M = <<"greeting">>
      OBVIOUS
    <3>6. Len(M) = 1 /\ M[1] = "greeting" /\ M \in Seq(Due)
      BY <3>5, <2>1
    <3>7. Fits(g, "greeting")'
      BY <2>g DEF Fits, Meant, Said
    <3>8. Flows(k, M)'
      <4>1. \A i \in 1 .. Len(k) : i = 1
        BY <3>4
      <4>2. QED
        BY <4>1, <3>2, <3>3, <3>4, <3>6, <3>7, <2>4
    <3>9. InStep' /\ Matched(k, M)'
      BY <1>2, <1>4, <1>6, <2>6, <3>5 DEF InStep, Matched
    <3>10. FtFlow'
      BY <3>8, <3>9 DEF FtFlow
    <3>11. FtTypes' /\ FtSocks' /\ FtPlaces'
      <4>1. FtTypes'
        BY <1>1, <1>2, <1>6, <3>2 DEF FtTypes, ftData
      <4>2. FtSocks'
        BY <1>1, <1>2, <1>4, <1>6 DEF FtSocks, Talking, Strayed, InStep, ftData
      <4>3. FtPlaces'
        BY <1>1, <1>2, <1>6 DEF FtPlaces, Talking, ftData
      <4>4. QED
        BY <4>1, <4>2, <4>3
    <3>12. QED
      BY <3>10, <3>11 DEF FtInv
  <2>7. QED
    BY <2>5, <2>6
<1>7. QED
  BY <1>5, <1>6 DEF ftpHookup

LEMMA AnswerHeard ==
    ASSUME FtInv, NEW cmd \in (Commands \cup {"greeting"}) \ {"transfer"}, NEW code, ftpReplyGet(cmd, code)
    PROVE  /\ fromServer' \in Seq(Lines) /\ outOfStep' \in BOOLEAN
           /\ UNCHANGED <<toServer, serverUp, transfer, call>>
           /\ ftCmd = cmd /\ ftAt \in {"reply", "unsent"} /\ Talking
           /\ outOfStep => outOfStep'
           /\ outOfStep' => ~InStep
           /\ HeardOf(cmd, code)
<1>1. FtTypes /\ FtSocks /\ FtPlaces /\ FtFlow
  BY DEF FtInv
<1>2. ftCmd = cmd /\ ftAt \in {"reply", "unsent"} /\ Talking
  BY DEF ftpReplyGet, Talking
<1>3. PICK q, L : Flows(q, L) /\ (InStep => Matched(q, L)) /\ (~InStep => Behind(L))
  BY <1>1, <1>2 DEF FtFlow, Ended
<1>4. ftAt = "unsent" => ~serverUp
  BY <1>1 DEF FtPlaces
<1>5. ftAt = "reply" => L # <<>>
  <2>1. SUFFICES ASSUME ftAt = "reply", L = <<>> PROVE FALSE
    OBVIOUS
  <2>2. \A a : <<a>> # <<>>
    OBVIOUS
  <2>3. \A a, b : <<a, b>> # <<>>
    OBVIOUS
  <2>4. \A a, b, c : <<a, b, c>> # <<>>
    OBVIOUS
  <2>5. QED
    BY <2>1, <2>2, <2>3, <2>4, <1>3 DEF Matched, Behind
<1>6. /\ fromServer' \in Seq(Lines) /\ outOfStep' \in BOOLEAN
      /\ UNCHANGED <<toServer, serverUp, transfer, call>>
      /\ outOfStep => outOfStep'
  BY <1>1, <1>3, <1>4, <1>5, Heard DEF FtTypes
<1>7. InStep => HeardInTime(cmd, code)
  BY <1>1, <1>3, <1>4, HeardInStep
<1>8. ~InStep => HeardLate(cmd, code)
  BY <1>1, <1>3, <1>4, HeardBehind
<1>9. outOfStep' => ~InStep
  BY <1>7 DEF HeardInTime
<1>10. QED
  BY <1>2, <1>6, <1>7, <1>8, <1>9 DEF HeardOf

\* Then the next command is sent.
LEMMA GoesOn ==
    ASSUME NEW cmd \in (Commands \cup {"greeting"}) \ {"transfer", "QUIT"}, NEW code, HeardOf(cmd, code),
           ~InStep => ftAt = "reply",
           UNCHANGED <<early, orphans>>,
           ftAt' = "send", ftCmd' \in Commands \ {cmd}, ~InStep => ftCmd' # "QUIT",
           ~InStep => (cmd = "PORT" <=> ftCmd' = "transfer"),
           ~InStep /\ ftCmd' = "transfer" => ~dataSockPassive'
    PROVE  FtFlow'
<1>1. InStep' = InStep
  BY DEF InStep
<1>2. CASE InStep
  <2>1. PICK k : Flows(k, <<>>)'
    BY <1>2 DEF HeardOf, HeardInTime
  <2>2. Matched(k, <<>>)'
    BY <1>2 DEF Matched, HeardOf, HeardInTime
  <2>3. QED
    BY <1>1, <1>2, <2>1, <2>2 DEF FtFlow
<1>3. CASE ~InStep
  <2>1. PICK k : Flows(k, <<cmd>>)'
    BY <1>3 DEF HeardOf, HeardLate
  <2>2. /\ cmd \in Due \ {"transfer", "begun"} /\ cmd # "final" /\ Meant(cmd) # ftCmd'
        /\ ftCmd' \in Due \ {"ready", "begun", "final", "QUIT"}
    BY <1>3, AnswersTyped DEF HeardOf, HeardLate, Meant, Due, Commands
  <2>3. Behind(<<cmd>>)'
    BY <2>2, <1>3 DEF Behind, Talking
  <2>4. QED
    BY <1>1, <1>3, <2>1, <2>3 DEF FtFlow
<1>4. QED
  BY <1>2, <1>3

\* Or a socket is made next.
LEMMA GoesInit ==
    ASSUME NEW cmd \in (Commands \cup {"greeting"}) \ {"transfer", "QUIT", "PORT"}, NEW code, HeardOf(cmd, code),
           UNCHANGED <<early, orphans>>, ftAt \in {"reply", "unsent"},
           ftAt' = "init"
    PROVE  FtFlow'
<1>1. InStep' = InStep
  BY DEF InStep
<1>2. CASE InStep
  <2>1. PICK k : Flows(k, <<>>)'
    BY <1>2 DEF HeardOf, HeardInTime
  <2>2. Matched(k, <<>>)'
    BY <1>2 DEF Matched, HeardOf, HeardInTime
  <2>3. QED
    BY <1>1, <1>2, <2>1, <2>2 DEF FtFlow
<1>3. CASE ~InStep
  <2>1. PICK p \in Due \ {"transfer", "begun", "PORT"} :
           (p = "final" => orphans # {}) /\ \E k : Flows(k, <<p>>)'
    BY <1>3 DEF HeardOf, HeardLate
  <2>2. Behind(<<p>>)'
    BY <2>1 DEF Behind, Talking
  <2>3. QED
    BY <1>1, <1>3, <2>1, <2>2 DEF FtFlow
<1>4. QED
  BY <1>2, <1>3

LEMMA GreetedStep == FtInv /\ Greeted => FtInv'
<1> SUFFICES ASSUME FtInv, Greeted PROVE FtInv'
  OBVIOUS
<1>1. PICK code : ftpReplyGet("greeting", code)
  BY DEF Greeted
<1>2. ftAt' = "send" /\ ftCmd' = "USER" /\ UNCHANGED ctrlOpen /\ UNCHANGED <<ftData, steady>>
  BY DEF Greeted, Says
<1>3. /\ fromServer' \in Seq(Lines) /\ outOfStep' \in BOOLEAN
      /\ UNCHANGED <<toServer, serverUp, transfer, call>>
      /\ ftCmd = "greeting" /\ ftAt \in {"reply", "unsent"} /\ Talking
      /\ outOfStep => outOfStep'
      /\ outOfStep' => ~InStep
      /\ HeardOf("greeting", code)
  <2>1. "greeting" \in (Commands \cup {"greeting"}) \ {"transfer"}
    OBVIOUS
  <2>2. QED
    BY <1>1, <2>1, AnswerHeard
<1>4. FtTypes /\ FtSocks /\ FtPlaces
  BY DEF FtInv
<1>5. ftAt = "reply"
  BY <1>3, <1>4 DEF FtPlaces
<1>6. FtFlow'
  <2>1. "USER" \in Commands /\ "greeting" \in (Commands \cup {"greeting"}) \ {"transfer", "QUIT"}
    BY AnswersTyped DEF Commands
  <2>2. UNCHANGED <<early, orphans>>
    BY <1>2 DEF steady, ftHistory
  <2>3. QED
    BY <2>1, <2>2, <1>2, <1>3, <1>5, GoesOn
<1>7. FtTypes'
  BY <1>2, <1>3, <1>4 DEF FtTypes, ftData, steady, ftHistory
<1>8. FtSocks'
  BY <1>2, <1>3, <1>4 DEF FtSocks, ftData, steady, loopState, ftHistory, Talking, Strayed, InStep
<1>9. FtPlaces'
  BY <1>2, <1>3, <1>4, AnswersTyped DEF FtPlaces, ftData, steady, loopState, ftHistory, Talking, Commands
<1>10. QED
  BY <1>6, <1>7, <1>8, <1>9 DEF FtInv

\* What an answer leaves alone when it opens and closes nothing.
LEMMA HeardKeeps ==
    ASSUME FtInv, NEW cmd \in (Commands \cup {"greeting"}) \ {"transfer", "PORT"}, NEW code,
           ftpReplyGet(cmd, code), UNCHANGED <<ftData, steady>>,
           \/ ftAt' = "send" /\ ftCmd' \in Commands \ {"transfer", "PORT"} /\ UNCHANGED ctrlOpen
           \/ ftAt' = "init" /\ UNCHANGED <<ftCmd, ctrlOpen>>
           \/ GivesUp
    PROVE  /\ FtTypes' /\ FtSocks' /\ FtPlaces' /\ (GivesUp => FtFlow')
           /\ HeardOf(cmd, code) /\ ftAt \in {"reply", "unsent"}
           /\ UNCHANGED <<early, orphans>>
<1>1. /\ fromServer' \in Seq(Lines) /\ outOfStep' \in BOOLEAN
      /\ UNCHANGED <<toServer, serverUp, transfer, call>>
      /\ ftCmd = cmd /\ ftAt \in {"reply", "unsent"} /\ Talking
      /\ outOfStep => outOfStep'
      /\ outOfStep' => ~InStep
      /\ HeardOf(cmd, code)
  BY AnswerHeard
<1>2. FtTypes /\ FtSocks /\ FtPlaces
  BY DEF FtInv
<1>3. UNCHANGED <<dataSock, ftOpen, ftListening, ftWaiting, made, closedTwice, dataSockPassive,
                  ftpReply, retryCount, reaches, began, orphans, rounds, early>>
  BY DEF ftData, steady, loopState, ftHistory
<1>4. /\ ftOpen \subseteq orphans
      /\ ctrlOpen
  BY <1>1, <1>2 DEF FtSocks, FtPlaces
<1>5. FtTypes'
  BY <1>1, <1>2, <1>3 DEF FtTypes, GivesUp
<1>6. FtSocks'
  BY <1>1, <1>2, <1>3, <1>4 DEF FtSocks, Talking, Strayed, InStep, GivesUp
<1>7. FtPlaces'
  <2>1. CASE ftAt' = "send" /\ ftCmd' \in Commands \ {"transfer", "PORT"} /\ UNCHANGED ctrlOpen
    <3>1. ftCmd' \notin {"greeting", "second"}
      BY <2>1, AnswersTyped DEF Commands
    <3>2. QED
      BY <2>1, <3>1, <1>1, <1>2, <1>3, <1>4 DEF FtPlaces, Talking
  <2>2. CASE ftAt' = "init" /\ UNCHANGED <<ftCmd, ctrlOpen>>
    BY <2>2, <1>1, <1>2, <1>3, <1>4 DEF FtPlaces, Talking
  <2>3. CASE GivesUp
    BY <2>3, <1>1, <1>2, <1>3, <1>4 DEF FtPlaces, Talking, GivesUp
  <2>4. QED
    BY <2>1, <2>2, <2>3
<1>8. GivesUp => FtFlow'
  BY DEF FtFlow, Ended, GivesUp
<1>9. QED
  BY <1>1, <1>3, <1>5, <1>6, <1>7, <1>8

LEMMA DigitOf ==
    /\ Digit(ERROR) = 0
    /\ Digit(150) = 1
    /\ Digit(200) = 2 /\ Digit(250) = 2
    /\ Digit(421) = 4 /\ Digit(425) = 4 /\ Digit(450) = 4
    /\ Digit(500) = 5 /\ Digit(550) = 5
<1>1. \A n, d \in Nat : 100 * d <= n /\ n < 100 * d + 100 => n \div 100 = d
  OBVIOUS
<1>2. \A n \in Nat : Digit(n) = n \div 100
  BY DEF Digit
<1>3. \A n, d \in Nat : 100 * d <= n /\ n < 100 * d + 100 => Digit(n) = d
  BY <1>1, <1>2
<1>4. /\ Digit(150) = 1
      /\ Digit(200) = 2 /\ Digit(250) = 2
      /\ Digit(421) = 4 /\ Digit(425) = 4 /\ Digit(450) = 4
      /\ Digit(500) = 5 /\ Digit(550) = 5
  BY ONLY <1>3
<1>5. Digit(ERROR) = 0
  BY DEF Digit, ERROR
<1>6. QED
  BY <1>4, <1>5

\* An answer that could not be read, or only the farewell, is none.
LEMMA ReplyWasRead ==
    ASSUME NEW cmd, NEW code, HeardOf(cmd, code), ftAt \in {"reply", "unsent"}, code # ERROR
    PROVE  ~InStep => ftAt = "reply"
BY DEF HeardOf, HeardLate

LEMMA ftpLoginStep == FtInv /\ ftpLogin => FtInv'
<1> SUFFICES ASSUME FtInv, ftpLogin PROVE FtInv'
  OBVIOUS
<1>1. PICK cmd \in LoginSteps, code \in Codes :
         /\ ftpReplyGet(cmd, code)
         /\ LET n == Digit(code) IN
            \/ n = FTP_COMPLETE /\ Says("TYPE")
            \/ n = FTP_CONTINUE /\ cmd # "ACCT" /\ Says(AfterStep(cmd))
            \/ n # FTP_COMPLETE /\ (n # FTP_CONTINUE \/ cmd = "ACCT") /\ GivesUp
  BY DEF ftpLogin
<1>2. UNCHANGED <<ftData, steady>>
  BY DEF ftpLogin
<1>3. cmd \in {"USER", "PASS", "ACCT"} /\ cmd \in (Commands \cup {"greeting"}) \ {"transfer", "PORT", "QUIT"}
  BY AnswersTyped DEF LoginSteps, Commands
<1>4. \/ GivesUp
      \/ /\ ftAt' = "send" /\ ftCmd' \in Commands \ {"transfer", "PORT", "QUIT", cmd} /\ UNCHANGED ctrlOpen
         /\ code # ERROR
  <2>1. {"TYPE", "PASS", "ACCT"} \subseteq Commands
    BY AnswersTyped DEF Commands
  <2>2. QED
    BY <1>1, <1>3, <2>1, DigitOf DEF Says, AfterStep, FTP_COMPLETE, FTP_CONTINUE
<1>5. /\ FtTypes' /\ FtSocks' /\ FtPlaces' /\ (GivesUp => FtFlow')
      /\ HeardOf(cmd, code) /\ ftAt \in {"reply", "unsent"}
      /\ UNCHANGED <<early, orphans>>
  BY <1>1, <1>2, <1>3, <1>4, HeardKeeps
<1>6. FtFlow'
  BY <1>3, <1>4, <1>5, ReplyWasRead, GoesOn
<1>7. QED
  BY <1>5, <1>6 DEF FtInv

LEMMA RoundStep ==
    ASSUME Round
    PROVE  \/ ftAt' = "send" /\ ftCmd' = "PASV" /\ UNCHANGED ctrlOpen
           \/ ftAt' = "init" /\ UNCHANGED <<ftCmd, ctrlOpen>>
BY DEF Round, GoesTo, Says

\* TYPE, CWD and the command without data: they fail, or another follows.
LEMMA FollowedStep ==
    ASSUME FtInv, NEW cmd \in {"TYPE", "CWD", "simple"}, NEW code, ftpReplyGet(cmd, code),
           UNCHANGED <<ftData, steady>>,
           \/ GivesUp
           \/ Digit(code) = FTP_COMPLETE /\ Says("CWD") /\ cmd = "TYPE"
           \/ Digit(code) = FTP_COMPLETE /\ Says("simple") /\ cmd # "simple"
           \/ Digit(code) = FTP_COMPLETE /\ Round
    PROVE  FtInv'
<1>1. /\ cmd \in (Commands \cup {"greeting"}) \ {"transfer", "PORT", "QUIT"}
      /\ {"CWD", "simple", "PASV"} \subseteq Commands \ {"transfer", "PORT", "QUIT"}
  BY AnswersTyped DEF Commands
<1>2. \/ GivesUp
      \/ /\ ftAt' = "send" /\ ftCmd' \in Commands \ {"transfer", "PORT", "QUIT", cmd} /\ UNCHANGED ctrlOpen
         /\ code # ERROR
      \/ ftAt' = "init" /\ UNCHANGED <<ftCmd, ctrlOpen>>
  BY <1>1, DigitOf, RoundStep DEF Says, FTP_COMPLETE
<1>3. /\ FtTypes' /\ FtSocks' /\ FtPlaces' /\ (GivesUp => FtFlow')
      /\ HeardOf(cmd, code) /\ ftAt \in {"reply", "unsent"}
      /\ UNCHANGED <<early, orphans>>
  BY <1>1, <1>2, HeardKeeps
<1>4. FtFlow'
  BY <1>1, <1>2, <1>3, ReplyWasRead, GoesOn, GoesInit
<1>5. QED
  BY <1>3, <1>4 DEF FtInv

LEMMA SetUpStep == FtInv /\ (SetUp \/ WithoutData) => FtInv'
<1>1. ASSUME FtInv, SetUp PROVE FtInv'
  <2>1. PICK cmd \in {"TYPE", "CWD"}, code \in Codes :
           /\ ftpReplyGet(cmd, code)
           /\ IF Digit(code) # FTP_COMPLETE THEN GivesUp
              ELSE IF cmd = "TYPE" /\ call.dirname THEN Says("CWD") ELSE Begins
    BY <1>1 DEF SetUp
  <2>2. UNCHANGED <<ftData, steady>>
    BY <1>1 DEF SetUp
  <2>3. \/ GivesUp
        \/ Digit(code) = FTP_COMPLETE /\ Says("CWD") /\ cmd = "TYPE"
        \/ Digit(code) = FTP_COMPLETE /\ Says("simple") /\ cmd # "simple"
        \/ Digit(code) = FTP_COMPLETE /\ Round
    BY <2>1 DEF Begins
  <2>4. QED
    BY <1>1, <2>1, <2>2, <2>3, FollowedStep
<1>2. ASSUME FtInv, WithoutData PROVE FtInv'
  <2>1. PICK code : /\ ftpReplyGet("simple", code)
                    /\ IF Digit(code) # FTP_COMPLETE THEN GivesUp ELSE Round
    BY <1>2 DEF WithoutData
  <2>2. UNCHANGED <<ftData, steady>>
    BY <1>2 DEF WithoutData
  <2>3. QED
    BY <1>2, <2>1, <2>2, FollowedStep
<1>3. QED
  BY <1>1, <1>2

LEMMA QuitStep == FtInv /\ QuitAnswered => FtInv'
<1> SUFFICES ASSUME FtInv, QuitAnswered PROVE FtInv'
  OBVIOUS
<1>1. PICK code : ftpReplyGet("QUIT", code)
  BY DEF QuitAnswered
<1>2. "QUIT" \in (Commands \cup {"greeting"}) \ {"transfer", "PORT"}
  BY AnswersTyped DEF Commands
<1>3. GivesUp /\ UNCHANGED <<ftData, steady>>
  BY DEF QuitAnswered
<1>4. FtTypes' /\ FtSocks' /\ FtPlaces' /\ (GivesUp => FtFlow')
  BY <1>1, <1>2, <1>3, HeardKeeps
<1>5. QED
  BY <1>3, <1>4 DEF FtInv

\* The answer to PASV, or what is taken for it: no other has the code 227.
LEMMA PasvOnly ==
    ASSUME NEW d \in Due, 227 \in Said(d)
    PROVE  d = "PASV"
<1>1. /\ Answers["USER"] = {230, 331, 332, 530} /\ Answers["PASS"] = {230, 332, 530}
      /\ Answers["ACCT"] = {230, 530} /\ Answers["TYPE"] = {200, 504}
      /\ Answers["CWD"] = {250, 550} /\ Answers["PASV"] = {227, 502}
      /\ Answers["PORT"] = {200, 500} /\ Answers["QUIT"] = {221}
      /\ Answers["simple"] = {250, 450, 550}
  BY DEF Answers
<1>2. CASE d \in DOMAIN Answers
  BY <1>1, <1>2, AnswersTyped DEF Said
<1>3. CASE d \in {"ready", "greeting", "begun", "final", "transfer"}
  <2>1. 227 \notin Answers.simple
    BY <1>1
  <2>2. QED
    BY <1>3, <2>1 DEF Said
<1>4. QED
  BY <1>2, <1>3 DEF Due, Commands

LEMMA PasvStep == FtInv /\ ftpDataConnInitPassiveMode => FtInv'
<1> SUFFICES ASSUME FtInv, ftpDataConnInitPassiveMode PROVE FtInv'
  OBVIOUS
<1>1. PICK code :
         /\ ftpReplyGet("PASV", code)
         /\ \/ /\ code = FTP_PASSIVE_REPLY /\ serverUp
               /\ NewSock(FALSE) /\ ftOpen' = ftOpen \cup {made + 1}
               /\ reaches' = made + 1
               /\ dataSockPassive' = TRUE
               /\ Says("transfer")
               /\ UNCHANGED <<ftWaiting, closedTwice>>
            \/ GoesTo("init") /\ UNCHANGED <<ftData, reaches, dataSockPassive>>
  BY DEF ftpDataConnInitPassiveMode
<1>2. UNCHANGED <<ftpReply, retryCount, ftHistory>>
  BY DEF ftpDataConnInitPassiveMode
<1>3. /\ "PASV" \in (Commands \cup {"greeting"}) \ {"transfer", "PORT", "QUIT"}
      /\ "transfer" \in Commands \ {"PASV"}
  BY AnswersTyped DEF Commands
<1>4. CASE GoesTo("init") /\ UNCHANGED <<ftData, reaches, dataSockPassive>>
  <2>1. /\ ftAt' = "init" /\ UNCHANGED <<ftCmd, ctrlOpen>>
        /\ UNCHANGED <<ftData, steady>>
    BY <1>2, <1>4 DEF GoesTo, steady, loopState
  <2>2. /\ FtTypes' /\ FtSocks' /\ FtPlaces'
        /\ HeardOf("PASV", code) /\ ftAt \in {"reply", "unsent"}
        /\ UNCHANGED <<early, orphans>>
    BY <1>1, <1>3, <2>1, HeardKeeps
  <2>3. FtFlow'
    BY <1>3, <2>1, <2>2, GoesInit
  <2>4. QED
    BY <2>2, <2>3 DEF FtInv
<1>5. CASE /\ code = FTP_PASSIVE_REPLY /\ serverUp
           /\ NewSock(FALSE) /\ ftOpen' = ftOpen \cup {made + 1}
           /\ reaches' = made + 1
           /\ dataSockPassive' = TRUE
           /\ Says("transfer")
           /\ UNCHANGED <<ftWaiting, closedTwice>>
  <2>1. /\ fromServer' \in Seq(Lines) /\ outOfStep' \in BOOLEAN
        /\ UNCHANGED <<toServer, serverUp, transfer, call>>
        /\ ftCmd = "PASV" /\ ftAt \in {"reply", "unsent"} /\ Talking
        /\ outOfStep => outOfStep'
        /\ outOfStep' => ~InStep
        /\ HeardOf("PASV", code)
    BY <1>1, <1>3, AnswerHeard
  <2>2. FtTypes /\ FtSocks /\ FtPlaces
    BY DEF FtInv
  <2>3. code = 227 /\ code \notin {421, ERROR}
    BY <1>5 DEF FTP_PASSIVE_REPLY, ERROR
  <2>4. InStep
    <3>1. SUFFICES ASSUME ~InStep PROVE FALSE
      OBVIOUS
    <3>x. HeardLate("PASV", code)
      BY <2>1, <3>1 DEF HeardOf
    <3>y. PICK p \in Due \ {"transfer", "begun", "PORT"} :
             /\ Meant(p) # "PASV" \/ p = "ready"
             /\ code \in Said(p) \/ (~serverUp /\ code \in {421, ERROR})
      BY <3>x DEF HeardLate
    <3>2. p \in Due /\ (Meant(p) # "PASV" \/ p = "ready") /\ 227 \in Said(p)
      BY <2>3, <3>y
    <3>3. p = "PASV"
      BY <3>2, PasvOnly
    <3>4. QED
      BY <3>2, <3>3 DEF Meant
  <2>5. /\ made' = made + 1 /\ dataSock' = made + 1 /\ ftListening' = ftListening
        /\ ftAt' = "send" /\ ftCmd' = "transfer" /\ UNCHANGED ctrlOpen
    BY <1>5 DEF NewSock, Says
  <2>6. UNCHANGED <<began, orphans, rounds, early>> /\ InStep' = InStep
    BY <1>2 DEF ftHistory, InStep
  <2>7. FtTypes'
    BY <2>1, <2>2, <2>5, <2>6, <1>5 DEF FtTypes
  <2>8. ftOpen \subseteq orphans
    BY <2>1, <2>2 DEF FtSocks
  <2>9. FtSocks'
    <3>1. made \in Nat /\ made + 1 \notin 1 .. made
      BY <2>2 DEF FtSocks
    <3>2. /\ made' \in Nat /\ dataSock' \in 0 .. made'
          /\ ftListening' \subseteq ftOpen'
          /\ ftOpen' \subseteq 1 .. made'
          /\ ftOpen' \subseteq orphans' \cup {dataSock'}
          /\ dataSock' \in ftOpen' /\ dataSock' \notin ftListening'
      BY <2>2, <2>5, <2>6, <2>8, <3>1, <1>5 DEF FtSocks
    <3>3. (closedTwice => Strayed)' /\ (outOfStep => ~InStep)'
      BY <2>1, <2>2, <2>6, <1>5 DEF FtSocks, Strayed
    <3>4. QED
      BY <3>2, <3>3, <2>5 DEF FtSocks, Talking
  <2>10. FtPlaces'
    BY <2>1, <2>2, <2>5, <2>6, <1>3 DEF FtPlaces, Talking
  <2>11. FtFlow'
    <3>1. UNCHANGED <<early, orphans>> /\ ftCmd' \in Commands \ {"PASV"}
      BY <2>5, <2>6, <1>3
    <3>2. QED
      BY <3>1, <2>1, <2>4, <2>5, <1>3, GoesOn
  <2>12. QED
    BY <2>7, <2>9, <2>10, <2>11 DEF FtInv
<1>6. QED
  BY <1>1, <1>4, <1>5

LEMMA SockStep == FtInv /\ ftpDataConnInit => FtInv'
<1> SUFFICES ASSUME FtInv, ftpDataConnInit PROVE FtInv'
  OBVIOUS
<1>1. ftAt = "init" /\ UNCHANGED <<call, loopState, ftServer, ftHistory>>
  BY DEF ftpDataConnInit
<1>2. FtTypes /\ FtSocks /\ FtPlaces /\ FtFlow
  BY DEF FtInv
<1>3. /\ UNCHANGED <<dataSockPassive, ftpReply, retryCount, toServer, fromServer, serverUp, reaches,
                     transfer, outOfStep, began, orphans, rounds, early>>
      /\ InStep' = InStep
  BY <1>1 DEF loopState, ftServer, ftHistory, InStep
<1>4. CASE GivesUp /\ UNCHANGED ftData
  <2>1. FtTypes'
    BY <1>1, <1>2, <1>3, <1>4 DEF FtTypes, GivesUp, ftData
  <2>2. FtSocks'
    BY <1>1, <1>2, <1>3, <1>4 DEF FtSocks, GivesUp, ftData, Talking, Strayed
  <2>3. FtPlaces'
    BY <1>1, <1>2, <1>3, <1>4 DEF FtPlaces, FtSocks, GivesUp, ftData, Talking
  <2>4. FtFlow'
    BY <1>4 DEF FtFlow, Ended, GivesUp
  <2>5. QED
    BY <2>1, <2>2, <2>3, <2>4 DEF FtInv
<1>5. CASE /\ NewSock(TRUE) /\ ftOpen' = ftOpen \cup {made + 1}
           /\ Says("PORT")
           /\ UNCHANGED <<ftWaiting, closedTwice>>
  <2>1. /\ made' = made + 1 /\ dataSock' = made + 1
        /\ ftListening' = (ftListening \ {dataSock}) \cup {made + 1}
        /\ ftAt' = "send" /\ ftCmd' = "PORT" /\ UNCHANGED ctrlOpen
    BY <1>5 DEF NewSock, Says
  <2>2. FtTypes'
    BY <1>1, <1>2, <1>3, <1>5, <2>1 DEF FtTypes
  <2>3. FtSocks'
    <3>1. /\ made' \in Nat /\ dataSock' \in 0 .. made'
          /\ ftListening' \subseteq ftOpen'
          /\ ftOpen' \subseteq 1 .. made'
          /\ ftOpen' \subseteq orphans' \cup {dataSock'}
          /\ dataSock' \in ftOpen'
      BY <1>1, <1>2, <1>3, <1>5, <2>1 DEF FtSocks
    <3>2. (closedTwice => Strayed)' /\ (outOfStep => ~InStep)'
      BY <1>1, <1>2, <1>3, <1>5 DEF FtSocks, Strayed
    <3>3. QED
      BY <3>1, <3>2, <2>1 DEF FtSocks, Talking
  <2>4. FtPlaces'
    <3>1. "PORT" \in Commands
      BY AnswersTyped DEF Commands
    <3>2. QED
      BY <3>1, <1>1, <1>2, <1>3, <2>1 DEF FtPlaces, Talking
  <2>5. PICK q, L : Flows(q, L) /\ (InStep => Matched(q, L)) /\ (~InStep => Behind(L))
    BY <1>1, <1>2 DEF FtFlow, Ended
  <2>6. Flows(q, L)'
    BY <2>5, <1>1, <1>3, FlowsSame
  <2>7. InStep => Matched(q, L)'
    BY <2>1, <2>5, <1>1, <1>3 DEF Matched
  <2>8. ~InStep => Behind(L)'
    <3>1. SUFFICES ASSUME ~InStep PROVE Behind(L)'
      OBVIOUS
    <3>2. PICK p \in Due \ {"transfer", "begun"} :
             /\ p = "final" => orphans # {}
             /\ p # "PORT" /\ L = <<p>>
      BY <2>5, <3>1, <1>1 DEF Behind, Talking
    <3>3. Meant(p) # "PORT" /\ "PORT" \in Due \ {"ready", "begun", "final", "QUIT"}
      BY <3>2, AnswersTyped DEF Meant, Due, Commands
    <3>4. QED
      BY <3>2, <3>3, <2>1, <1>3 DEF Behind, Talking
  <2>9. FtFlow'
    BY <2>6, <2>7, <2>8, <1>3 DEF FtFlow
  <2>10. QED
    BY <2>2, <2>3, <2>4, <2>9 DEF FtInv
<1>6. QED
  BY <1>4, <1>5 DEF ftpDataConnInit

LEMMA CommandStep == ASSUME NEW cmd \in Commands, FtInv, ftpCommand(cmd) PROVE FtInv'
<1>1. /\ ftAt = "send" /\ ftCmd = cmd
      /\ UNCHANGED <<call, ftCmd, ctrlOpen, dataSockPassive, ftpReply, retryCount, ftData,
                     fromServer, serverUp, reaches, transfer, outOfStep, began, orphans, early>>
      /\ \/ ftAt' = "reply" /\ toServer' = Append(toServer, [cmd |-> cmd, sock |-> dataSock])
         \/ ~serverUp /\ ftAt' = "unsent" /\ UNCHANGED toServer
  BY DEF ftpCommand
<1>2. FtTypes /\ FtSocks /\ FtPlaces /\ FtFlow /\ Talking
  BY <1>1 DEF FtInv, Talking
<1>3. /\ UNCHANGED <<dataSock, ftOpen, ftListening, ftWaiting, made, closedTwice>>
      /\ InStep' = InStep /\ dataSock \in Nat
  BY <1>1, <1>2 DEF ftData, InStep, FtSocks
<1>4. FtTypes'
  <2>1. [cmd |-> cmd, sock |-> dataSock] \in [cmd : Commands, sock : Nat]
    BY <1>3
  <2>2. toServer \in Seq([cmd : Commands, sock : Nat])
    BY <1>2 DEF FtTypes
  <2>3. Append(toServer, [cmd |-> cmd, sock |-> dataSock]) \in Seq([cmd : Commands, sock : Nat])
    BY <2>1, <2>2, AppendProperties
  <2>4. toServer' \in Seq([cmd : Commands, sock : Nat])
    BY <1>1, <2>2, <2>3
  <2>5. QED
    BY <1>1, <1>2, <1>3, <2>4 DEF FtTypes
<1>5. FtSocks'
  BY <1>1, <1>2, <1>3 DEF FtSocks, Talking, Strayed
<1>6. FtPlaces'
  <2>1. cmd \notin {"greeting", "second"}
    BY AnswersTyped DEF Commands
  <2>2. QED
    BY <2>1, <1>1, <1>2, <1>3 DEF FtPlaces, Talking
<1>7. PICK q, L : Flows(q, L) /\ (InStep => Matched(q, L)) /\ (~InStep => Behind(L))
  BY <1>1, <1>2 DEF FtFlow, Ended
<1>8. CASE ftAt' = "unsent" /\ UNCHANGED toServer
  <2>1. Flows(q, L)'
    BY <1>1, <1>7, <1>8, FlowsSame
  <2>2. InStep => Matched(q, L)'
    BY <1>1, <1>7, <1>8 DEF Matched
  <2>3. ~InStep => Behind(L)'
    BY <1>1, <1>7, <1>8 DEF Behind, Talking
  <2>4. FtFlow'
    BY <2>1, <2>2, <2>3, <1>3 DEF FtFlow
  <2>5. QED
    BY <2>4, <1>4, <1>5, <1>6 DEF FtInv
<1>9. CASE ftAt' = "reply" /\ toServer' = Append(toServer, [cmd |-> cmd, sock |-> dataSock])
  <2>1. Flows(q, Append(L, cmd))'
    BY <1>1, <1>2, <1>3, <1>7, <1>9, FlowsSend DEF FtTypes
  <2>2. CASE InStep
    <3>1. L = <<>> /\ ~outOfStep
      BY <1>1, <1>7, <2>2 DEF Matched
    <3>2. cmd \in Due /\ cmd # "second"
      BY AnswersTyped DEF Due, Commands
    <3>3. Append(L, cmd) = <<cmd>>
      BY <3>1, <3>2, OneDue
    <3>4. Matched(q, <<cmd>>)'
      BY <3>1, <3>2, <1>1, <1>9 DEF Matched
    <3>5. FtFlow'
      BY <2>1, <2>2, <3>3, <3>4, <1>3 DEF FtFlow
    <3>6. QED
      BY <3>5, <1>4, <1>5, <1>6 DEF FtInv
  <2>3. CASE ~InStep
    <3>1. PICK p \in Due \ {"transfer", "begun"} :
             /\ p = "final" => orphans # {}
             /\ p = "PORT" => cmd = "transfer"
             /\ cmd \in Due \ {"ready", "begun", "final", "QUIT"}
             /\ Meant(p) # cmd \/ p = "ready"
             /\ cmd = "transfer" => p = "PORT" /\ ~dataSockPassive
             /\ L = <<p>>
      BY <1>1, <1>2, <1>7, <2>3 DEF Behind
    <3>2. p \in Due /\ cmd \in Due
      BY <3>1
    <3>3. Append(L, cmd) = <<p, cmd>>
      BY <3>1, <3>2, TwoDue
    <3>4. Behind(<<p, cmd>>)'
      BY <3>1, <1>1, <1>9 DEF Behind, Talking
    <3>5. FtFlow'
      BY <2>1, <2>3, <3>3, <3>4, <1>3 DEF FtFlow
    <3>6. QED
      BY <3>5, <1>4, <1>5, <1>6 DEF FtInv
  <2>4. QED
    BY <2>2, <2>3
<1>10. QED
  BY <1>1, <1>8, <1>9

LEMMA PortStep == FtInv /\ PortAnswered => FtInv'
<1> SUFFICES ASSUME FtInv, PortAnswered PROVE FtInv'
  OBVIOUS
<1>1. PICK code :
         /\ ftpReplyGet("PORT", code)
         /\ \/ /\ Digit(code) \in {FTP_COMPLETE, FTP_PRELIM}
               /\ dataSockPassive' = FALSE /\ Says("transfer") /\ UNCHANGED ftData
            \/ /\ Digit(code) = FTP_ERROR
               /\ NewSock(TRUE) /\ ftOpen' = (ftOpen \ {dataSock}) \cup {made + 1}
               /\ dataSockPassive' = FALSE /\ Says("transfer")
               /\ UNCHANGED <<ftWaiting, closedTwice>>
            \/ /\ Digit(code) \notin {FTP_COMPLETE, FTP_PRELIM}
               /\ CloseData /\ GivesUp /\ UNCHANGED dataSockPassive
  BY DEF PortAnswered
<1>2. UNCHANGED <<ftpReply, retryCount, reaches, ftHistory>>
  BY DEF PortAnswered
<1>3. /\ "PORT" \in (Commands \cup {"greeting"}) \ {"transfer", "QUIT"}
      /\ "transfer" \in Commands \ {"PORT"}
  BY AnswersTyped DEF Commands
<1>4. /\ fromServer' \in Seq(Lines) /\ outOfStep' \in BOOLEAN
      /\ UNCHANGED <<toServer, serverUp, transfer, call>>
      /\ ftCmd = "PORT" /\ ftAt \in {"reply", "unsent"} /\ Talking
      /\ outOfStep => outOfStep'
      /\ outOfStep' => ~InStep
      /\ HeardOf("PORT", code)
  BY <1>1, <1>3, AnswerHeard
<1>5. FtTypes /\ FtSocks /\ FtPlaces
  BY DEF FtInv
<1>6. UNCHANGED <<began, orphans, rounds, early>> /\ InStep' = InStep
  BY <1>2 DEF ftHistory, InStep
<1>7. dataSock \in ftOpen /\ ftOpen \subseteq orphans \cup {dataSock} /\ ctrlOpen
  BY <1>4, <1>5 DEF FtSocks, FtPlaces
<1>8. CASE CloseData /\ GivesUp
  <2>1. /\ ftOpen' = ftOpen \ {dataSock} /\ ftListening' = ftListening \ {dataSock}
        /\ closedTwice' = closedTwice /\ UNCHANGED <<dataSock, made>>
        /\ ftAt' = "error" /\ ctrlOpen' = FALSE
    BY <1>5, <1>7, <1>8 DEF CloseData, GivesUp, FtTypes
  <2>2. FtTypes'
    BY <1>4, <1>5, <1>6, <2>1 DEF FtTypes
  <2>3. FtSocks'
    BY <1>4, <1>5, <1>6, <1>7, <2>1 DEF FtSocks, Talking, Strayed
  <2>4. FtPlaces'
    BY <1>4, <1>5, <1>6, <1>7, <2>1 DEF FtPlaces, Talking
  <2>5. FtFlow'
    BY <2>1 DEF FtFlow, Ended
  <2>6. QED
    BY <2>2, <2>3, <2>4, <2>5 DEF FtInv
<1>9. ASSUME Digit(code) \in {FTP_COMPLETE, FTP_PRELIM, FTP_ERROR},
             dataSockPassive' = FALSE, Says("transfer"),
             \/ UNCHANGED ftData
             \/ /\ NewSock(TRUE) /\ ftOpen' = (ftOpen \ {dataSock}) \cup {made + 1}
                /\ UNCHANGED <<ftWaiting, closedTwice>>
      PROVE  FtInv'
  <2>1. /\ ftAt' = "send" /\ ftCmd' = "transfer" /\ UNCHANGED ctrlOpen
        /\ closedTwice' = closedTwice
    BY <1>9 DEF Says, ftData
  <2>2. code # ERROR
    BY <1>9, DigitOf DEF FTP_COMPLETE, FTP_PRELIM, FTP_ERROR
  <2>3. FtTypes'
    BY <1>4, <1>5, <1>6, <2>1 DEF FtTypes
  <2>4. /\ made' \in Nat /\ dataSock' \in 0 .. made'
        /\ ftListening' \subseteq ftOpen'
        /\ ftOpen' \subseteq 1 .. made'
        /\ ftOpen' \subseteq orphans' \cup {dataSock'}
        /\ dataSock' \in ftOpen'
    <3>1. CASE UNCHANGED ftData
      BY <3>1, <1>5, <1>6, <1>7 DEF FtSocks, ftData
    <3>2. CASE NewSock(TRUE) /\ ftOpen' = (ftOpen \ {dataSock}) \cup {made + 1}
      BY <3>2, <1>5, <1>6, <1>7 DEF FtSocks, NewSock
    <3>3. QED
      BY <3>1, <3>2, <1>9
  <2>5. FtSocks'
    <3>1. (closedTwice => Strayed)' /\ (outOfStep => ~InStep)'
      BY <1>4, <1>5, <1>6, <2>1 DEF FtSocks, Strayed
    <3>2. QED
      BY <2>4, <3>1, <2>1, <1>9 DEF FtSocks, Talking
  <2>6. FtPlaces'
    BY <1>3, <1>4, <1>5, <1>6, <2>1 DEF FtPlaces, Talking
  <2>7. FtFlow'
    <3>1. ~InStep => ftAt = "reply"
      BY <2>2, <1>4, ReplyWasRead
    <3>2. UNCHANGED <<early, orphans>> /\ ftCmd' \in Commands \ {"PORT"}
      BY <1>3, <1>6, <2>1
    <3>3. QED
      BY <3>1, <3>2, <1>3, <1>4, <1>9, <2>1, GoesOn
  <2>8. QED
    BY <2>3, <2>5, <2>6, <2>7 DEF FtInv
<1>10. QED
  BY <1>1, <1>8, <1>9

LEMMA SelectStep == FtInv /\ SelectBoth => FtInv'
<1> SUFFICES ASSUME FtInv, SelectBoth PROVE FtInv'
  OBVIOUS
<1>1. ftAt = "select" /\ UNCHANGED <<call, loopState, ftServer, ftHistory>>
  BY DEF SelectBoth
<1>2. FtTypes /\ FtSocks /\ FtPlaces /\ FtFlow
  BY DEF FtInv
<1>3. /\ UNCHANGED <<call, dataSockPassive, ftpReply, retryCount, toServer, fromServer, serverUp, reaches,
                     transfer, outOfStep, began, orphans, rounds, early>>
      /\ InStep' = InStep
  BY <1>1 DEF loopState, ftServer, ftHistory, InStep
<1>4. CASE dataSock \notin ftOpen /\ CloseData /\ GivesUp
  <2>1. /\ ftOpen' = ftOpen \ {dataSock} /\ ftListening' = ftListening \ {dataSock}
        /\ closedTwice' \in BOOLEAN /\ UNCHANGED <<dataSock, made>>
        /\ ftAt' = "error" /\ ctrlOpen' = FALSE
    BY <1>2, <1>4 DEF CloseData, GivesUp, FtTypes
  <2>2. Strayed /\ (Strayed => Strayed')
    BY <1>1, <1>2, <1>3, <1>4 DEF FtPlaces, Strayed
  <2>3. FtTypes'
    BY <1>2, <1>3, <2>1 DEF FtTypes
  <2>4. FtSocks'
    BY <1>2, <1>3, <2>1, <2>2 DEF FtSocks, Talking
  <2>5. FtPlaces'
    BY <1>2, <1>3, <2>1 DEF FtPlaces, FtSocks, Talking
  <2>6. FtFlow'
    BY <2>1 DEF FtFlow, Ended
  <2>7. QED
    BY <2>3, <2>4, <2>5, <2>6 DEF FtInv
<1>5. ASSUME dataSock \in ftOpen
      PROVE  \E q : Flows(q, <<"final">>)' /\ InStep /\ ~outOfStep /\ (fromServer # <<>> => q # <<>>)
  <2>1. PICK q, L : Flows(q, L) /\ (InStep => Matched(q, L)) /\ (~InStep => Behind(L))
    BY <1>1, <1>2, <1>5 DEF FtFlow, Ended
  <2>2. InStep /\ L = <<"final">> /\ ~outOfStep
    BY <2>1, <1>1, <1>5 DEF Behind, Matched
  <2>3. Flows(q, L)'
    BY <2>1, <1>3, FlowsSame
  <2>4. fromServer # <<>> => q # <<>>
    BY <2>1, <1>2, ReadsNone DEF Flows, FtTypes
  <2>5. QED
    BY <2>2, <2>3, <2>4
<1>6. CASE dataSock \in ftOpen /\ CtrlReady /\ ~DataReady /\ CloseData /\ Hears("second")
  <2>1. /\ ftOpen' = ftOpen \ {dataSock} /\ ftListening' = ftListening \ {dataSock}
        /\ closedTwice' = closedTwice /\ UNCHANGED <<dataSock, made>>
        /\ ftAt' = "reply" /\ ftCmd' = "second" /\ UNCHANGED ctrlOpen
    BY <1>2, <1>6 DEF CloseData, Hears, FtTypes
  <2>2. PICK q : Flows(q, <<"final">>)' /\ InStep /\ ~outOfStep /\ (fromServer # <<>> => q # <<>>)
    BY <1>5, <1>6
  <2>3. q # <<>> \/ ~serverUp
    BY <2>2, <1>6 DEF CtrlReady
  <2>4. Matched(q, <<"final">>)'
    BY <2>1, <2>2, <2>3, <1>3 DEF Matched
  <2>5. FtFlow'
    BY <2>2, <2>4, <1>3 DEF FtFlow
  <2>6. FtTypes'
    BY <1>2, <1>3, <2>1 DEF FtTypes
  <2>7. FtSocks'
    BY <1>2, <1>3, <2>1 DEF FtSocks, Talking, Strayed
  <2>8. FtPlaces'
    BY <1>1, <1>2, <1>3, <2>1 DEF FtPlaces, Talking
  <2>9. QED
    BY <2>5, <2>6, <2>7, <2>8 DEF FtInv
<1>7. CASE dataSock \in ftOpen /\ (DataReady \/ ~CtrlReady) /\ GoesTo("bottom") /\ UNCHANGED ftData
  <2>1. /\ UNCHANGED <<dataSock, ftOpen, ftListening, ftWaiting, made, closedTwice>>
        /\ ftAt' = "bottom" /\ UNCHANGED <<ftCmd, ctrlOpen>>
    BY <1>7 DEF ftData, GoesTo
  <2>2. PICK q : Flows(q, <<"final">>)' /\ InStep /\ ~outOfStep
    BY <1>5, <1>7
  <2>3. Matched(q, <<"final">>)'
    BY <2>1, <2>2, <1>3, <1>7 DEF Matched
  <2>4. FtFlow'
    BY <2>2, <2>3, <1>3 DEF FtFlow
  <2>5. FtTypes'
    BY <1>2, <1>3, <2>1 DEF FtTypes
  <2>6. FtSocks'
    BY <1>2, <1>3, <2>1 DEF FtSocks, Talking, Strayed
  <2>7. FtPlaces'
    BY <1>1, <1>2, <1>3, <1>7, <2>1, <2>2 DEF FtPlaces, Talking
  <2>8. QED
    BY <2>4, <2>5, <2>6, <2>7 DEF FtInv
<1>8. QED
  BY <1>4, <1>6, <1>7 DEF SelectBoth

\* The answer to the command of the transfer, in step: it refuses, it is that a
\* transfer has begun, or there is none.
LEMMA TransferInStep ==
    ASSUME FtInv, InStep, NEW code, ftpReplyGet("transfer", code), UNCHANGED <<early, orphans>>
    PROVE  /\ fromServer' \in Seq(Lines) /\ outOfStep' \in BOOLEAN /\ ~outOfStep' /\ ~outOfStep
           /\ UNCHANGED <<toServer, serverUp, transfer, call>>
           /\ \/ /\ (\E k : Flows(k, <<>>)')
                 /\ \/ call.data = "none" /\ code \in {250, 450, 550}
                    \/ code \in {425, 450, 550}
                    \/ ~serverUp /\ code \in {421, ERROR}
              \/ /\ (\E k : Flows(k, <<"final">>)')
                 /\ code = 150 /\ (dataSockPassive => dataSock \in began)
<1>1. FtTypes /\ FtSocks /\ FtPlaces /\ FtFlow
  BY DEF FtInv
<1>2. ftCmd = "transfer" /\ ftAt \in {"reply", "unsent"}
  BY DEF ftpReplyGet
<1>3. PICK q, L : Flows(q, L) /\ Matched(q, L)
  BY <1>1, <1>2 DEF FtFlow, Ended
<1>4. /\ ~outOfStep
      /\ \/ ftAt = "unsent" /\ L = <<>>
         \/ ftAt = "reply" /\ L = <<"transfer">>
         \/ /\ ftAt = "reply" /\ L = <<"begun", "final">>
            /\ q # <<>> /\ Fits(q[1], "begun") /\ (dataSockPassive => dataSock \in began)
  BY <1>2, <1>3 DEF Matched
<1>5. "transfer" \in Due /\ "begun" \in Due /\ "final" \in Due /\ <<>> \in Seq(Due)
  BY DEF Due, Commands
<1>6. ftAt = "unsent" => ~serverUp
  BY <1>1 DEF FtPlaces
<1>7. ftAt = "reply" => L # <<>>
  BY <1>4, <1>5, OneDue, TwoDue
<1>8. Awaited = "transfer"
  BY <1>2 DEF Awaited
<1>9. /\ UNCHANGED <<toServer, serverUp, transfer, call>>
      /\ fromServer' \in Seq(Lines) /\ outOfStep' \in BOOLEAN
      /\ \/ /\ ftAt = "reply" /\ q # <<>> /\ code = q[1].code /\ code \in Nat
            /\ Fits(q[1], L[1]) \/ (~serverUp /\ q[1] = Farewell)
            /\ outOfStep' = (outOfStep \/ q[1].to \notin {Awaited, "any"})
            /\ Flows(Tail(q), Tail(L))'
         \/ /\ code = ERROR /\ ~serverUp /\ outOfStep' = outOfStep
            /\ \/ ftAt = "unsent" /\ Flows(q, L)'
               \/ ftAt = "reply" /\ q = <<>> /\ \A M \in Seq(Due) : Flows(<<>>, M)'
  BY <1>1, <1>3, <1>6, <1>7, Heard
<1>10. ASSUME L = <<"transfer">>, ftAt = "reply", q # <<>>, code = q[1].code,
              Fits(q[1], L[1]) \/ (~serverUp /\ q[1] = Farewell),
              outOfStep' = (outOfStep \/ q[1].to \notin {Awaited, "any"}),
              Flows(Tail(q), Tail(L))'
       PROVE  /\ ~outOfStep' /\ \E k : Flows(k, <<>>)'
              /\ \/ call.data = "none" /\ code \in {250, 450, 550}
                 \/ code \in {425, 450, 550}
                 \/ ~serverUp /\ code \in {421, ERROR}
  <2>1. L[1] = "transfer" /\ Tail(L) = <<>>
    BY <1>5, <1>10, OneDue
  <2>2. q[1].to \in {"transfer", "any"}
    BY <2>1, <1>10 DEF Fits, Meant, Farewell
  <2>3. Answers.simple = {250, 450, 550}
    BY DEF Answers
  <2>4. \/ call.data = "none" /\ code \in {250, 450, 550}
        \/ code \in {425, 450, 550}
        \/ ~serverUp /\ code \in {421, ERROR}
    BY <2>1, <2>3, <1>10 DEF Fits, Said, Farewell
  <2>5. ~outOfStep'
    BY <2>2, <1>4, <1>8, <1>10
  <2>6. QED
    BY <2>1, <2>4, <2>5, <1>10
<1>11. ASSUME L = <<"begun", "final">>, ftAt = "reply", q # <<>>, code = q[1].code,
              Fits(q[1], "begun"),
              outOfStep' = (outOfStep \/ q[1].to \notin {Awaited, "any"}),
              Flows(Tail(q), Tail(L))'
       PROVE  ~outOfStep' /\ code = 150 /\ \E k : Flows(k, <<"final">>)'
  <2>1. Tail(L) = <<"final">>
    BY <1>5, <1>11, TwoDue
  <2>2. q[1].to = "transfer" /\ code = 150
    BY <1>11 DEF Fits, Meant, Said
  <2>3. ~outOfStep'
    BY <2>2, <1>4, <1>8, <1>11
  <2>4. QED
    BY <2>1, <2>2, <2>3, <1>11
<1>12. ASSUME L = <<>> \/ L = <<"transfer">>, code = ERROR, ~serverUp, outOfStep' = outOfStep,
              \/ ftAt = "unsent" /\ Flows(q, L)' /\ L = <<>>
              \/ ftAt = "reply" /\ \A M \in Seq(Due) : Flows(<<>>, M)'
       PROVE  ~outOfStep' /\ \E k : Flows(k, <<>>)'
  BY <1>4, <1>5, <1>12
<1>13. QED
  <2>1. CASE ftAt = "unsent" /\ L = <<>>
    BY <2>1, <1>4, <1>9, <1>12
  <2>2. CASE ftAt = "reply" /\ L = <<"transfer">>
    BY <2>2, <1>4, <1>9, <1>10, <1>12
  <2>3. CASE /\ ftAt = "reply" /\ L = <<"begun", "final">>
             /\ q # <<>> /\ Fits(q[1], "begun") /\ (dataSockPassive => dataSock \in began)
    BY <2>3, <1>4, <1>9, <1>11
  <2>4. QED
    BY <2>1, <2>2, <2>3, <1>4

\* Behind, what is read for it is the answer to PORT.
LEMMA TransferBehind ==
    ASSUME FtInv, ~InStep, NEW code, ftpReplyGet("transfer", code)
    PROVE  /\ fromServer' \in Seq(Lines) /\ outOfStep' \in BOOLEAN /\ (outOfStep => outOfStep')
           /\ UNCHANGED <<toServer, serverUp, transfer, call>>
           /\ ~dataSockPassive
           /\ \/ outOfStep' /\ code \in {200, 500}
              \/ ~serverUp /\ code \in {421, ERROR}
<1>1. FtTypes /\ FtSocks /\ FtPlaces /\ FtFlow
  BY DEF FtInv
<1>2. ftCmd = "transfer" /\ ftAt \in {"reply", "unsent"} /\ Talking
  BY DEF ftpReplyGet, Talking
<1>3. PICK q, L : Flows(q, L) /\ Behind(L)
  BY <1>1, <1>2 DEF FtFlow, Ended
<1>4. /\ ~dataSockPassive
      /\ ftAt = "reply" => L = <<"PORT", "transfer">> \/ L = <<"PORT", "begun", "final">>
  BY <1>2, <1>3 DEF Behind
<1>5. ftAt = "reply" => L # <<>> /\ L[1] = "PORT"
  <2>1. <<"PORT", "transfer">> # <<>> /\ <<"PORT", "transfer">>[1] = "PORT"
    OBVIOUS
  <2>2. <<"PORT", "begun", "final">> # <<>> /\ <<"PORT", "begun", "final">>[1] = "PORT"
    OBVIOUS
  <2>3. QED
    BY <1>4, <2>1, <2>2
<1>6. ftAt = "unsent" => ~serverUp
  BY <1>1 DEF FtPlaces
<1>7. Awaited = "transfer"
  BY <1>2 DEF Awaited
<1>8. /\ UNCHANGED <<toServer, serverUp, transfer, call>>
      /\ fromServer' \in Seq(Lines) /\ outOfStep' \in BOOLEAN
      /\ \/ /\ ftAt = "reply" /\ code = q[1].code
            /\ Fits(q[1], L[1]) \/ (~serverUp /\ q[1] = Farewell)
            /\ outOfStep' = (outOfStep \/ q[1].to \notin {Awaited, "any"})
         \/ code = ERROR /\ ~serverUp /\ outOfStep' = outOfStep
  BY <1>1, <1>3, <1>5, <1>6, Heard
<1>9. Answers["PORT"] = {200, 500}
  BY DEF Answers
<1>10. \/ outOfStep' /\ code \in {200, 500}
       \/ ~serverUp /\ code \in {421, ERROR}
  <2>1. ASSUME ftAt = "reply", code = q[1].code, Fits(q[1], "PORT"),
               outOfStep' = (outOfStep \/ q[1].to \notin {Awaited, "any"})
        PROVE  outOfStep' /\ code \in {200, 500}
    <3>1. q[1].to = "PORT" /\ code \in Answers["PORT"]
      BY <2>1 DEF Fits, Meant, Said
    <3>2. QED
      BY <3>1, <2>1, <1>7, <1>9
  <2>2. QED
    BY <2>1, <1>5, <1>8 DEF Farewell
<1>11. QED
  BY <1>4, <1>8, <1>10

LEMMA TransferStep == FtInv /\ TransferAnswered => FtInv'
<1> SUFFICES ASSUME FtInv, TransferAnswered PROVE FtInv'
  OBVIOUS
<1>1. PICK code :
         /\ ftpReplyGet("transfer", code)
         /\ \/ Digit(code) = FTP_PRELIM /\ Proceeds /\ UNCHANGED <<ftData, ftpReply, retryCount>>
            \/ /\ Digit(code) = FTP_ERROR \/ ftpTransientFatal(code)
               /\ CloseData /\ GivesUp /\ UNCHANGED <<ftpReply, retryCount>>
            \/ /\ Digit(code) = FTP_TRANSIENT /\ ~ftpTransientFatal(code)
               /\ CloseData /\ ftpReply' = Digit(code)
               /\ IF retryCount < ftplTransientMaxRetryCount
                  THEN retryCount' = retryCount + 1 /\ GoesTo("bottom")
                  ELSE GivesUp /\ UNCHANGED retryCount
            \/ /\ Digit(code) \notin {FTP_PRELIM, FTP_ERROR, FTP_TRANSIENT}
               /\ CloseData /\ ftpReply' = Digit(code) /\ Proceeds /\ UNCHANGED retryCount
  BY DEF TransferAnswered
<1>2. UNCHANGED <<dataSockPassive, reaches, ftHistory>>
  BY DEF TransferAnswered
<1>3. UNCHANGED <<began, orphans, rounds, early>> /\ InStep' = InStep
  BY <1>2 DEF ftHistory, InStep
<1>4. FtTypes /\ FtSocks /\ FtPlaces
  BY DEF FtInv
<1>5. ftCmd = "transfer" /\ ftAt \in {"reply", "unsent"} /\ Talking
  BY <1>1 DEF ftpReplyGet, Talking
<1>6. dataSock \in ftOpen /\ ftOpen \subseteq orphans \cup {dataSock} /\ ctrlOpen
  BY <1>4, <1>5 DEF FtSocks, FtPlaces
<1>7. /\ fromServer' \in Seq(Lines) /\ outOfStep' \in BOOLEAN /\ (outOfStep => outOfStep')
      /\ UNCHANGED <<toServer, serverUp, transfer, call>>
      /\ outOfStep' => ~InStep
  <2>1. CASE InStep
    BY <2>1, <1>1, <1>3, TransferInStep
  <2>2. CASE ~InStep
    BY <2>2, <1>1, TransferBehind
  <2>3. QED
    BY <2>1, <2>2
<1>8. CloseData => /\ ftOpen' = ftOpen \ {dataSock} /\ ftListening' = ftListening \ {dataSock}
                   /\ closedTwice' = closedTwice /\ UNCHANGED <<dataSock, made>>
  BY <1>4, <1>6 DEF CloseData, FtTypes
\* It ends, or goes on with or without the socket.
<1>9. CASE CloseData /\ GivesUp
  <2>1. /\ ftOpen' = ftOpen \ {dataSock} /\ ftListening' = ftListening \ {dataSock}
        /\ closedTwice' = closedTwice /\ UNCHANGED <<dataSock, made>>
        /\ ftAt' = "error" /\ ctrlOpen' = FALSE
    BY <1>8, <1>9 DEF GivesUp
  <2>2. FtTypes'
    BY <1>3, <1>4, <1>7, <2>1 DEF FtTypes
  <2>3. FtSocks'
    BY <1>3, <1>4, <1>6, <1>7, <2>1 DEF FtSocks, Talking, Strayed
  <2>4. FtPlaces'
    BY <1>3, <1>4, <1>6, <1>7, <2>1 DEF FtPlaces, Talking
  <2>5. FtFlow'
    BY <2>1 DEF FtFlow, Ended
  <2>6. QED
    BY <2>2, <2>3, <2>4, <2>5 DEF FtInv
<1>10. ASSUME CloseData, ftAt' \in {"bottom", "select"}, UNCHANGED ctrlOpen,
              ftAt' = "select" => ~dataSockPassive /\ Strayed',
              ftAt' = "bottom" => /\ InStep /\ ~outOfStep' /\ (\E k : Flows(k, <<>>)')
                                  /\ ftpReply' = FTP_TRANSIENT \/ (dataSockPassive /\ Strayed')
       PROVE  FtInv'
  <2>1. /\ ftOpen' = ftOpen \ {dataSock} /\ ftListening' = ftListening \ {dataSock}
        /\ closedTwice' = closedTwice /\ UNCHANGED <<dataSock, made>>
    BY <1>8, <1>10
  <2>2. FtTypes'
    BY <1>3, <1>4, <1>7, <1>10, <2>1 DEF FtTypes
  <2>3. FtSocks'
    BY <1>3, <1>4, <1>6, <1>7, <1>10, <2>1 DEF FtSocks, Talking, Strayed
  <2>4. FtPlaces'
    BY <1>2, <1>3, <1>4, <1>6, <1>7, <1>10, <2>1 DEF FtPlaces, Talking
  <2>5. FtFlow'
    <3>1. CASE ftAt' = "select"
      BY <3>1, <2>1 DEF FtFlow, Ended
    <3>2. CASE ftAt' = "bottom"
      <4>1. PICK k : Flows(k, <<>>)' /\ InStep /\ ~outOfStep'
        BY <3>2, <1>10
      <4>2. Matched(k, <<>>)'
        BY <3>2, <4>1, <2>1 DEF Matched
      <4>3. QED
        BY <4>1, <4>2, <1>3 DEF FtFlow
    <3>3. QED
      BY <3>1, <3>2, <1>10
  <2>6. QED
    BY <2>2, <2>3, <2>4, <2>5 DEF FtInv
<1>11. ASSUME InStep, ~outOfStep', \E k : Flows(k, <<"final">>)', dataSockPassive => dataSock \in began,
              Proceeds, UNCHANGED ftData
       PROVE  FtInv'
  <2>1. /\ UNCHANGED <<dataSock, ftOpen, ftListening, made, closedTwice>>
        /\ ftAt' = (IF dataSockPassive THEN "bottom" ELSE "select") /\ UNCHANGED ctrlOpen
    BY <1>11 DEF ftData, Proceeds, GoesTo
  <2>2. FtTypes'
    BY <1>3, <1>4, <1>7, <2>1 DEF FtTypes
  <2>3. FtSocks'
    BY <1>3, <1>4, <1>6, <1>7, <2>1 DEF FtSocks, Talking, Strayed
  <2>4. FtPlaces'
    BY <1>2, <1>3, <1>4, <1>6, <1>7, <1>11, <2>1 DEF FtPlaces, Talking
  <2>5. PICK k : Flows(k, <<"final">>)'
    BY <1>11
  <2>6. Matched(k, <<"final">>)'
    BY <1>6, <1>11, <2>1 DEF Matched
  <2>7. FtFlow'
    BY <2>5, <2>6, <1>3, <1>11 DEF FtFlow
  <2>8. QED
    BY <2>2, <2>3, <2>4, <2>7 DEF FtInv
<1>12. CASE InStep
  <2>1. /\ ~outOfStep'
        /\ \/ /\ (\E k : Flows(k, <<>>)')
              /\ \/ call.data = "none" /\ code \in {250, 450, 550}
                 \/ code \in {425, 450, 550}
                 \/ ~serverUp /\ code \in {421, ERROR}
           \/ /\ (\E k : Flows(k, <<"final">>)')
              /\ code = 150 /\ (dataSockPassive => dataSock \in began)
    BY <1>1, <1>3, <1>12, TransferInStep
  <2>2. CASE /\ (\E k : Flows(k, <<"final">>)')
             /\ code = 150 /\ (dataSockPassive => dataSock \in began)
    <3>1. Digit(code) = 1 /\ code \notin {421, 450, 451, 452}
      BY <2>2, DigitOf
    <3>2. Proceeds /\ UNCHANGED ftData
      BY <3>1, <1>1 DEF FTP_PRELIM, FTP_ERROR, FTP_TRANSIENT, ftpTransientFatal
    <3>3. QED
      BY <3>2, <2>1, <2>2, <1>11, <1>12
  <2>3. ASSUME \E k : Flows(k, <<>>)',
               \/ call.data = "none" /\ code = 250
               \/ ~serverUp /\ code = ERROR
        PROVE  FtInv'
    <3>1. Digit(code) \in {0, 2} /\ code \notin {421, 450, 451, 452}
      BY <2>3, DigitOf DEF ERROR
    <3>2. CloseData /\ Proceeds
      BY <3>1, <1>1 DEF FTP_PRELIM, FTP_ERROR, FTP_TRANSIENT, ftpTransientFatal
    <3>3. Strayed'
      BY <2>3, <1>7 DEF Strayed
    <3>4. ftAt' = (IF dataSockPassive THEN "bottom" ELSE "select") /\ UNCHANGED ctrlOpen
      BY <3>2 DEF Proceeds, GoesTo
    <3>5. QED
      BY <3>2, <3>3, <3>4, <2>1, <2>3, <1>4, <1>10, <1>12 DEF FtTypes
  <2>4. ASSUME \E k : Flows(k, <<>>)', code \in {421, 450, 550}
        PROVE  FtInv'
    <3>1. Digit(code) = 5 \/ code \in {421, 450}
      BY <2>4, DigitOf
    <3>2. Digit(code) \in {4, 5}
      BY <2>4, DigitOf
    <3>3. CloseData /\ GivesUp
      BY <3>1, <3>2, <1>1 DEF FTP_PRELIM, FTP_ERROR, FTP_TRANSIENT, ftpTransientFatal
    <3>4. QED
      BY <3>3, <1>9
  <2>5. ASSUME \E k : Flows(k, <<>>)', code = 425
        PROVE  FtInv'
    <3>1. Digit(code) = 4 /\ ~ftpTransientFatal(code)
      BY <2>5, DigitOf DEF ftpTransientFatal
    <3>2. /\ CloseData /\ ftpReply' = 4
          /\ (GoesTo("bottom") \/ GivesUp)
      BY <3>1, <1>1 DEF FTP_PRELIM, FTP_ERROR, FTP_TRANSIENT
    <3>3. CASE GivesUp
      BY <3>2, <3>3, <1>9
    <3>4. CASE GoesTo("bottom")
      <4>1. ftAt' = "bottom" /\ UNCHANGED ctrlOpen /\ ftpReply' = FTP_TRANSIENT
        BY <3>2, <3>4 DEF GoesTo, FTP_TRANSIENT
      <4>2. QED
        BY <4>1, <3>2, <2>1, <2>5, <1>10, <1>12
    <3>5. QED
      BY <3>2, <3>3, <3>4
  <2>6. QED
    BY <2>1, <2>2, <2>3, <2>4, <2>5
<1>13. CASE ~InStep
  <2>1. /\ ~dataSockPassive
        /\ \/ outOfStep' /\ code \in {200, 500}
           \/ ~serverUp /\ code \in {421, ERROR}
    BY <1>1, <1>13, TransferBehind
  <2>2. Strayed'
    BY <2>1, <1>7 DEF Strayed
  <2>3. CASE code \in {500, 421}
    <3>1. Digit(code) \in {4, 5} /\ (Digit(code) = 5 \/ code = 421)
      BY <2>3, DigitOf
    <3>2. CloseData /\ GivesUp
      BY <3>1, <1>1 DEF FTP_PRELIM, FTP_ERROR, FTP_TRANSIENT, ftpTransientFatal
    <3>3. QED
      BY <3>2, <1>9
  <2>4. CASE code \in {200, ERROR}
    <3>1. Digit(code) \in {0, 2} /\ code \notin {421, 450, 451, 452}
      BY <2>4, DigitOf DEF ERROR
    <3>2. CloseData /\ Proceeds
      BY <3>1, <1>1 DEF FTP_PRELIM, FTP_ERROR, FTP_TRANSIENT, ftpTransientFatal
    <3>3. ftAt' = "select" /\ UNCHANGED ctrlOpen
      BY <3>2, <2>1 DEF Proceeds, GoesTo
    <3>4. QED
      BY <3>2, <3>3, <2>1, <2>2, <1>10
  <2>5. QED
    BY <2>1, <2>3, <2>4
<1>14. QED
  BY <1>12, <1>13

\* The second reply to the command: the end of the transfer.
LEMMA SecondStep == FtInv /\ SecondAnswered => FtInv'
<1> SUFFICES ASSUME FtInv, SecondAnswered PROVE FtInv'
  OBVIOUS
<1>1. PICK code :
         /\ ftpReplyGet("second", code)
         /\ ftpReply' = Digit(code)
         /\ IF Digit(code) = FTP_TRANSIENT THEN GoesTo("bottom") ELSE Says("QUIT")
  BY DEF SecondAnswered
<1>2. UNCHANGED <<dataSockPassive, retryCount, reaches, ftData, ftHistory>>
  BY DEF SecondAnswered
<1>3. /\ UNCHANGED <<began, orphans, rounds, early>> /\ InStep' = InStep
      /\ UNCHANGED <<dataSock, ftOpen, ftListening, ftWaiting, made, closedTwice>>
  BY <1>2 DEF ftHistory, ftData, InStep
<1>4. FtTypes /\ FtSocks /\ FtPlaces /\ FtFlow
  BY DEF FtInv
<1>5. ftCmd = "second" /\ Talking /\ ftAt = "reply" /\ ctrlOpen /\ ftOpen \subseteq orphans
  BY <1>1, <1>4 DEF ftpReplyGet, Talking, FtPlaces, FtSocks
<1>6. "second" \notin Due /\ "final" \in Due /\ <<>> \in Seq(Due) /\ "QUIT" \in Commands
  BY AnswersTyped DEF Due, Commands
<1>7. PICK q, L : Flows(q, L) /\ (InStep => Matched(q, L)) /\ (~InStep => Behind(L))
  BY <1>4, <1>5 DEF FtFlow, Ended
<1>8. InStep
  BY <1>5, <1>6, <1>7 DEF Behind
<1>9. L = <<"final">> /\ ~outOfStep
  BY <1>5, <1>7, <1>8 DEF Matched
<1>10. L # <<>> /\ L[1] = "final" /\ Tail(L) = <<>>
  BY <1>6, <1>9, OneDue
<1>11. Awaited = "transfer"
  BY <1>5 DEF Awaited
<1>12. /\ UNCHANGED <<toServer, serverUp, transfer, call>>
       /\ fromServer' \in Seq(Lines) /\ outOfStep' \in BOOLEAN
       /\ \/ /\ Fits(q[1], L[1]) \/ (~serverUp /\ q[1] = Farewell)
             /\ outOfStep' = (outOfStep \/ q[1].to \notin {Awaited, "any"})
             /\ Flows(Tail(q), Tail(L))'
          \/ outOfStep' = outOfStep /\ \A M \in Seq(Due) : Flows(<<>>, M)'
  BY <1>4, <1>5, <1>7, <1>10, <1>1, Heard
<1>13. ~outOfStep' /\ \E k : Flows(k, <<>>)'
  <2>1. CASE /\ Fits(q[1], L[1]) \/ (~serverUp /\ q[1] = Farewell)
             /\ outOfStep' = (outOfStep \/ q[1].to \notin {Awaited, "any"})
             /\ Flows(Tail(q), Tail(L))'
    <3>1. q[1].to \in {"transfer", "any"}
      BY <2>1, <1>10 DEF Fits, Meant, Farewell
    <3>2. ~outOfStep'
      BY <3>1, <2>1, <1>9, <1>11
    <3>3. QED
      BY <3>2, <2>1, <1>10
  <2>2. CASE outOfStep' = outOfStep /\ \A M \in Seq(Due) : Flows(<<>>, M)'
    BY <2>2, <1>6, <1>9
  <2>3. QED
    BY <2>1, <2>2, <1>12
<1>14. PICK k : Flows(k, <<>>)'
  BY <1>13
<1>15. dataSock \notin ftOpen
  BY <1>4, <1>5, <1>8 DEF FtSocks, InStep
<1>16. /\ UNCHANGED ctrlOpen
       /\ \/ ftAt' = "bottom" /\ ftpReply' = FTP_TRANSIENT
          \/ ftAt' = "send" /\ ftCmd' = "QUIT"
  BY <1>1 DEF GoesTo, Says
<1>17. FtTypes'
  BY <1>3, <1>4, <1>12, <1>16 DEF FtTypes
<1>18. FtSocks'
  BY <1>3, <1>4, <1>5, <1>12, <1>13, <1>16 DEF FtSocks, Talking, Strayed
<1>19. FtPlaces'
  BY <1>3, <1>4, <1>5, <1>6, <1>8, <1>12, <1>16 DEF FtPlaces, Talking
<1>20. Matched(k, <<>>)'
  BY <1>3, <1>13, <1>15, <1>16 DEF Matched
<1>21. FtFlow'
  BY <1>3, <1>8, <1>14, <1>20 DEF FtFlow
<1>22. QED
  BY <1>17, <1>18, <1>19, <1>21 DEF FtInv

\* The loop of ftpXfer: from here on, if a transfer is under way, out of step.
LEMMA RepeatStep == FtInv /\ Repeats => FtInv'
<1> SUFFICES ASSUME FtInv, Repeats PROVE FtInv'
  OBVIOUS
<1>1. /\ ftAt = "bottom" /\ Round
      /\ orphans' = orphans \cup ({dataSock} \cap ftOpen)
      /\ UNCHANGED <<call, loopState, ftData, ftServer, began, rounds, early>>
  BY DEF Repeats
<1>2. FtTypes /\ FtSocks /\ FtPlaces /\ FtFlow
  BY DEF FtInv
<1>3. /\ UNCHANGED <<call, dataSock, ftOpen, ftListening, ftWaiting, made, closedTwice,
                     dataSockPassive, ftpReply, retryCount, toServer, fromServer, serverUp,
                     reaches, transfer, outOfStep, began, rounds, early>>
      /\ UNCHANGED ctrlOpen
      /\ (ftAt' = "send" /\ ftCmd' = "PASV") \/ ftAt' = "init"
  BY <1>1, RoundStep DEF loopState, ftData, ftServer
<1>4. InStep /\ ctrlOpen
  BY <1>1, <1>2 DEF FtPlaces
<1>5. ftOpen \subseteq orphans'
  BY <1>1, <1>2 DEF FtSocks
<1>6. PICK q, L : Flows(q, L) /\ Matched(q, L)
  BY <1>1, <1>2, <1>4 DEF FtFlow, Ended
<1>7. /\ ~outOfStep
      /\ L = (IF dataSock \in ftOpen THEN <<"final">> ELSE <<>>)
  BY <1>1, <1>6 DEF Matched
<1>8. FtTypes'
  BY <1>2, <1>3 DEF FtTypes
<1>9. FtSocks'
  BY <1>2, <1>3, <1>5, <1>7 DEF FtSocks, Talking, Strayed
<1>10. FtPlaces'
  <2>1. "PASV" \in Commands
    BY AnswersTyped DEF Commands
  <2>2. QED
    BY <2>1, <1>2, <1>3, <1>4 DEF FtPlaces, Talking
<1>11. Flows(q, L)'
  BY <1>3, <1>6, FlowsSame
<1>12. CASE dataSock \notin ftOpen
  <2>1. orphans' = {} /\ InStep'
    BY <1>1, <1>3, <1>4, <1>12 DEF InStep
  <2>2. Matched(q, L)'
    BY <1>3, <1>7, <1>12 DEF Matched
  <2>3. FtFlow'
    BY <2>1, <2>2, <1>11 DEF FtFlow
  <2>4. QED
    BY <2>3, <1>8, <1>9, <1>10 DEF FtInv
<1>13. CASE dataSock \in ftOpen
  <2>1. orphans' # {} /\ ~InStep'
    BY <1>1, <1>13 DEF InStep
  <2>2. "final" \in Due \ {"transfer", "begun"} /\ "PASV" \in Due \ {"ready", "begun", "final", "QUIT"}
    BY AnswersTyped DEF Due, Commands
  <2>3. Meant("final") # "PASV"
    BY DEF Meant
  <2>4. L = <<"final">>
    BY <1>7, <1>13
  <2>5. Behind(L)'
    BY <2>1, <2>2, <2>3, <2>4, <1>3 DEF Behind, Talking
  <2>6. FtFlow'
    BY <2>1, <2>5, <1>11 DEF FtFlow
  <2>7. QED
    BY <2>6, <1>8, <1>9, <1>10 DEF FtInv
<1>14. QED
  BY <1>12, <1>13

\* And what ftpXfer returns.
LEMMA FinishStep == FtInv /\ Finishes => FtInv'
<1> SUFFICES ASSUME FtInv, Finishes PROVE FtInv'
  OBVIOUS
<1>1. /\ ftAt = "bottom" /\ ftpReply # FTP_TRANSIENT
      /\ IF dataSockPassive THEN GoesTo("ok") /\ UNCHANGED <<ftData, began, transfer>> ELSE ftpDataConnGet
      /\ UNCHANGED <<call, loopState, toServer, fromServer, serverUp, reaches, outOfStep,
                     orphans, rounds, early>>
  BY DEF Finishes
<1>2. FtTypes /\ FtSocks /\ FtPlaces
  BY DEF FtInv
<1>3. UNCHANGED <<call, dataSockPassive, ftpReply, retryCount, toServer, fromServer, serverUp,
                  outOfStep, orphans, early>>
  BY <1>1 DEF loopState
<1>4. /\ InStep /\ ctrlOpen /\ ftOpen \subseteq {dataSock} /\ (closedTwice => Strayed)
      /\ InStep' = InStep /\ Strayed' = Strayed
  BY <1>1, <1>2, <1>3 DEF FtPlaces, FtSocks, InStep, Strayed
<1>5. \/ dataSockPassive /\ dataSock \in ftOpen \cap began
      \/ dataSockPassive /\ dataSock \notin ftOpen /\ Strayed
      \/ ~dataSockPassive /\ dataSock \in ftOpen
  BY <1>1, <1>2 DEF FtPlaces
<1>6. ASSUME ftAt' \in {"ok", "error"}, ctrlOpen' = (ftAt' = "ok"), closedTwice' = closedTwice,
             made' \in Nat, dataSock' \in 0 .. made',
             ftListening' \subseteq ftOpen', ftOpen' \subseteq 1 .. made', ftOpen' \subseteq {dataSock'},
             ftAt' = "error" => ftOpen' = {},
             ftAt' = "ok" => dataSock' \in ftOpen' \cap began' \/ Strayed'
      PROVE  FtInv'
  <2>1. FtTypes'
    BY <1>2, <1>3, <1>6 DEF FtTypes
  <2>2. FtSocks'
    BY <1>2, <1>3, <1>4, <1>6 DEF FtSocks, Talking
  <2>3. FtPlaces'
    BY <1>6 DEF FtPlaces, Talking
  <2>4. FtFlow'
    BY <1>6 DEF FtFlow, Ended
  <2>5. QED
    BY <2>1, <2>2, <2>3, <2>4 DEF FtInv
<1>7. CASE dataSockPassive
  <2>1. /\ ftAt' = "ok" /\ UNCHANGED ctrlOpen /\ UNCHANGED began
        /\ UNCHANGED <<dataSock, ftOpen, ftListening, ftWaiting, made, closedTwice>>
    BY <1>1, <1>7 DEF GoesTo, ftData
  <2>2. dataSock \in ftOpen \cap began \/ Strayed
    BY <1>5, <1>7
  <2>3. QED
    BY <2>1, <2>2, <1>2, <1>4, <1>6 DEF FtSocks, FtTypes
<1>8. CASE ~dataSockPassive /\ DataReady
  <2>1. /\ made' = made + 1 /\ dataSock' = made + 1
        /\ ftOpen' = (ftOpen \ {dataSock}) \cup {made + 1}
        /\ ftListening' = ftListening \ {dataSock}
        /\ began' = began \cup {made + 1}
        /\ ftAt' = "ok" /\ UNCHANGED ctrlOpen /\ UNCHANGED closedTwice
    BY <1>1, <1>8 DEF ftpDataConnGet, GoesTo
  <2>2. ftOpen' = {made + 1} /\ ftListening' = {}
    BY <2>1, <1>2, <1>4 DEF FtSocks
  <2>3. made' \in Nat /\ dataSock' \in 0 .. made' /\ ftOpen' \subseteq 1 .. made'
    BY <2>1, <2>2, <1>2 DEF FtSocks
  <2>4. ctrlOpen' = (ftAt' = "ok")
    BY <2>1, <1>2, <1>4 DEF FtTypes
  <2>5. /\ ftListening' \subseteq ftOpen' /\ ftOpen' \subseteq {dataSock'}
        /\ dataSock' \in ftOpen' \cap began'
    BY <2>1, <2>2
  <2>6. QED
    BY <2>1, <2>3, <2>4, <2>5, <1>6
<1>9. CASE ~dataSockPassive /\ ~DataReady
  <2>1. /\ ftOpen' = ftOpen \ {dataSock} /\ ftListening' = ftListening \ {dataSock}
        /\ closedTwice' = closedTwice /\ UNCHANGED <<dataSock, made>>
        /\ ftAt' = "error" /\ ctrlOpen' = FALSE
    BY <1>1, <1>2, <1>5, <1>9 DEF ftpDataConnGet, CloseData, GivesUp, FtTypes
  <2>2. ftOpen' = {} /\ ftListening' = {}
    BY <2>1, <1>2, <1>4 DEF FtSocks
  <2>3. /\ ctrlOpen' = (ftAt' = "ok") /\ made' \in Nat /\ dataSock' \in 0 .. made'
        /\ ftListening' \subseteq ftOpen' /\ ftOpen' \subseteq 1 .. made' /\ ftOpen' \subseteq {dataSock'}
    BY <2>1, <2>2, <1>2 DEF FtSocks
  <2>4. QED
    BY <2>1, <2>2, <2>3, <1>6
<1>10. QED
  BY <1>7, <1>8, <1>9

-----------------------------------------------------------------------------
(* The steps of the server, which change nothing of the client's.          *)

Aside ==
    /\ UNCHANGED <<ftXfer, dataSock, ftOpen, ftListening, made, closedTwice>>
    /\ UNCHANGED <<outOfStep, orphans, rounds, early>>
    /\ began \subseteq began'
    /\ serverUp' \in BOOLEAN /\ (serverUp' => serverUp)
    /\ fromServer' \in Seq(Lines) /\ toServer' \in Seq([cmd : Commands, sock : Nat])

LEMMA AsideKeeps ==
    ASSUME FtInv, Aside
    PROVE  /\ FtTypes' /\ FtSocks' /\ FtPlaces' /\ (Ended => Ended') /\ InStep' = InStep
           /\ UNCHANGED <<call, ftAt, ftCmd, dataSockPassive, dataSock, ftOpen, orphans, outOfStep>>
<1>1. /\ UNCHANGED <<call, ftAt, ftCmd, ctrlOpen, dataSockPassive, ftpReply, retryCount>>
      /\ UNCHANGED <<dataSock, ftOpen, ftListening, made, closedTwice>>
      /\ UNCHANGED <<outOfStep, orphans, rounds, early>>
      /\ began \subseteq began'
      /\ serverUp' \in BOOLEAN /\ (serverUp' => serverUp)
      /\ fromServer' \in Seq(Lines) /\ toServer' \in Seq([cmd : Commands, sock : Nat])
  BY DEF Aside, ftXfer
<1>2. FtTypes /\ FtSocks /\ FtPlaces
  BY DEF FtInv
<1>3. FtTypes'
  BY <1>1, <1>2 DEF FtTypes
<1>4. InStep' = InStep
  BY <1>1 DEF InStep
<1>5. Strayed => Strayed'
  BY <1>1 DEF Strayed
<1>6. FtSocks'
  BY <1>1, <1>2, <1>4, <1>5 DEF FtSocks, Talking
<1>7. FtPlaces'
  BY <1>1, <1>2, <1>4, <1>5 DEF FtPlaces, Talking
<1>8. Ended => Ended'
  BY <1>1 DEF Ended
<1>9. QED
  BY <1>1, <1>3, <1>4, <1>6, <1>7, <1>8

\* What is due stays, and one more of it may have been put.
LEMMA AsideFlow ==
    ASSUME FtInv, Aside, NEW q, NEW L, Flows(q, L), InStep => Matched(q, L), ~InStep => Behind(L),
           NEW k, k = q \/ (\E e : k = Append(q, e)), Flows(k, L)'
    PROVE  FtInv'
<1>1. /\ FtTypes' /\ FtSocks' /\ FtPlaces' /\ InStep' = InStep
      /\ UNCHANGED <<call, ftAt, ftCmd, dataSockPassive, dataSock, ftOpen, orphans, outOfStep>>
      /\ began \subseteq began' /\ (serverUp' => serverUp)
  BY AsideKeeps DEF Aside
<1>2. q # <<>> => k # <<>> /\ k[1] = q[1]
  <2>1. q \in Seq(ReplyTo) /\ k \in Seq(ReplyTo)
    BY DEF Flows
  <2>2. ASSUME NEW e, k = Append(q, e), q # <<>> PROVE k # <<>> /\ k[1] = q[1]
    BY <2>1, <2>2
  <2>3. QED
    BY <2>2
<1>3. InStep => Matched(k, L)'
  BY <1>1, <1>2 DEF Matched, Fits, Said
<1>4. ~InStep => Behind(L)'
  BY <1>1 DEF Behind, Talking
<1>5. FtFlow'
  BY <1>1, <1>3, <1>4 DEF FtFlow
<1>6. QED
  BY <1>1, <1>5 DEF FtInv

LEMMA PutTyped ==
    ASSUME fromServer \in Seq(Lines), NEW code \in Nat \ {0}, NEW to \in Askers, Puts(code, to)
    PROVE  fromServer' \in Seq(Lines)
<1>1. PICK r \in Replies(code, to) : fromServer' = fromServer \o r
  BY DEF Puts
<1>2. r \in Seq(Lines)
  BY <1>1, ReplyLines
<1>3. QED
  BY <1>1, <1>2

\* The server takes a command, and puts an answer to it.
LEMMA HeadTyped ==
    ASSUME toServer \in Seq([cmd : Commands, sock : Nat]), Takes
    PROVE  /\ Head(toServer).cmd \in Commands
           /\ toServer' \in Seq([cmd : Commands, sock : Nat])
<1>1. /\ Head(toServer) \in [cmd : Commands, sock : Nat]
      /\ toServer' \in Seq([cmd : Commands, sock : Nat])
  BY HeadTailProperties DEF Takes
<1>2. QED
  BY <1>1

LEMMA RefusedStep ==
    ASSUME FtInv, Takes, Aside, transfer' = transfer, serverUp' = serverUp,
           NEW code \in Nat \ {0}, Puts(code, Head(toServer).cmd),
           Fits([code |-> code, to |-> Head(toServer).cmd], Head(toServer).cmd)
    PROVE  FtInv'
<1>1. FtTypes /\ FtFlow /\ transfer' = 0 /\ serverUp /\ serverUp'
  BY DEF FtInv, Takes
<1>2. /\ FtTypes' /\ FtSocks' /\ FtPlaces' /\ (Ended => Ended') /\ call' = call
  BY AsideKeeps
<1>3. CASE Ended
  BY <1>2, <1>3 DEF FtInv, FtFlow
<1>4. CASE ~Ended
  <2>1. PICK q, L : Flows(q, L) /\ (InStep => Matched(q, L)) /\ (~InStep => Behind(L))
    BY <1>1, <1>4 DEF FtFlow
  <2>2. NextDue(q, L, Head(toServer).cmd) /\ AfterNext(q, L)'
    BY <1>1, <2>1, FlowsTakes DEF FtTypes
  <2>3. Head(toServer).cmd \in Askers
    BY <1>1, HeadTyped DEF FtTypes, Askers
  <2>4. PICK to : to = Head(toServer).cmd
    OBVIOUS
  <2>5. /\ \E d : NextDue(q, L, d) /\ Fits([code |-> code, to |-> to], d)
        /\ Puts(code, to) /\ to \in Askers
        /\ fromServer \in Seq(Lines) /\ call \in Calls
        /\ serverUp' => AfterNext(q, L)'
    BY <1>1, <2>2, <2>3, <2>4 DEF FtTypes
  <2>6. Flows(Append(q, [code |-> code, to |-> to]), L)'
    BY ONLY <1>1, <1>2, <2>1, <2>5, FlowsPut, code \in Nat \ {0}
  <2>7. QED
    BY <2>1, <2>6, AsideFlow
<1>5. QED
  BY <1>3, <1>4

LEMMA AnswerStep == FtInv /\ Answer => FtInv'
<1> SUFFICES ASSUME FtInv, Answer PROVE FtInv'
  OBVIOUS
<1> DEFINE c == Head(toServer)
           like == IF c.cmd = "transfer" /\ call.data = "none" THEN "simple" ELSE c.cmd
<1>1. /\ Takes /\ like # "transfer"
      /\ UNCHANGED <<ftXfer, ftData, serverUp, transfer, outOfStep, ftHistory>>
  BY DEF Answer
<1>2. PICK code \in Answers[like] : Puts(code, c.cmd)
  BY DEF Answer
<1>3. FtTypes
  BY DEF FtInv
<1>4. c.cmd \in Commands /\ toServer' \in Seq([cmd : Commands, sock : Nat])
  BY <1>1, <1>3, HeadTyped DEF FtTypes
<1>5. like \in DOMAIN Answers
  BY <1>1, <1>4, AnswersTyped DEF Commands
<1>6. code \in Nat \ {0}
  BY <1>2, <1>5, AnswersTyped
<1>7. Fits([code |-> code, to |-> c.cmd], c.cmd)
  <2>1. CASE c.cmd = "transfer"
    BY <2>1, <1>1, <1>2 DEF Fits, Meant, Said
  <2>2. CASE c.cmd # "transfer"
    <3>1. like = c.cmd /\ c.cmd \notin {"ready", "greeting", "begun", "final"}
      BY <2>2, <1>5, AnswersTyped
    <3>2. QED
      BY <2>2, <3>1, <1>2 DEF Fits, Meant, Said
  <2>3. QED
    BY <2>1, <2>2
<1>8. fromServer' \in Seq(Lines)
  BY <1>2, <1>3, <1>4, <1>6, PutTyped DEF FtTypes, Askers
<1>9. Aside
  BY <1>1, <1>3, <1>4, <1>8 DEF Aside, ftData, ftHistory, FtTypes
<1>10. QED
  BY <1>1, <1>2, <1>6, <1>7, <1>9, RefusedStep

LEMMA RefuseStep == FtInv /\ Refuse => FtInv'
<1> SUFFICES ASSUME FtInv, Refuse PROVE FtInv'
  OBVIOUS
<1>1. /\ Takes /\ Head(toServer).cmd = "transfer" /\ call.data # "none"
      /\ UNCHANGED <<ftXfer, ftData, serverUp, reaches, transfer, outOfStep, ftHistory>>
  BY DEF Refuse
<1>2. PICK code \in {425, 450, 550} : Puts(code, "transfer")
  BY DEF Refuse
<1>3. FtTypes
  BY DEF FtInv
<1>4. toServer' \in Seq([cmd : Commands, sock : Nat])
  BY <1>1, <1>3, HeadTyped DEF FtTypes
<1>5. Fits([code |-> code, to |-> "transfer"], "transfer")
  BY <1>1 DEF Fits, Meant, Said
<1>6. fromServer' \in Seq(Lines)
  <2>1. "transfer" \in Askers /\ code \in Nat \ {0}
    BY DEF Askers, Commands
  <2>2. QED
    BY <2>1, <1>2, <1>3, PutTyped DEF FtTypes
<1>7. Aside
  BY <1>1, <1>3, <1>4, <1>6 DEF Aside, ftData, ftHistory, FtTypes
<1>8. QED
  BY <1>1, <1>2, <1>5, <1>7, RefusedStep

\* What is due contains a command of the transfer only when ftpXfer awaits it.
LEMMA TransferDue ==
    ASSUME FtInv, ~Ended, NEW q, NEW L, Flows(q, L), InStep => Matched(q, L), ~InStep => Behind(L),
           NextDue(q, L, "transfer")
    PROVE  /\ ftAt = "reply" /\ ftCmd = "transfer"
           /\ InStep => L = Append(<<>>, "transfer") /\ ~outOfStep
           /\ ~InStep => \E p \in Due \ {"transfer", "begun"} :
                            L = Append(<<p>>, "transfer") /\ p = "PORT" /\ ~dataSockPassive
<1>1. /\ "transfer" \in Due /\ "begun" \in Due /\ "final" \in Due
      /\ \E i \in 1 .. Len(L) : L[i] = "transfer"
  <2>1. Len(q) \in Nat /\ Len(L) \in Nat
    BY DEF Flows
  <2>2. Len(q) + 1 \in 1 .. Len(L) /\ L[Len(q) + 1] = "transfer"
    BY <2>1 DEF NextDue
  <2>3. QED
    BY <2>2 DEF Due, Commands
<1>2. \A a : \A i \in 1 .. Len(<<a>>) : <<a>>[i] = a
  OBVIOUS
<1>3. \A a, b : \A i \in 1 .. Len(<<a, b>>) : <<a, b>>[i] \in {a, b}
  OBVIOUS
<1>4. \A a, b, c : \A i \in 1 .. Len(<<a, b, c>>) : <<a, b, c>>[i] \in {a, b, c}
  OBVIOUS
<1>5. \A i \in 1 .. Len(<<>>) : FALSE
  OBVIOUS
<1>6. CASE InStep
  <2>1. ftAt = "reply" /\ ftCmd = "transfer" /\ L = <<"transfer">> /\ ~outOfStep
    BY <1>1, <1>2, <1>3, <1>5, <1>6 DEF Matched
  <2>2. QED
    BY <2>1, <1>1, <1>6, OneDue
<1>7. CASE ~InStep
  <2>1. PICK p \in Due \ {"transfer", "begun"} :
           /\ p = "final" => orphans # {}
           /\ Talking =>
                 /\ Meant(p) # ftCmd \/ p = "ready"
                 /\ ftCmd = "transfer" => p = "PORT" /\ ~dataSockPassive
           /\ \/ L = <<p>>
              \/ ftAt = "reply" /\ L = <<p, ftCmd>>
              \/ L = <<p, "begun", "final">>
    BY <1>7 DEF Behind
  <2>2. ftAt = "reply" /\ L = <<p, ftCmd>> /\ ftCmd = "transfer"
    BY <1>1, <1>2, <1>3, <1>4, <2>1
  <2>3. L = Append(<<p>>, "transfer")
    BY <1>1, <2>2, TwoDue
  <2>4. QED
    BY <2>1, <2>2, <2>3, <1>7 DEF Talking
<1>8. QED
  BY <1>6, <1>7

\* In step and with PASV, the transfer begins on the socket of ftpXfer.
LEMMA PeerIsData ==
    ASSUME FtInv, InStep, ftAt = "reply", ftCmd = "transfer", dataSockPassive, PeerSock # 0
    PROVE  PeerSock = dataSock /\ dataSock \notin ftListening
<1>1. FtSocks /\ Talking
  BY DEF FtInv, Talking
<1>2. ftOpen = {dataSock} /\ dataSock \notin ftListening
  BY <1>1 DEF FtSocks, InStep
<1>3. ftListening = {}
  BY <1>1, <1>2 DEF FtSocks
<1>4. QED
  BY <1>2, <1>3 DEF PeerSock

LEMMA BeginStep == FtInv /\ Begin => FtInv'
<1> SUFFICES ASSUME FtInv, Begin PROVE FtInv'
  OBVIOUS
<1>1. /\ Takes /\ Head(toServer).cmd = "transfer" /\ call.data # "none"
      /\ PeerSock # 0 /\ Puts(150, "transfer") /\ transfer' = PeerSock
      /\ began' = IF PeerSock \in ftListening THEN began ELSE began \cup {PeerSock}
      /\ UNCHANGED <<ftXfer, ftData, serverUp, reaches, outOfStep, orphans, rounds, early>>
  BY DEF Begin
<1>2. FtTypes /\ FtFlow
  BY DEF FtInv
<1>3. toServer' \in Seq([cmd : Commands, sock : Nat])
  BY <1>1, <1>2, HeadTyped DEF FtTypes
<1>4. fromServer' \in Seq(Lines)
  <2>1. "transfer" \in Askers /\ 150 \in Nat \ {0}
    BY DEF Askers, Commands
  <2>2. QED
    BY <2>1, <1>1, <1>2, PutTyped DEF FtTypes
<1>5. Aside
  BY <1>1, <1>2, <1>3, <1>4 DEF Aside, ftData, FtTypes
<1>6. /\ FtTypes' /\ FtSocks' /\ FtPlaces' /\ (Ended => Ended') /\ InStep' = InStep
      /\ UNCHANGED <<call, ftAt, ftCmd, dataSockPassive, dataSock, ftOpen, orphans, outOfStep>>
  BY <1>5, AsideKeeps
<1>7. CASE Ended
  BY <1>6, <1>7 DEF FtInv, FtFlow
<1>8. CASE ~Ended
  <2>1. PICK q, L : Flows(q, L) /\ (InStep => Matched(q, L)) /\ (~InStep => Behind(L))
    BY <1>2, <1>8 DEF FtFlow
  <2>2. NextDue(q, L, "transfer")
    BY <1>1, <1>2, <2>1, FlowsTakes DEF FtTypes
  <2>3. /\ ftAt = "reply" /\ ftCmd = "transfer"
        /\ InStep => L = Append(<<>>, "transfer") /\ ~outOfStep
        /\ ~InStep => \E p \in Due \ {"transfer", "begun"} :
                         L = Append(<<p>>, "transfer") /\ p = "PORT" /\ ~dataSockPassive
    BY <1>8, <2>1, <2>2, TransferDue
  <2>4. \A K \in Seq(Due) : (\A i \in 1 .. Len(K) : K[i] # "transfer") /\ L = Append(K, "transfer") =>
           /\ Len(q) = Len(K)
           /\ Flows(Append(q, [code |-> 150, to |-> "transfer"]), Append(Append(K, "begun"), "final"))'
    <3>1. TAKE K \in Seq(Due)
    <3>2. HAVE (\A i \in 1 .. Len(K) : K[i] # "transfer") /\ L = Append(K, "transfer")
    <3>3. /\ Flows(q, Append(K, "transfer"))
          /\ fromServer \in Seq(Lines) /\ call \in Calls
          /\ toServer \in Seq([cmd : Commands, sock : Nat])
          /\ Takes /\ Head(toServer).cmd = "transfer" /\ Puts(150, "transfer")
          /\ transfer' # 0 /\ UNCHANGED <<call, serverUp>>
      BY <1>1, <1>2, <1>6, <2>1, <3>2 DEF FtTypes
    <3>4. QED
      BY ONLY <3>2, <3>3, K \in Seq(Due), FlowsBegin
  <2>5. q \in Seq(ReplyTo) /\ "begun" \in Due /\ "final" \in Due /\ <<>> \in Seq(Due)
    BY <2>1 DEF Flows, Due
  <2> DEFINE k == Append(q, [code |-> 150, to |-> "transfer"])
  <2>6. CASE InStep
    <3>0. \A i \in 1 .. Len(<<>>) : <<>>[i] # "transfer"
      OBVIOUS
    <3>1. /\ Len(q) = Len(<<>>)
          /\ Flows(k, Append(Append(<<>>, "begun"), "final"))'
      BY <2>3, <2>4, <2>5, <2>6, <3>0
    <3>2. Append(Append(<<>>, "begun"), "final") = <<"begun", "final">>
      BY <2>5, OneDue, TwoDue
    <3>3. q = <<>>
      BY <2>5, <3>1
    <3>4. k # <<>> /\ k[1] = [code |-> 150, to |-> "transfer"]
      BY <3>3
    <3>5. Fits(k[1], "begun")
      BY <3>4 DEF Fits, Meant, Said
    <3>6. dataSockPassive => dataSock \in began'
      BY <1>1, <2>3, <2>6, PeerIsData
    <3>7. Fits(k[1], "begun")'
      BY <3>5, <1>6 DEF Fits, Said
    <3> HIDE DEF k
    <3>8. Matched(k, <<"begun", "final">>)'
      BY <1>1, <1>6, <2>3, <2>6, <3>4, <3>6, <3>7 DEF Matched
    <3>9. FtFlow'
      BY <1>6, <2>6, <3>1, <3>2, <3>8 DEF FtFlow
    <3>10. QED
      BY <1>6, <3>9 DEF FtInv
  <2>7. CASE ~InStep
    <3>1. PICK p \in Due \ {"transfer", "begun"} :
             L = Append(<<p>>, "transfer") /\ p = "PORT" /\ ~dataSockPassive
      BY <2>3, <2>7
    <3>2. <<p>> \in Seq(Due) /\ \A i \in 1 .. Len(<<p>>) : <<p>>[i] # "transfer"
      BY <3>1
    <3>3. Flows(k, Append(Append(<<p>>, "begun"), "final"))'
      BY <2>4, <3>1, <3>2
    <3>4. Append(Append(<<p>>, "begun"), "final") = <<p, "begun", "final">>
      <4>1. Append(<<p>>, "begun") = <<p, "begun">>
        BY <2>5, <3>1, TwoDue
      <4>2. Append(<<p, "begun">>, "final") = <<p, "begun", "final">>
        BY <2>5, <3>1, ThreeDue
      <4>3. QED
        BY <4>1, <4>2
    <3> HIDE DEF k
    <3>5. p = "PORT" /\ "transfer" \in Due \ {"ready", "begun", "final", "QUIT"} /\ Meant("PORT") # "transfer"
      BY <3>1 DEF Due, Commands, Meant
    <3>6. Behind(<<p, "begun", "final">>)'
      BY <1>1, <1>6, <2>3, <3>1, <3>5 DEF Behind, Talking
    <3>7. FtFlow'
      BY <1>6, <2>7, <3>3, <3>4, <3>6 DEF FtFlow
    <3>8. QED
      BY <1>6, <3>7 DEF FtInv
  <2>8. QED
    BY <2>6, <2>7
<1>9. QED
  BY <1>7, <1>8

LEMMA ConnectStep == FtInv /\ ConnectBack => FtInv'
<1> SUFFICES ASSUME FtInv, ConnectBack PROVE FtInv'
  OBVIOUS
<1>1. UNCHANGED <<ftXfer, dataSock, ftOpen, ftListening, made, closedTwice, ftServer, ftHistory>>
  BY DEF ConnectBack
<1>2. FtTypes /\ FtFlow
  BY DEF FtInv
<1>3. UNCHANGED <<call, toServer, fromServer, serverUp, transfer>>
  BY <1>1 DEF ftXfer, ftServer
<1>4. Aside
  BY <1>1, <1>2, <1>3 DEF Aside, ftServer, ftHistory, FtTypes
<1>5. /\ FtTypes' /\ FtSocks' /\ FtPlaces' /\ (Ended => Ended')
  BY <1>4, AsideKeeps
<1>6. CASE Ended
  BY <1>5, <1>6 DEF FtInv, FtFlow
<1>7. CASE ~Ended
  <2>1. PICK q, L : Flows(q, L) /\ (InStep => Matched(q, L)) /\ (~InStep => Behind(L))
    BY <1>2, <1>7 DEF FtFlow
  <2>2. Flows(q, L)'
    BY <2>1, <1>3, FlowsSame
  <2>3. QED
    BY <2>1, <2>2, <1>4, AsideFlow
<1>8. QED
  BY <1>6, <1>7

\* A transfer ends, with a reply of its own.
LEMMA TransferEnds ==
    ASSUME FtInv, serverUp, transfer # 0, transfer' = 0, NEW code \in {226, 425, 426},
           Puts(code, "transfer"),
           UNCHANGED <<ftXfer, ftData, toServer, serverUp, reaches, outOfStep, ftHistory>>
    PROVE  FtInv'
<1>1. FtTypes /\ FtFlow
  BY DEF FtInv
<1>2. "transfer" \in Askers /\ code \in Nat \ {0}
  BY DEF Askers, Commands
<1>3. fromServer' \in Seq(Lines)
  BY <1>1, <1>2, PutTyped DEF FtTypes
<1>4. Aside
  BY <1>1, <1>3 DEF Aside, ftData, ftHistory, FtTypes
<1>5. /\ FtTypes' /\ FtSocks' /\ FtPlaces' /\ (Ended => Ended') /\ call' = call
  BY <1>4, AsideKeeps
<1>6. CASE Ended
  BY <1>5, <1>6 DEF FtInv, FtFlow
<1>7. CASE ~Ended
  <2>1. PICK q, L : Flows(q, L) /\ (InStep => Matched(q, L)) /\ (~InStep => Behind(L))
    BY <1>1, <1>7 DEF FtFlow
  <2>2. NextDue(q, L, "final") /\ AfterNext(q, L)'
    BY <1>1, <2>1, FlowsEnds DEF FtTypes
  <2>3. Fits([code |-> code, to |-> "transfer"], "final")
    BY DEF Fits, Meant, Said
  <2>4. \E d : NextDue(q, L, d) /\ Fits([code |-> code, to |-> "transfer"], d)
    BY <2>2, <2>3
  <2>5. fromServer \in Seq(Lines) /\ call \in Calls /\ serverUp'
    BY <1>1 DEF FtTypes
  <2>6. Flows(Append(q, [code |-> code, to |-> "transfer"]), L)'
    BY <1>2, <1>5, <2>1, <2>2, <2>4, <2>5, FlowsPut
  <2>7. PICK k : k = Append(q, [code |-> code, to |-> "transfer"])
    OBVIOUS
  <2>8. Flows(k, L)' /\ \E e : k = Append(q, e)
    BY <2>6, <2>7
  <2>9. QED
    BY ONLY FtInv, <2>1, <2>8, <1>4, AsideFlow
<1>8. QED
  BY <1>6, <1>7

LEMMA EndsStep == FtInv /\ (ConnectBackFails \/ Finish) => FtInv'
<1>1. ASSUME FtInv, ConnectBackFails PROVE FtInv'
  <2>1. transfer # 0
    BY <1>1 DEF ConnectBackFails, FtInv, FtSocks
  <2>2. QED
    BY <2>1, <1>1, TransferEnds DEF ConnectBackFails
<1>2. ASSUME FtInv, Finish PROVE FtInv'
  <2>1. PICK code \in {226, 426} : Puts(code, "transfer")
    BY <1>2 DEF Finish
  <2>2. QED
    BY <2>1, <1>2, TransferEnds DEF Finish
<1>3. QED
  BY <1>1, <1>2

\* The server is gone, and what it has put is all there is.
LEMMA FlowsGone ==
    ASSUME NEW q, NEW L, Flows(q, L), ~serverUp', transfer' = 0, UNCHANGED <<call, fromServer>>
    PROVE  Flows(q, L)'
BY DEF Flows, Fits, Said

LEMMA GoneStep == FtInv /\ GoAway => FtInv'
<1> SUFFICES ASSUME FtInv, GoAway PROVE FtInv'
  OBVIOUS
<1>1. /\ serverUp /\ serverUp' = FALSE /\ transfer' = 0
      /\ Puts(421, "any") \/ UNCHANGED fromServer
      /\ UNCHANGED <<ftXfer, ftData, toServer, reaches, outOfStep, ftHistory>>
  BY DEF GoAway
<1>2. FtTypes /\ FtFlow
  BY DEF FtInv
<1>3. "any" \in Askers /\ 421 \in Nat \ {0}
  BY DEF Askers
<1>4. fromServer' \in Seq(Lines)
  BY <1>1, <1>2, <1>3, PutTyped DEF FtTypes
<1>5. Aside
  BY <1>1, <1>2, <1>4 DEF Aside, ftData, ftHistory, FtTypes
<1>6. /\ FtTypes' /\ FtSocks' /\ FtPlaces' /\ (Ended => Ended') /\ call' = call
  BY <1>5, AsideKeeps
<1>7. CASE Ended
  BY <1>6, <1>7 DEF FtInv, FtFlow
<1>8. CASE ~Ended
  <2>1. PICK q, L : Flows(q, L) /\ (InStep => Matched(q, L)) /\ (~InStep => Behind(L))
    BY <1>2, <1>8 DEF FtFlow
  <2>2. CASE UNCHANGED fromServer
    <3>1. Flows(q, L)'
      BY <2>1, <2>2, <1>1, <1>6, FlowsGone
    <3>2. QED
      BY <2>1, <3>1, <1>5, AsideFlow
  <2>3. CASE Puts(421, "any")
    <3>1. fromServer \in Seq(Lines) /\ call \in Calls
      BY <1>2 DEF FtTypes
    <3>2. Flows(Append(q, [code |-> 421, to |-> "any"]), L)'
      BY <2>1, <2>3, <3>1, <1>1, <1>3, <1>6, FlowsPut
    <3>3. PICK k : k = Append(q, [code |-> 421, to |-> "any"])
      OBVIOUS
    <3>4. Flows(k, L)' /\ \E e : k = Append(q, e)
      BY <3>2, <3>3
    <3>5. QED
      BY ONLY FtInv, <2>1, <3>4, <1>5, AsideFlow
  <2>4. QED
    BY <2>2, <2>3, <1>1
<1>9. QED
  BY <1>7, <1>8

-----------------------------------------------------------------------------
(* What the runs check.                                                    *)

LEMMA FtStutters == FtInv /\ UNCHANGED ftVars => FtInv'
<1> SUFFICES ASSUME FtInv, UNCHANGED ftVars PROVE FtInv'
  OBVIOUS
<1>1. FtTypes /\ FtFlow
  BY DEF FtInv
<1>2. /\ UNCHANGED <<ftXfer, dataSock, ftOpen, ftListening, made, closedTwice>>
      /\ UNCHANGED <<call, toServer, fromServer, serverUp, transfer, outOfStep, began, orphans, rounds, early>>
  BY DEF ftVars, ftXfer, ftData, ftServer, ftHistory
<1>3. Aside
  BY <1>1, <1>2 DEF Aside, FtTypes
<1>4. /\ FtTypes' /\ FtSocks' /\ FtPlaces' /\ (Ended => Ended')
  BY <1>3, AsideKeeps
<1>5. CASE Ended
  BY <1>4, <1>5 DEF FtInv, FtFlow
<1>6. CASE ~Ended
  <2>1. PICK q, L : Flows(q, L) /\ (InStep => Matched(q, L)) /\ (~InStep => Behind(L))
    BY <1>1, <1>6 DEF FtFlow
  <2>2. Flows(q, L)'
    BY <2>1, <1>2, FlowsSame
  <2>3. QED
    BY <2>1, <2>2, <1>3, AsideFlow
<1>7. QED
  BY <1>5, <1>6

LEMMA FtClientKeeps == FtInv /\ FtClientStep => FtInv'
<1>1. FtInv /\ (\E cmd \in DOMAIN Answers \cup {"transfer"} : ftpCommand(cmd)) => FtInv'
  BY CommandStep DEF Commands
<1>2. QED
  BY <1>1, FtInitStep, GreetedStep, ftpLoginStep, SetUpStep, PasvStep, SockStep, PortStep,
     TransferStep, SelectStep, SecondStep, QuitStep, RepeatStep, FinishStep DEF FtClientStep

LEMMA FtServerKeeps == FtInv /\ FtServerStep => FtInv'
BY AnswerStep, RefuseStep, BeginStep, ConnectStep, EndsStep, GoneStep DEF FtServerStep

LEMMA FtInvMatches == FtInv => RepliesMatched
<1> SUFFICES ASSUME FtInv PROVE RepliesMatched
  OBVIOUS
<1>1. FtTypes /\ FtSocks /\ FtPlaces /\ FtFlow
  BY DEF FtInv
<1>2. FtInStep
  BY <1>1 DEF FtInStep, FtSocks, InStep
<1>3. ASSUME ftAt = "reply", ~CtrlReady, transfer # 0
      PROVE  orphans # {}
  <2>1. fromServer = <<>> /\ serverUp
    BY <1>3 DEF CtrlReady
  <2>2. PICK q, L : Flows(q, L) /\ (InStep => Matched(q, L)) /\ (~InStep => Behind(L))
    BY <1>1, <1>3 DEF FtFlow, Ended
  <2>3. q \in Seq(ReplyTo) /\ Reads(fromServer, q) /\ Coming(Len(q), L)
    BY <2>1, <2>2 DEF Flows
  <2>4. q = <<>>
    <3>1. SUFFICES ASSUME q # <<>> PROVE FALSE
      OBVIOUS
    <3>2. LastLine(fromServer) \in 1 .. Len(fromServer)
      BY <3>1, <2>3, <1>1, ReadsFirst DEF FtTypes
    <3>3. Len(fromServer) = 0
      BY <2>1
    <3>4. QED
      BY <3>2, <3>3
  <2>5. L[1] = "final"
    <3>1. Len(q) = 0
      BY <2>4
    <3>2. QED
      BY <2>3, <3>1, <1>3 DEF Coming
  <2>6. \A a : <<a>>[1] = a
    OBVIOUS
  <2>7. \A a, b : <<a, b>>[1] = a
    OBVIOUS
  <2>8. \A a, b, c : <<a, b, c>>[1] = a
    OBVIOUS
  <2>9. ~InStep
    <3>1. ftCmd # "final"
      BY <1>1, <1>3, AnswersTyped DEF FtPlaces, Talking, Commands
    <3>2. QED
      BY <3>1, <2>1, <2>2, <2>4, <2>5, <2>6, <2>7, <1>3 DEF Matched
  <2>10. QED
    BY <2>2, <2>5, <2>6, <2>7, <2>8, <2>9 DEF Behind
<1>4. QED
  BY <1>2, <1>3 DEF RepliesMatched, FtNoStandoff

LEMMA FtInvAccounts == FtInv => TransfersAccounted
BY DEF FtInv, FtTypes, FtSocks, FtPlaces, Strayed,
       TransfersAccounted, FtSocketsReturned, FtOkMeansBegun, FtClosedOnce

\* The client is in step, or one reply behind after a greeting in two replies or
\* a command sent again; and its sockets are those that ftpXfer knows of.
THEOREM FtInvHolds == TransfersSpec => []FtInv
<1>1. TransfersInit => FtInv
  BY FtInitInv DEF TransfersInit
<1>2. FtInv /\ [TransfersNext]_transfersVars => FtInv'
  <2>1. FtInv /\ FtNext => FtInv'
    BY FtClientKeeps, FtServerKeeps DEF FtNext
  <2>2. QED
    BY <2>1, FtStutters DEF TransfersNext, transfersVars
<1>3. QED
  BY <1>1, <1>2, PTL DEF TransfersSpec

\* Replies are read for the commands they answer, and client and server do not
\* wait for each other, but where ftpXfer's loop (ftpLib.c:628) or a greeting
\* in two replies has put them out of step before.
THEOREM RepliesMatchedHolds == TransfersSpec => []RepliesMatched
<1>1. QED
  BY FtInvHolds, FtInvMatches, PTL

\* ftpXfer closes or returns every socket it opens, each once, and OK means a
\* transfer, but for a lost connection (ftpLib.c:552).
THEOREM TransfersAccountedHolds == TransfersSpec => []TransfersAccounted
<1>1. QED
  BY FtInvHolds, FtInvAccounts, PTL

=============================================================================
