----------------------------- MODULE FtpClient ------------------------------
(***************************************************************************)
(* The FTP client of src/c/ftp/ftpLib.c: one call of ftpXfer, which logs   *)
(* in, sets up a data connection (PASV, or else PORT) and sends the command *)
(* of the transfer, again if the answer is transient.                      *)
(*                                                                         *)
(* The server is any that keeps to RFC 959: it answers one command after   *)
(* the other, in one line or in several, finishes a transfer before it     *)
(* looks at the next command, and may go away at any time.                 *)
(***************************************************************************)
EXTENDS Integers, Sequences, FiniteSets, FiniteSetsExt

CONSTANTS
    ftplTransientMaxRetryCount,
    MaxRounds       \* bound: how often the command of the transfer is sent

ASSUME FtpAssumption == ftplTransientMaxRetryCount \in Nat /\ MaxRounds \in Nat

VARIABLES
    \* ftpXfer.  call is what it was called with: whether pDataSock is given
    \* and what the command does, a directory, and ftplPasvModeDisable.
    call,
    ftAt, ftCmd,    \* "send", "unsent" or "reply" of which command, or where else
    ctrlOpen,       \* the control socket
    dataSock,       \* the number of the data socket, 0 if there was none
    dataSockPassive, ftpReply, retryCount,
    ftOpen,         \* the data sockets that are open
    ftListening,    \* those that listen
    ftWaiting,      \* those with a connection to accept
    \* The control connection and the server.
    toServer, fromServer, serverUp,
    reaches,        \* the data socket of the last PASV or PORT
    transfer,       \* the one it transfers over, 0 if it does not
    \* History.
    made,           \* data sockets made
    began,          \* those over which a transfer began
    orphans,        \* those that ftpXfer left open when it tried again
    rounds,         \* how often the command was sent
    outOfStep,      \* a reply was taken for that of another command
    early,          \* the server greeted with 120 before 220
    closedTwice     \* a data socket was closed that was not open

ftXfer    == <<call, ftAt, ftCmd, ctrlOpen, dataSockPassive, ftpReply, retryCount>>
ftData    == <<dataSock, ftOpen, ftListening, ftWaiting, made, closedTwice>>
ftServer  == <<toServer, fromServer, serverUp, reaches, transfer, outOfStep>>
ftHistory == <<began, orphans, rounds, early>>
ftVars    == <<ftXfer, ftData, ftServer, ftHistory>>

FTP_PRELIM == 1
FTP_COMPLETE == 2
FTP_CONTINUE == 3
FTP_TRANSIENT == 4
FTP_ERROR == 5
FTP_PASSIVE_REPLY == 227
ERROR == -1

Calls == [data : {"none", "stores", "retrieves"}, dirname : BOOLEAN, noPasv : BOOLEAN]

FtInit ==
    /\ call \in Calls
    /\ ftAt = "start" /\ ftCmd = "none" /\ ctrlOpen = FALSE
    /\ dataSock = 0 /\ dataSockPassive = TRUE /\ ftpReply = 0 /\ retryCount = 0
    /\ ftOpen = {} /\ ftListening = {} /\ ftWaiting = {}
    /\ toServer = <<>> /\ fromServer = <<>> /\ serverUp = TRUE
    /\ reaches = 0 /\ transfer = 0
    /\ made = 0 /\ began = {} /\ orphans = {} /\ rounds = 0
    /\ outOfStep = FALSE /\ early = FALSE /\ closedTwice = FALSE

---------------------------------------------------------------------------
(* Commands and replies.  A line of a reply is its code, -1 if it does not *)
(* begin with three digits and 0 if it is shorter, and whether a '-' comes *)
(* fourth; and the command that the server meant to answer.                *)

FirstOf(places) == IF places = {} THEN 0 ELSE Min(places)

\* The reply has the code of the first line that is long enough for one.
Coded(lines) == {i \in DOMAIN lines : lines[i].code # 0}
origCode(lines) == IF Coded(lines) = {} THEN 0 ELSE lines[FirstOf(Coded(lines))].code

\* It ends with a line that has this code and is not continued.
\* (A slip would not look at the continuation.)
FirstLine(lines) == FirstOf({i \in Coded(lines) : lines[i].code = origCode(lines)})
LastLine(lines) == FirstOf({i \in Coded(lines) : lines[i].code = origCode(lines) /\ ~lines[i].more})

Awaited == IF ftCmd = "second" THEN "transfer" ELSE ftCmd

\* ftpReplyGetEnhanced: a whole reply, or ERROR at the end of the connection;
\* that is also what a command gets that could not be written.
ftpReplyGet(cmd, code) ==
    /\ ftCmd = cmd
    /\ \/ /\ ftAt = "reply" /\ LastLine(fromServer) # 0
          /\ code = origCode(fromServer)
          /\ fromServer' = SubSeq(fromServer, LastLine(fromServer) + 1, Len(fromServer))
          /\ outOfStep' = (outOfStep \/ fromServer[LastLine(fromServer)].to \notin {Awaited, "any"})
       \/ /\ \/ ftAt = "reply" /\ LastLine(fromServer) = 0 /\ ~serverUp
             \/ ftAt = "unsent"
          /\ code = ERROR
          /\ UNCHANGED <<fromServer, outOfStep>>
    /\ UNCHANGED <<toServer, serverUp, transfer, call>>

\* What there is to get.  ftpCommand and ftpReplyGet divide it by 100.
Codes == {origCode(fromServer), ERROR}
Digit(code) == IF code < 0 THEN 0 ELSE code \div 100

ftpCommand(cmd) ==
    /\ ftAt = "send" /\ ftCmd = cmd
    /\ cmd = "transfer" => rounds < MaxRounds
    /\ \/ ftAt' = "reply" /\ toServer' = Append(toServer, [cmd |-> cmd, sock |-> dataSock])
       \/ ~serverUp /\ ftAt' = "unsent" /\ UNCHANGED toServer
    /\ rounds' = IF cmd = "transfer" THEN rounds + 1 ELSE rounds
    /\ UNCHANGED <<call, ftCmd, ctrlOpen, dataSockPassive, ftpReply, retryCount, ftData,
                   fromServer, serverUp, reaches, transfer, outOfStep, began, orphans, early>>

Says(cmd) == ftAt' = "send" /\ ftCmd' = cmd /\ UNCHANGED ctrlOpen
GoesTo(place) == ftAt' = place /\ UNCHANGED <<ftCmd, ctrlOpen>>
Hears(cmd) == ftAt' = "reply" /\ ftCmd' = cmd /\ UNCHANGED ctrlOpen

\* close (ctrlSock); return (ERROR);
GivesUp == ftAt' = "error" /\ ctrlOpen' = FALSE /\ UNCHANGED ftCmd

\* close (dataSock).  (A slip would forget it.)
ForgetsData == UNCHANGED <<dataSock, ftOpen, ftListening, ftWaiting, made, closedTwice>>
CloseData ==
    /\ ftOpen' = ftOpen \ {dataSock}
    /\ ftListening' = ftListening \ {dataSock}
    /\ ftWaiting' = ftWaiting \ {dataSock}
    /\ closedTwice' = (closedTwice \/ dataSock \notin ftOpen)
    /\ UNCHANGED <<dataSock, made>>

loopState == <<dataSockPassive, ftpReply, retryCount>>
steady == <<loopState, reaches, ftHistory>>

---------------------------------------------------------------------------
(* ftpHookup and ftpLogin                                                  *)

Line(code, more, to) == [code |-> code, more |-> more, to |-> to]

\* One line, or several: continued, with an empty one and one of text.
Replies(code, to) ==
    {<<Line(code, FALSE, to)>>,
     <<Line(code, TRUE, to), Line(0, FALSE, to), Line(ERROR, FALSE, to),
       Line(code, TRUE, to), Line(code, FALSE, to)>>}

\* The server greets; it may say that it is not ready yet, or not at all.
ftpHookup ==
    /\ ftAt = "start"
    /\ \/ /\ \E first \in BOOLEAN, r \in Replies(220, "greeting") :
                /\ early' = first
                /\ fromServer' = (IF first THEN <<Line(120, FALSE, "greeting")>> ELSE <<>>) \o r
          /\ ftAt' = "reply" /\ ftCmd' = "greeting" /\ ctrlOpen' = TRUE
       \/ GivesUp /\ UNCHANGED <<early, fromServer>>
    /\ UNCHANGED <<call, loopState, ftData, toServer, serverUp, reaches, transfer, outOfStep,
                   began, orphans, rounds>>

\* One reply is read, whatever it says.
Greeted ==
    /\ \E code \in Codes : ftpReplyGet("greeting", code)
    /\ Says("USER")
    /\ UNCHANGED <<ftData, steady>>

LoginSteps == {"USER", "PASS", "ACCT"}
AfterStep(cmd) == IF cmd = "USER" THEN "PASS" ELSE "ACCT"

ftpLogin ==
    /\ \E cmd \in LoginSteps, code \in Codes :
         /\ ftpReplyGet(cmd, code)
         /\ LET n == Digit(code) IN
            \/ n = FTP_COMPLETE /\ Says("TYPE")
            \/ n = FTP_CONTINUE /\ cmd # "ACCT" /\ Says(AfterStep(cmd))
            \/ n # FTP_COMPLETE /\ (n # FTP_CONTINUE \/ cmd = "ACCT") /\ GivesUp
    /\ UNCHANGED <<ftData, steady>>

---------------------------------------------------------------------------
(* ftpXfer                                                                 *)

\* do {: ftpDataConnInitPassiveMode, which may be disabled.
Round == IF call.noPasv THEN GoesTo("init") ELSE Says("PASV")

\* A command without a data connection comes first, if there is to be none.
Begins == IF call.data = "none" THEN Says("simple") ELSE Round

SetUp ==
    /\ \E cmd \in {"TYPE", "CWD"}, code \in Codes :
         /\ ftpReplyGet(cmd, code)
         /\ IF Digit(code) # FTP_COMPLETE THEN GivesUp
            ELSE IF cmd = "TYPE" /\ call.dirname THEN Says("CWD") ELSE Begins
    /\ UNCHANGED <<ftData, steady>>

\* pDataSock == NULL: and then the code goes on, to the data connection.
WithoutData ==
    /\ \E code \in Codes :
         /\ ftpReplyGet("simple", code)
         /\ IF Digit(code) # FTP_COMPLETE THEN GivesUp ELSE Round
    /\ UNCHANGED <<ftData, steady>>

NewSock(listens) ==
    /\ made' = made + 1 /\ dataSock' = made + 1
    /\ ftListening' = IF listens THEN (ftListening \ {dataSock}) \cup {made + 1} ELSE ftListening

\* The connection to the port of the reply may fail, and always does if no
\* port could be read from it (ftpPasvReplyParse's result is not looked at).
ftpDataConnInitPassiveMode ==
    /\ \E code \in Codes :
         /\ ftpReplyGet("PASV", code)
         /\ \/ /\ code = FTP_PASSIVE_REPLY /\ serverUp
               /\ NewSock(FALSE) /\ ftOpen' = ftOpen \cup {made + 1}
               /\ reaches' = made + 1
               /\ dataSockPassive' = TRUE
               /\ Says("transfer")
               /\ UNCHANGED <<ftWaiting, closedTwice>>
            \/ GoesTo("init") /\ UNCHANGED <<ftData, reaches, dataSockPassive>>
    /\ UNCHANGED <<ftpReply, retryCount, ftHistory>>

\* ftpDataConnInit: socket, bind and listen, any of which may fail.
ftpDataConnInit ==
    /\ ftAt = "init"
    /\ \/ /\ NewSock(TRUE) /\ ftOpen' = ftOpen \cup {made + 1}
          /\ Says("PORT")
          /\ UNCHANGED <<ftWaiting, closedTwice>>
       \/ GivesUp /\ UNCHANGED ftData
    /\ UNCHANGED <<call, loopState, ftServer, ftHistory>>

\* A server that does not know PORT is expected at the control socket's port.
PortAnswered ==
    /\ \E code \in Codes :
         /\ ftpReplyGet("PORT", code)
         /\ LET result == Digit(code) IN
            \/ /\ result \in {FTP_COMPLETE, FTP_PRELIM}
               /\ dataSockPassive' = FALSE /\ Says("transfer") /\ UNCHANGED ftData
            \/ /\ result = FTP_ERROR
               /\ NewSock(TRUE) /\ ftOpen' = (ftOpen \ {dataSock}) \cup {made + 1}
               /\ dataSockPassive' = FALSE /\ Says("transfer")
               /\ UNCHANGED <<ftWaiting, closedTwice>>
            \/ /\ result \notin {FTP_COMPLETE, FTP_PRELIM}
               /\ CloseData /\ GivesUp /\ UNCHANGED dataSockPassive
    /\ UNCHANGED <<ftpReply, retryCount, reaches, ftHistory>>

\* Transient replies that are not.
ftpTransientFatal(reply) == reply \in {421, 450, 451, 452}

\* The command was accepted: a PORT connection is looked at first.
Proceeds == GoesTo(IF dataSockPassive THEN "bottom" ELSE "select")

TransferAnswered ==
    /\ \E code \in Codes :
         /\ ftpReplyGet("transfer", code)
         /\ LET n == Digit(code) IN
            \/ n = FTP_PRELIM /\ Proceeds /\ UNCHANGED <<ftData, ftpReply, retryCount>>
            \/ /\ n = FTP_ERROR \/ ftpTransientFatal(code)
               /\ CloseData /\ GivesUp /\ UNCHANGED <<ftpReply, retryCount>>
            \/ /\ n = FTP_TRANSIENT /\ ~ftpTransientFatal(code)
               /\ CloseData /\ ftpReply' = n
               /\ IF retryCount < ftplTransientMaxRetryCount
                  THEN retryCount' = retryCount + 1 /\ GoesTo("bottom")
                  ELSE GivesUp /\ UNCHANGED retryCount
            \/ /\ n \notin {FTP_PRELIM, FTP_ERROR, FTP_TRANSIENT}
               /\ CloseData /\ ftpReply' = n /\ Proceeds /\ UNCHANGED retryCount
    /\ UNCHANGED <<dataSockPassive, reaches, ftHistory>>

\* select on both sockets, for 10 seconds; it fails on a closed one.
CtrlReady == fromServer # <<>> \/ ~serverUp
DataReady == dataSock \in ftWaiting

SelectBoth ==
    /\ ftAt = "select"
    /\ \/ dataSock \notin ftOpen /\ CloseData /\ GivesUp
       \/ dataSock \in ftOpen /\ CtrlReady /\ ~DataReady /\ CloseData /\ Hears("second")
       \/ dataSock \in ftOpen /\ (DataReady \/ ~CtrlReady) /\ GoesTo("bottom") /\ UNCHANGED ftData
    /\ UNCHANGED <<call, loopState, ftServer, ftHistory>>

\* A second reply to the command came instead of the connection.
SecondAnswered ==
    /\ \E code \in Codes :
         /\ ftpReplyGet("second", code)
         /\ ftpReply' = Digit(code)
         /\ IF Digit(code) = FTP_TRANSIENT THEN GoesTo("bottom") ELSE Says("QUIT")
    /\ UNCHANGED <<dataSockPassive, retryCount, reaches, ftData, ftHistory>>

QuitAnswered ==
    /\ \E code \in Codes : ftpReplyGet("QUIT", code)
    /\ GivesUp
    /\ UNCHANGED <<ftData, steady>>

\* } while (ftpReply == FTP_TRANSIENT), which nothing but another bad answer
\* resets: a command that was accepted is sent again.
Repeats ==
    /\ ftAt = "bottom"
    /\ ftpReply = FTP_TRANSIENT
    /\ orphans' = orphans \cup ({dataSock} \cap ftOpen)
    /\ Round
    /\ UNCHANGED <<call, loopState, ftData, ftServer, began, rounds, early>>

\* ftpDataConnGet does not wait, the socket being non-blocking.  The number of
\* the connection is that of a new socket.
ftpDataConnGet ==
    \/ /\ DataReady
       /\ made' = made + 1 /\ dataSock' = made + 1
       /\ ftOpen' = (ftOpen \ {dataSock}) \cup {made + 1}
       /\ ftListening' = ftListening \ {dataSock}
       /\ ftWaiting' = ftWaiting \ {dataSock}
       /\ began' = began \cup {made + 1}
       /\ transfer' = IF transfer = dataSock THEN made + 1 ELSE transfer
       /\ GoesTo("ok")
       /\ UNCHANGED closedTwice
    \/ ~DataReady /\ CloseData /\ GivesUp /\ UNCHANGED <<began, transfer>>

Finishes ==
    /\ ftAt = "bottom"
    /\ ftpReply # FTP_TRANSIENT
    /\ IF dataSockPassive THEN GoesTo("ok") /\ UNCHANGED <<ftData, began, transfer>>
       ELSE ftpDataConnGet
    /\ UNCHANGED <<call, loopState, toServer, fromServer, serverUp, reaches, outOfStep,
                   orphans, rounds, early>>

---------------------------------------------------------------------------
(* The server                                                              *)

Answers == [USER |-> {230, 331, 332, 530}, PASS |-> {230, 332, 530}, ACCT |-> {230, 530},
            TYPE |-> {200, 504}, CWD |-> {250, 550}, PASV |-> {227, 502}, PORT |-> {200, 500},
            QUIT |-> {221}, simple |-> {250, 450, 550}]

\* Where it would connect to, or is connected: by default, the control port.
PeerSock ==
    IF reaches \in ftOpen THEN reaches ELSE IF ftListening # {} THEN Max(ftListening) ELSE 0

Takes == serverUp /\ transfer = 0 /\ toServer # <<>> /\ toServer' = Tail(toServer)
Puts(code, to) == \E r \in Replies(code, to) : fromServer' = fromServer \o r

Answer ==
    /\ Takes
    /\ LET c == Head(toServer)
           like == IF c.cmd = "transfer" /\ call.data = "none" THEN "simple" ELSE c.cmd IN
       /\ like # "transfer"
       /\ \E code \in Answers[like] :
            /\ Puts(code, c.cmd)
            /\ reaches' = IF code = 200 /\ c.cmd = "PORT" THEN c.sock
                          ELSE IF code = 227 THEN 0 ELSE reaches
    /\ UNCHANGED <<ftXfer, ftData, serverUp, transfer, outOfStep, ftHistory>>

Refuse ==
    /\ Takes
    /\ Head(toServer).cmd = "transfer" /\ call.data # "none"
    /\ \E code \in {425, 450, 550} : Puts(code, "transfer")
    /\ UNCHANGED <<ftXfer, ftData, serverUp, reaches, transfer, outOfStep, ftHistory>>

Begin ==
    /\ Takes
    /\ Head(toServer).cmd = "transfer" /\ call.data # "none"
    /\ PeerSock # 0
    /\ Puts(150, "transfer")
    /\ transfer' = PeerSock
    /\ began' = IF PeerSock \in ftListening THEN began ELSE began \cup {PeerSock}
    /\ UNCHANGED <<ftXfer, ftData, serverUp, reaches, outOfStep, orphans, rounds, early>>

\* It connects to the port that it was given, or says that it could not.
ConnectBack ==
    /\ serverUp /\ transfer \in ftListening \ ftWaiting
    /\ ftWaiting' = ftWaiting \cup {transfer}
    /\ UNCHANGED <<ftXfer, dataSock, ftOpen, ftListening, made, closedTwice, ftServer, ftHistory>>

ConnectBackFails ==
    /\ serverUp /\ transfer \in ftListening \ ftWaiting
    /\ Puts(425, "transfer")
    /\ transfer' = 0
    /\ UNCHANGED <<ftXfer, ftData, toServer, serverUp, reaches, outOfStep, ftHistory>>

\* What is retrieved ends by itself; what is stored, when the client closes.
Finish ==
    /\ serverUp /\ transfer # 0 /\ transfer \notin ftListening \ ftWaiting
    /\ transfer \in ftOpen => call.data = "retrieves"
    /\ \E code \in {226, 426} : Puts(code, "transfer")
    /\ transfer' = 0
    /\ UNCHANGED <<ftXfer, ftData, toServer, serverUp, reaches, outOfStep, ftHistory>>

\* With a word (421) or without.
GoAway ==
    /\ serverUp /\ ctrlOpen
    /\ serverUp' = FALSE /\ transfer' = 0
    /\ Puts(421, "any") \/ UNCHANGED fromServer
    /\ UNCHANGED <<ftXfer, ftData, toServer, reaches, outOfStep, ftHistory>>

FtServerStep == Answer \/ Refuse \/ Begin \/ ConnectBack \/ ConnectBackFails \/ Finish \/ GoAway

FtClientStep ==
    \/ ftpHookup \/ Greeted \/ ftpLogin \/ SetUp \/ WithoutData
    \/ \E cmd \in DOMAIN Answers \cup {"transfer"} : ftpCommand(cmd)
    \/ ftpDataConnInitPassiveMode \/ ftpDataConnInit \/ PortAnswered
    \/ TransferAnswered \/ SelectBoth \/ SecondAnswered \/ QuitAnswered \/ Repeats \/ Finishes

FtNext == FtClientStep \/ FtServerStep

FtSpec == FtInit /\ [][FtNext]_ftVars

---------------------------------------------------------------------------
(* What a caller of ftpXfer may rely on.                                   *)

\* A reply is read for the command it answers, unless the server greets twice
\* (ftpHookup reads one reply) or a command that was accepted is sent again
\* (ftpXfer's loop, ftpLib.c:628).
FtInStep == outOfStep => early \/ orphans # {}

\* Client and server wait for each other only in that second case: the server
\* for data, the client for the answer to its next command.
FtNoStandoff ==
    ftAt = "reply" /\ ~CtrlReady /\ transfer # 0 /\ call.data = "stores" => orphans # {}

\* ftpXfer leaves no socket behind but those of such commands: after an error
\* none is open, and otherwise the two that the caller is given.
FtSocketsReturned ==
    /\ ftAt = "error" => ~ctrlOpen /\ ftOpen \subseteq orphans
    /\ ftAt = "ok" => ctrlOpen /\ ftOpen \subseteq {dataSock}

\* OK means that a transfer began on the data socket, unless the connection
\* was lost or out of step (the answer is then none of 1xx, 4xx and 5xx, and
\* ftpXfer goes on with the socket it has closed, ftpLib.c:552).
FtOkMeansBegun ==
    ftAt = "ok" /\ call.data # "none" =>
        dataSock \in ftOpen \cap began \/ ~serverUp \/ outOfStep

\* And only then is a socket closed that was closed before.
FtClosedOnce == closedTwice => ~serverUp \/ outOfStep \/ call.data = "none"

\* If pDataSock is NULL, "no data connection will be established"
\* (ftpXfer, ftpLib.c:414).
NoDataConnection == call.data = "none" => made = 0

=============================================================================
