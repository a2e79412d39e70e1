---------------------------- MODULE MCTransfers -----------------------------
(***************************************************************************)
(* Three ends of connections for TLC: the threads of server_tool, the FTP  *)
(* client, and the server that reads its clients' requests through a ring  *)
(* of blocks.  They share nothing: a behaviour picks one and steps it      *)
(* only.                                                                   *)
(***************************************************************************)
EXTENDS UpdateServer, FtpClient, MreadPull, TLC

VARIABLE end

transfersVars == <<end, vars, ftVars, pullVars>>

TransfersInit ==
    /\ end \in {"threads", "ftp", "pull"}
    /\ Init /\ FtInit /\ PullInit
    \* How ftpXfer was called does not matter to the others.
    /\ end # "ftp" => call = CHOOSE c \in Calls : TRUE

TransfersNext ==
    /\ UNCHANGED end
    /\ \/ end = "threads" /\ Next /\ UNCHANGED <<ftVars, pullVars>>
       \/ end = "ftp" /\ FtNext /\ UNCHANGED <<vars, pullVars>>
       \/ end = "pull" /\ PullNext /\ UNCHANGED <<vars, ftVars>>

TransfersSpec == TransfersInit /\ [][TransfersNext]_transfersVars

\* Clients are alike, and so are threads.
Alike == Permutations(Clients) \cup Permutations(Handlers)

\* Replies are read for the commands they answer, and nobody waits for the one
\* who waits for him, but where ftpXfer's loop or the greeting has gone wrong
\* before (ftpLib.c:628, 909).
RepliesMatched == FtInStep /\ FtNoStandoff

\* What ftpXfer returns is what it has: its sockets are returned or closed, each
\* once, and OK means a transfer, but for a lost connection (ftpLib.c:552).
TransfersAccounted == FtSocketsReturned /\ FtOkMeansBegun /\ FtClosedOnce

\* What the server does to a client's bytes between recv and servers(): the
\* blocks that hold them stay the client's own until they were handed on, and a
\* request that is handed on is what was sent, the second of a connection as the
\* first (ringbuffer.c, mread_pull); but for a request that came in three pieces
\* (ringbuffer.c:370), and for the clients whose blocks were taken without
\* closing them (server.c:648), and those in whose blocks the server writes on
\* account of these.
RequestsIntact == RingWhole /\ RequestsWhole

=============================================================================
