----------------------------- MODULE MucServer -----------------------------
(***************************************************************************)
(* The server of the centralised chat (class MucServer): it accepts every  *)
(* connection, remembers the accepted sockets in m_clients, and writes     *)
(* every message it reads from one of them to all the others.              *)
(***************************************************************************)
EXTENDS TcpSockets

CONSTANT ServerMayStop   \* the run schedules a StopApplication of the server

ASSUME ServerMayStopAssumption == ServerMayStop \in BOOLEAN

VARIABLES
  armed,       \* m_socket (the LISTENING socket) carries the close callbacks
  clients,     \* m_clients: the accepted sockets
  srvStopped,  \* StopApplication has run
  history,     \* history variable: all messages relayed, in relay order
  join         \* history variable: Len(history) when a session was accepted

serverVars == << armed, clients, srvStopped, history, join >>

ServerTypeOK ==
  /\ armed \in BOOLEAN
  /\ clients \in SUBSET Session
  /\ srvStopped \in BOOLEAN
  /\ history \in Seq(Message)
  /\ join \in [Session -> Nat]

ServerInit ==
  /\ armed = FALSE
  /\ clients = {}
  /\ srvStopped = FALSE
  /\ history = << >>
  /\ join = [s \in Session |-> 0]

(* MucServer::StartApplication: create, bind and listen.                   *)
ServerStart ==
  /\ ~listening
  /\ listening' = TRUE
  /\ UNCHANGED << conn, epoch, sess, errCb, up, taken, down, heard, faults,
                  serverVars >>

(* A SYN of c arrives: the library asks OnConnectionRequest, which always  *)
(* accepts, and makes the new socket as a copy of the listening socket.    *)
(* Whether the copy inherits the close callbacks that the listening socket *)
(* carries by then is the library's choice.                                *)
OnConnectionRequest(c) ==
  LET s == << c, epoch[c] + 1 >> IN
  /\ listening
  /\ conn[c] = "connecting"
  /\ epoch[c] <= MaxFaults
  /\ epoch' = [epoch EXCEPT ![c] = @ + 1]
  /\ conn' = [conn EXCEPT ![c] = "handshake"]
  /\ sess' = [sess EXCEPT ![s] = "syn"]
  /\ \E inherits \in {FALSE, armed} : errCb' = [errCb EXCEPT ![s] = inherits]
  /\ UNCHANGED << listening, up, taken, down, heard, faults, serverVars >>

OnConnectionAccept_NoPushBack(s) ==
  /\ s = Current(s[1])
  /\ sess[s] = "acked"
  /\ sess' = [sess EXCEPT ![s] = "open"]
  /\ armed' = TRUE
  /\ join' = [join EXCEPT ![s] = Len(history)]
  /\ UNCHANGED << conn, epoch, errCb, up, taken, down, heard, faults,
                  listening, srvStopped, history, clients >>

(* The handshake completes.  The receive callback goes to the new socket,  *)
(* the close callbacks go to m_socket.                                     *)
OnConnectionAccept(s) ==
  /\ s = Current(s[1])
  /\ sess[s] = "acked"
  /\ sess' = [sess EXCEPT ![s] = "open"]
  /\ clients' = clients \union {s}
  /\ armed' = TRUE
  /\ join' = [join EXCEPT ![s] = Len(history)]
  /\ UNCHANGED << conn, epoch, errCb, up, taken, down, heard, faults,
                  listening, srvStopped, history >>

(* A send succeeds as long as the server's own end of the session is open; *)
(* the return value of Send is ignored.                                    *)
SendTo(recipients, batch) ==
  down' = [t \in Session |->
             IF t \in recipients /\ sess[t] = "open" THEN down[t] \o batch ELSE down[t]]

(* The server still reads what arrives on s.                              *)
Readable(s) == s = Current(s[1]) /\ sess[s] \in {"open", "closed"}

(* Mutant: the originator is not skipped.                                  *)
RebroadcastIncomingMsg_Echo(s) ==
  \E n \in 1 .. Len(up[s]) - taken[s] :
    LET batch == SubSeq(up[s], taken[s] + 1, taken[s] + n) IN
    /\ Readable(s)
    /\ taken' = [taken EXCEPT ![s] = @ + n]
    /\ SendTo(clients, batch)
    /\ history' = history \o batch
    /\ UNCHANGED << conn, epoch, sess, errCb, up, heard, faults,
                    listening, armed, clients, srvStopped, join >>

(* Mutant: only the first of the messages that arrived together is relayed. *)
RebroadcastIncomingMsg_OnlyFirst(s) ==
  \E n \in 1 .. Len(up[s]) - taken[s] :
    LET batch == SubSeq(up[s], taken[s] + 1, taken[s] + n) IN
    /\ Readable(s)
    /\ taken' = [taken EXCEPT ![s] = @ + n]
    /\ SendTo(clients \ {s}, << batch[1] >>)
    /\ history' = history \o batch
    /\ UNCHANGED << conn, epoch, sess, errCb, up, heard, faults,
                    listening, armed, clients, srvStopped, join >>

(* Mutant: the loop wants more than a header, so it leaves the last one    *)
(* behind when its body is empty or has not arrived.                       *)
RebroadcastIncomingMsg_OffByOne(s) ==
  \E n \in 1 .. (Len(up[s]) - taken[s]) - 1 :
    LET batch == SubSeq(up[s], taken[s] + 1, taken[s] + n) IN
    /\ Readable(s)
    /\ taken' = [taken EXCEPT ![s] = @ + n]
    /\ SendTo(clients \ {s}, batch)
    /\ history' = history \o batch
    /\ UNCHANGED << listening, conn, epoch, sess, errCb, up, heard, faults,
                    armed, clients, srvStopped, join >>

(* Some more of the stream of s has arrived, with n further headers in it. *)
(* The loop relays each as soon as its header is there, to everyone but    *)
(* the socket it was read from.                                            *)
RebroadcastIncomingMsg(s) ==
  \E n \in 1 .. Len(up[s]) - taken[s] :
    LET batch == SubSeq(up[s], taken[s] + 1, taken[s] + n) IN
    /\ Readable(s)
    /\ taken' = [taken EXCEPT ![s] = @ + n]
    /\ SendTo(clients \ {s}, batch)
    /\ history' = history \o batch
    /\ UNCHANGED << conn, epoch, sess, errCb, up, heard, faults,
                    listening, armed, clients, srvStopped, join >>

(* The server's socket of s breaks: on its own account, or because the     *)
(* client's side of s is gone.  MucServer::OnError forgets the socket, but *)
(* only a socket that inherited the callbacks calls it; any other stays in *)
(* m_clients for good.                                                     *)
ServerOnError(s) ==
  /\ sess[s] \in {"open", "closed"}
  /\ \/ Fault
     \/ NoFault /\ ~(s = Current(s[1]) /\ Attached(s[1]))
  /\ sess' = [sess EXCEPT ![s] = "dead"]
  /\ clients' = IF errCb[s] THEN clients \ {s} ELSE clients
  /\ UNCHANGED << conn, epoch, errCb, up, taken, down, heard,
                  listening, armed, srvStopped, history, join >>

(* MucServer::StopApplication closes every accepted socket; the listening  *)
(* socket stays open and m_clients keeps its entries.                      *)
ServerStop ==
  /\ ServerMayStop
  /\ listening
  /\ ~srvStopped
  /\ srvStopped' = TRUE
  /\ sess' = [s \in Session |->
                IF s \in clients /\ sess[s] = "open" THEN "closed" ELSE sess[s]]
  /\ UNCHANGED << conn, epoch, errCb, up, taken, down, heard, faults,
                  listening, armed, clients, history, join >>
=============================================================================
