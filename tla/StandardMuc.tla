---------------------------- MODULE StandardMuc ----------------------------
(***************************************************************************)
(* The centralised chat: one MucServer and the MucClients, connected by    *)
(* TCP.  Every step is one callback or scheduled event of the simulator,   *)
(* which runs them one at a time; the order in which they come is free.    *)
(***************************************************************************)
EXTENDS MucServer, MucClient, LogReader

vars == << tcpVars, serverVars, clientVars >>

Init == TcpInit /\ ServerInit /\ ClientInit

ClientNext(c) ==
  \/ StartApplication(c)
  \/ RetryConnect(c)
  \/ OnConnectSucceed(c)
  \/ OnConnectFailed(c)
  \/ OnShutdown(c)
  \/ OnError(c)
  \/ StopApplication(c)
  \/ SendMessage(c)
  \/ OnRecvMessage(c)

ServerNext ==
  \/ ServerStart
  \/ ServerStop
  \/ \E c \in Client : OnConnectionRequest(c)
  \/ \E s \in Session :
       OnConnectionAccept(s) \/ RebroadcastIncomingMsg(s) \/ ServerOnError(s)

(* The two applications share the sockets and nothing else.  Nothing runs  *)
(* after a null dereference.                                               *)
ServerRuns(A) == ~aborted /\ A /\ UNCHANGED clientVars

ClientRuns(A) == ~aborted /\ A /\ UNCHANGED serverVars

Next ==
  \/ ServerRuns(ServerNext)
  \/ \E c \in Client : ClientRuns(ClientNext(c))

Spec == Init /\ [][Next]_vars

(* The simulator runs every scheduled event, and the library completes     *)
(* handshakes and delivers what was sent.  Nothing forces a fault, a stop  *)
(* or the detection of a broken peer.                                      *)
Fairness ==
  /\ WF_vars(ServerRuns(ServerStart))
  /\ \A c \in Client :
       /\ WF_vars(ClientRuns(StartApplication(c)))
       /\ WF_vars(ClientRuns(RetryConnect(c)))
       /\ WF_vars(ServerRuns(OnConnectionRequest(c)))
       /\ WF_vars(ClientRuns(OnConnectSucceed(c)))
       /\ WF_vars(ClientRuns(SendMessage(c)))
       /\ WF_vars(ClientRuns(OnRecvMessage(c)))
  /\ \A s \in Session :
       /\ WF_vars(ServerRuns(OnConnectionAccept(s)))
       /\ WF_vars(ServerRuns(RebroadcastIncomingMsg(s)))

FairSpec == Spec /\ Fairness
-----------------------------------------------------------------------------
TypeOK == TcpTypeOK /\ ServerTypeOK /\ ClientTypeOK

(* The sessions a client has had so far.                                   *)
Reached(c) == 1 .. epoch[c]

(* Message j of session l comes after message i of session k.              *)
Later(k, i, l, j) == k < l \/ (k = l /\ i < j)

(* Whatever a client hears of one sender comes in the order of the         *)
(* sender's sequence numbers and never twice, even when sender, listener   *)
(* or both lose their connection and come back (OnRecvMessage,             *)
(* RebroadcastIncomingMsg, SendMessage).                                   *)
HeardInOrder ==
  \A c \in Client : \A k, l \in Reached(c) :
    \A i \in 1 .. heard[<< c, k >>], j \in 1 .. heard[<< c, l >>] :
      LET m == down[<< c, k >>][i]
          n == down[<< c, l >>][j]
      IN  Later(k, i, l, j) /\ m.src = n.src => m.seq < n.seq

(* "Don't send message back to the originator" (the continue in the loop   *)
(* of RebroadcastIncomingMsg): nobody hears its own message, not even over *)
(* a socket of its own that the server has not noticed is dead.            *)
NoEcho ==
  \A s \in Session : \A i \in 1 .. heard[s] : down[s][i].src # s[1]

(* Everything relayed after a session was accepted has been written to it, *)
(* in relay order and without gaps, as long as it is the client's latest   *)
(* and the server's socket of it is open; only the client's own messages   *)
(* are left out.                                                           *)
SubscriberMissesNothing ==
  \A t \in Session :
    t = Current(t[1]) /\ sess[t] = "open" =>
      Reads(down[t], history, t[1], join[t], Len(history))

(* A later sequence number always means a later input line: reconnecting   *)
(* neither repeats a line nor swaps two, although the message that was     *)
(* scheduled before the connection was lost may still be sent after it     *)
(* (ScheduleNextMessage, OnConnectSucceed).                                *)
LinesNeverRepeated ==
  \A c \in Client : \A k, l \in Reached(c) :
    \A i \in DOMAIN up[<< c, k >>], j \in DOMAIN up[<< c, l >>] :
      LET m == up[<< c, k >>][i]
          n == up[<< c, l >>][j]
      IN  m.seq < n.seq <=> m.line < n.line

Calm == faults = 0 /\ ~srvStopped /\ \A c \in Client : ~stopped[c]

(* As long as nothing breaks and nobody is stopped, no line is lost: each  *)
(* own line that was read has been sent or is scheduled.                   *)
NoLineLost ==
  Calm =>
    \A c \in Client :
      curMsgId[c] + Len(pending[c]) = Cardinality(OwnLinesUpTo(c, pos[c]))

(* Each connection starts one chain of messages, so a client never has     *)
(* more SendMessage events scheduled than it has had connections.          *)
OneChainPerConnection == \A c \in Client : Len(pending[c]) <= epoch[c]

(* m_socket is set exactly while the connection is up, and a retry is      *)
(* scheduled exactly while there is none: a retry never fires into a live  *)
(* connection, and SendMessage never uses a socket that is gone.           *)
ConnectionStateAgrees ==
  ~aborted => \A c \in Client :
    /\ sock[c] # 0 <=> conn[c] = "up"
    /\ retry[c] <=> conn[c] = "waiting"

(* The null m_socket that OnError and StopApplication dereference needs a  *)
(* StopApplication: faults alone never lead there.                         *)
AbortOnlyAfterStop == aborted => \E c \in Client : stopped[c]

(* After StopApplication a client neither sends nor connects again,        *)
(* although its scheduled SendMessage is not cancelled.                    *)
StoppedStaysSilent ==
  [][ \A c \in Client : stopped[c] =>
        /\ conn'[c] \in {conn[c], "down"}
        /\ \A k \in 1 .. MaxFaults + 1 : up'[<< c, k >>] = up[<< c, k >>] ]_vars

(* Every client whose connection is not shut down gets through its input,  *)
(* whatever connections break on the way: OnConnectSucceed starts a new    *)
(* chain of messages.                                                      *)
InputDrained ==
  \A c \in Client :
    <>(\/ pos[c] = Len(Input) /\ pending[c] = << >>
       \/ conn[c] = "down")

(* In the end the server has read all that was sent, and every client has  *)
(* heard all that was written for it, over each connection that lives.     *)
Settled(s) ==
  s = Current(s[1]) /\ Attached(s[1]) /\ sess[s] = "open" =>
    taken[s] = Len(up[s]) /\ heard[s] = Len(down[s])

RoomConverges == <>[](\A s \in Session : Settled(s))
-----------------------------------------------------------------------------
(* The parts of the inductive invariant behind the safety properties.      *)

(* How the state of a client and the state of its socket go together.      *)
ConnInv ==
  /\ \A c \in Client :
       /\ conn[c] \in {"handshake", "up", "closing"} => epoch[c] # 0
       /\ conn[c] = "closing" => stopped[c]
       /\ sock[c] # 0 => sock[c] = epoch[c]
       /\ ~aborted /\ stopped[c] => conn[c] \in {"closing", "down"}
  /\ ConnectionStateAgrees
  /\ AbortOnlyAfterStop

(* Sessions that are yet to come are untouched, and nobody reads beyond    *)
(* the end of a stream.                                                    *)
SessionInv ==
  \A s \in Session :
    /\ s[2] > epoch[s[1]] => sess[s] = "free" /\ up[s] = << >> /\ down[s] = << >>
    /\ taken[s] <= Len(up[s])
    /\ heard[s] <= Len(down[s])

(* A client writes its lines and its numbers upwards, over all sessions.   *)
Precedes(m, n) == m.seq < n.seq /\ m.line < n.line

SentInv ==
  \A c \in Client :
    /\ \A i \in DOMAIN pending[c] : pending[c][i] <= pos[c]
    /\ \A i, j \in DOMAIN pending[c] : i < j => pending[c][i] < pending[c][j]
    /\ \A s \in Session : s[1] = c => \A i \in DOMAIN up[s] :
         /\ up[s][i].src = c
         /\ up[s][i].seq < curMsgId[c]
         /\ up[s][i].line <= pos[c]
         /\ \A j \in DOMAIN pending[c] : up[s][i].line < pending[c][j]
    /\ \A s, t \in Session : s[1] = c /\ t[1] = c =>
         \A i \in DOMAIN up[s], j \in DOMAIN up[t] :
           Later(s[2], i, t[2], j) => Precedes(up[s][i], up[t][j])

(* What the server has relayed of a client it has relayed in order, and it *)
(* is older than what it still has to read of that client.                 *)
RelayInv ==
  /\ \A g, h \in DOMAIN history :
       g < h /\ history[g].src = history[h].src => history[g].seq < history[h].seq
  /\ \A h \in DOMAIN history :
       LET c == history[h].src IN
       /\ history[h].seq < curMsgId[c]
       /\ \A s \in Session : s = Current(c) =>
            \A j \in DOMAIN up[s] : j > taken[s] => history[h].seq < up[s][j].seq

(* What was written for a listener has been relayed, it is in order, and   *)
(* it is newer than what the listener has heard on its earlier sessions.   *)
DownInv ==
  /\ \A t \in Session : \A i \in DOMAIN down[t] :
       \E h \in DOMAIN history : history[h] = down[t][i]
  /\ \A t \in Session : \A i, j \in DOMAIN down[t] :
       i < j /\ down[t][i].src = down[t][j].src => down[t][i].seq < down[t][j].seq
  /\ \A s, t \in Session : s[1] = t[1] /\ s[2] < t[2] =>
       \A i \in 1 .. heard[s], j \in DOMAIN down[t] :
         down[s][i].src = down[t][j].src => down[s][i].seq < down[t][j].seq

(* The latest session of a client carries nothing of its own to it.        *)
EchoInv ==
  /\ NoEcho
  /\ \A s \in Session : s = Current(s[1]) =>
       \A i \in DOMAIN down[s] : down[s][i].src # s[1]

CoreInv == TypeOK /\ ConnInv /\ SessionInv /\ SentInv /\ RelayInv /\ DownInv /\ EchoInv

(* The server's socket of a session waits until its client is connected.   *)
HandshakeInv == \A c \in Client : conn[c] = "handshake" => sess[Current(c)] = "syn"

(* A connection that is not up yet has not started its chain of messages.  *)
ChainInv ==
  \A c \in Client :
    Len(pending[c]) <= IF conn[c] = "handshake" THEN epoch[c] - 1 ELSE epoch[c]

(* While all is calm a session that got beyond its handshake is the one    *)
(* its client is on, so no SendMessage finds the connection gone.          *)
Untroubled(s) ==
  \/ sess[s] \in {"free", "syn"}
  \/ sess[s] \in {"acked", "open"} /\ s = Current(s[1]) /\ conn[s[1]] = "up"

CalmInv ==
  /\ Calm => /\ \A s \in Session : Untroubled(s)
             /\ \A c \in Client : pending[c] # << >> => conn[c] = "up"
  /\ NoLineLost

(* What was written on a session is the reading of a part of the history:  *)
(* the part since it was accepted, as long as it is open, and what there   *)
(* was of it when the session ended.                                       *)
Delivered(t, e) == Reads(down[t], history, t[1], join[t], e)

Served(t) ==
  /\ join[t] <= Len(history)
  /\ sess[t] \in {"free", "syn", "acked"} => down[t] = << >>
  /\ sess[t] = "open" => t \in clients
  /\ t = Current(t[1]) /\ sess[t] = "open" => Delivered(t, Len(history))
  /\ t = Current(t[1]) /\ sess[t] \in {"closed", "dead"} =>
       \E e \in join[t] .. Len(history) : Delivered(t, e)

ReadInv == \A t \in Session : Served(t)

(* What a client has been shown was relayed, it is in order, and it is     *)
(* older than what the client has yet to read.                             *)
ShownTo(c) ==
  /\ \A i \in DOMAIN shown[c] : \E h \in DOMAIN history : history[h] = shown[c][i]
  /\ \A i, j \in DOMAIN shown[c] :
       i < j /\ shown[c][i].src = shown[c][j].src => shown[c][i].seq < shown[c][j].seq
  /\ \A t \in Session : t = Current(c) =>
       \A i \in DOMAIN shown[c], j \in DOMAIN down[t] :
         j > heard[t] /\ shown[c][i].src = down[t][j].src =>
           shown[c][i].seq < down[t][j].seq

ShownInv == \A c \in Client : ShownTo(c)

RoomInv == HandshakeInv /\ ChainInv /\ CalmInv /\ ReadInv /\ ShownInv

IInv == CoreInv /\ RoomInv
=============================================================================
