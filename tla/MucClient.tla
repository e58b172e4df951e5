----------------------------- MODULE MucClient -----------------------------
(***************************************************************************)
(* A chat client of the centralised chat (class MucClient).  It connects,  *)
(* then sends the messages of its own input lines one after the other:     *)
(* sending a message schedules the next one.  Losing the connection ends   *)
(* that chain; a new connection starts another one.                        *)
(***************************************************************************)
EXTENDS TcpSockets

CONSTANT Stoppable   \* the clients whose StopApplication may be called

ASSUME StoppableAssumption == Stoppable \subseteq Client

VARIABLES
  sock,      \* m_socket: 0, or the number of the session it is on
  retry,     \* m_retryEvent is pending
  pos,       \* position in the input file (m_input and m_inputLen)
  pending,   \* the SendMessage events of c in the event queue, by input line
  curMsgId,  \* m_curMsgId
  stopped,   \* StopApplication has run
  aborted,   \* a null m_socket was dereferenced: the simulation is dead
  shown      \* history variable: shown[c]: what c has read on all its connections

clientVars == << sock, retry, pos, pending, curMsgId, stopped, aborted, shown >>

ClientTypeOK ==
  /\ sock \in [Client -> 0 .. MaxFaults + 1]
  /\ retry \in [Client -> BOOLEAN]
  /\ pos \in [Client -> Nat]
  /\ pending \in [Client -> Seq(Line)]
  /\ curMsgId \in [Client -> Nat]
  /\ stopped \in [Client -> BOOLEAN]
  /\ aborted \in BOOLEAN
  /\ shown \in [Client -> Seq(Message)]

ClientInit ==
  /\ sock = [c \in Client |-> 0]
  /\ retry = [c \in Client |-> FALSE]
  /\ pos = [c \in Client |-> 0]
  /\ pending = [c \in Client |-> << >>]
  /\ curMsgId = [c \in Client |-> 0]
  /\ stopped = [c \in Client |-> FALSE]
  /\ aborted = FALSE
  /\ shown = [c \in Client |-> << >>]

(* TryConnect: the SYN is on its way.                                      *)
TryConnect(c) == conn' = [conn EXCEPT ![c] = "connecting"]

StartApplication(c) ==
  /\ conn[c] = "idle"
  /\ TryConnect(c)
  /\ UNCHANGED << listening, epoch, sess, errCb, up, taken, down, heard, faults, clientVars >>

(* The retry event of OnConnectFailed and OnError fires.                   *)
RetryConnect(c) ==
  /\ retry[c]
  /\ retry' = [retry EXCEPT ![c] = FALSE]
  /\ TryConnect(c)
  /\ UNCHANGED << listening, epoch, sess, errCb, up, taken, down, heard, faults,
                  sock, pos, pending, curMsgId, stopped, aborted, shown >>

(* Mutant: the scan does not stop at the first own line.                   *)
ScheduleNextMessage_AnyLine(c, queue) ==
  \/ /\ OwnLinesAfter(c, pos[c]) = {}
     /\ pos' = [pos EXCEPT ![c] = Len(Input)]
     /\ pending' = [pending EXCEPT ![c] = queue]
  \/ \E i \in OwnLinesAfter(c, pos[c]) :
       /\ pos' = [pos EXCEPT ![c] = i]
       /\ pending' = [pending EXCEPT ![c] = Append(queue, i)]

(* Mutant: the line just read is not consumed.                             *)
ScheduleNextMessage_KeepLine(c, queue) ==
  \/ /\ OwnLinesAfter(c, pos[c]) = {}
     /\ pos' = [pos EXCEPT ![c] = Len(Input)]
     /\ pending' = [pending EXCEPT ![c] = queue]
  \/ \E i \in Line :
       /\ IsNextOwnLine(c, pos[c], i)
       /\ pos' = [pos EXCEPT ![c] = i - 1]
       /\ pending' = [pending EXCEPT ![c] = Append(queue, i)]

(* Mutant: reading goes on at the end of the input.                        *)
ScheduleNextMessage_PastEnd(c, queue) ==
  \/ /\ OwnLinesAfter(c, pos[c]) = {}
     /\ pos' = [pos EXCEPT ![c] = Len(Input) + 1]
     /\ pending' = [pending EXCEPT ![c] = Append(queue, Len(Input) + 1)]
  \/ \E i \in Line :
       /\ IsNextOwnLine(c, pos[c], i)
       /\ pos' = [pos EXCEPT ![c] = i]
       /\ pending' = [pending EXCEPT ![c] = Append(queue, i)]

(* Reads up to the next own line and schedules its SendMessage, or reads   *)
(* to the end of the input and schedules nothing.  queue is what is left   *)
(* of the scheduled SendMessage events: a new one is never due before an   *)
(* older one, so they form a queue.                                        *)
ScheduleNextMessage(c, queue) ==
  \/ /\ OwnLinesAfter(c, pos[c]) = {}
     /\ pos' = [pos EXCEPT ![c] = Len(Input)]
     /\ pending' = [pending EXCEPT ![c] = queue]
  \/ \E i \in Line :
       /\ IsNextOwnLine(c, pos[c], i)
       /\ pos' = [pos EXCEPT ![c] = i]
       /\ pending' = [pending EXCEPT ![c] = Append(queue, i)]

(* Mutant: the connected socket is used for the callbacks only.            *)
OnConnectSucceed_NoSocket(c) ==
  /\ conn[c] = "handshake"
  /\ conn' = [conn EXCEPT ![c] = "up"]
  /\ sess' = [sess EXCEPT ![Current(c)] = "acked"]
  /\ ScheduleNextMessage(c, pending[c])
  /\ UNCHANGED << listening, epoch, errCb, up, taken, down, heard, faults,
                  sock, retry, curMsgId, stopped, aborted, shown >>

(* Mutant: a reconnected client waits for the old chain of messages.       *)
OnConnectSucceed_NoSchedule(c) ==
  /\ conn[c] = "handshake"
  /\ sock' = [sock EXCEPT ![c] = epoch[c]]
  /\ conn' = [conn EXCEPT ![c] = "up"]
  /\ sess' = [sess EXCEPT ![Current(c)] = "acked"]
  /\ UNCHANGED << pos, pending >>
  /\ UNCHANGED << listening, epoch, errCb, up, taken, down, heard, faults,
                  retry, curMsgId, stopped, aborted, shown >>

(* The SYN/ACK arrives: the final ACK leaves, and the application takes    *)
(* the socket as connected before the server has accepted it.              *)
OnConnectSucceed(c) ==
  /\ conn[c] = "handshake"
  /\ sock' = [sock EXCEPT ![c] = epoch[c]]
  /\ conn' = [conn EXCEPT ![c] = "up"]
  /\ sess' = [sess EXCEPT ![Current(c)] = "acked"]
  /\ ScheduleNextMessage(c, pending[c])
  /\ UNCHANGED << listening, epoch, errCb, up, taken, down, heard, faults,
                  retry, curMsgId, stopped, aborted, shown >>

(* m_socket = 0, and the retry event is scheduled again.                   *)
ResetAndRetry(c) ==
  /\ sock' = [sock EXCEPT ![c] = 0]
  /\ retry' = [retry EXCEPT ![c] = TRUE]
  /\ conn' = [conn EXCEPT ![c] = "waiting"]

OnConnectFailed(c) ==
  /\ \/ conn[c] = "connecting" /\ ~listening /\ NoFault
     \/ conn[c] \in {"connecting", "handshake"} /\ Fault
  /\ ResetAndRetry(c)
  /\ UNCHANGED << listening, epoch, sess, errCb, up, taken, down, heard,
                  pos, pending, curMsgId, stopped, aborted, shown >>

(* Mutant: m_socket keeps pointing at the socket that was shut down.       *)
OnShutdown_KeepSocket(c) ==
  /\ Attached(c)
  /\ \/ conn[c] = "closing" /\ NoFault
     \/ sess[Current(c)] = "closed" /\ heard[Current(c)] = Len(down[Current(c)]) /\ NoFault
     \/ Fault
  /\ conn' = [conn EXCEPT ![c] = "down"]
  /\ UNCHANGED << listening, epoch, sess, errCb, up, taken, down, heard, clientVars >>

(* The connection ends normally: because the server's side was closed and  *)
(* all its data has been read, because the client's own close completes,   *)
(* or because a peer or the network broke it in a way that the library     *)
(* reports as a normal close.  The client does nothing more.               *)
OnShutdown(c) ==
  /\ Attached(c)
  /\ \/ conn[c] = "closing" /\ NoFault
     \/ sess[Current(c)] = "closed" /\ heard[Current(c)] = Len(down[Current(c)]) /\ NoFault
     \/ Fault
  /\ sock' = [sock EXCEPT ![c] = 0]
  /\ conn' = [conn EXCEPT ![c] = "down"]
  /\ UNCHANGED << listening, epoch, sess, errCb, up, taken, down, heard,
                  retry, pos, pending, curMsgId, stopped, aborted, shown >>

(* The connection breaks, or the server's side of it has.  The handler     *)
(* resets the callbacks of m_socket, which StopApplication may have set    *)
(* to null by then.                                                        *)
OnError(c) ==
  /\ Attached(c)
  /\ Fault \/ (sess[Current(c)] = "dead" /\ NoFault)
  /\ \/ sock[c] # 0 /\ ResetAndRetry(c) /\ UNCHANGED aborted
     \/ sock[c] = 0 /\ aborted' = TRUE /\ UNCHANGED << sock, retry, conn >>
  /\ UNCHANGED << listening, epoch, sess, errCb, up, taken, down, heard,
                  pos, pending, curMsgId, stopped, shown >>

(* Mutant: the close leaves m_socket set, so scheduled messages still go   *)
(* out.                                                                    *)
StopApplication_KeepSocket(c) ==
  /\ c \in Stoppable /\ ~stopped[c] /\ conn[c] # "idle"
  /\ stopped' = [stopped EXCEPT ![c] = TRUE]
  /\ retry' = [retry EXCEPT ![c] = FALSE]
  /\ \/ sock[c] # 0 /\ conn' = [conn EXCEPT ![c] = "closing"] /\ UNCHANGED aborted
     \/ sock[c] = 0 /\ aborted' = TRUE /\ UNCHANGED conn
  /\ UNCHANGED << listening, epoch, sess, errCb, up, taken, down, heard, faults,
                  sock, pos, pending, curMsgId, shown >>

(* Cancels the retry and closes the socket, without asking whether there   *)
(* is one.  A SendMessage that is already scheduled is not cancelled.      *)
StopApplication(c) ==
  /\ c \in Stoppable /\ ~stopped[c] /\ conn[c] # "idle"
  /\ stopped' = [stopped EXCEPT ![c] = TRUE]
  /\ retry' = [retry EXCEPT ![c] = FALSE]
  /\ \/ /\ sock[c] # 0
        /\ sock' = [sock EXCEPT ![c] = 0]
        /\ conn' = [conn EXCEPT ![c] = "closing"]
        /\ UNCHANGED aborted
     \/ sock[c] = 0 /\ aborted' = TRUE /\ UNCHANGED << sock, conn >>
  /\ UNCHANGED << listening, epoch, sess, errCb, up, taken, down, heard, faults,
                  pos, pending, curMsgId, shown >>

NextMessage(c) == [src |-> c, seq |-> curMsgId[c], line |-> Head(pending[c])]

(* Mutant: the sequence number is not advanced.                            *)
SendMessage_SameSeqNo(c) ==
  /\ pending[c] # << >>
  /\ \/ /\ sock[c] = 0
        /\ pending' = [pending EXCEPT ![c] = Tail(@)]
        /\ UNCHANGED << up, pos >>
     \/ /\ sock[c] # 0
        /\ up' = [up EXCEPT ![<< c, sock[c] >>] = Append(@, NextMessage(c))]
        /\ ScheduleNextMessage(c, Tail(pending[c]))
  /\ UNCHANGED << listening, conn, epoch, sess, errCb, taken, down, heard, faults,
                  sock, retry, curMsgId, stopped, aborted, shown >>

(* Mutant: the message is scheduled again although it was sent.            *)
SendMessage_TwoChains(c) ==
  /\ pending[c] # << >>
  /\ \/ /\ sock[c] = 0
        /\ pending' = [pending EXCEPT ![c] = Tail(@)]
        /\ UNCHANGED << up, pos, curMsgId >>
     \/ /\ sock[c] # 0
        /\ up' = [up EXCEPT ![<< c, sock[c] >>] = Append(@, NextMessage(c))]
        /\ curMsgId' = [curMsgId EXCEPT ![c] = @ + 1]
        /\ ScheduleNextMessage(c, pending[c])
  /\ UNCHANGED << listening, conn, epoch, sess, errCb, taken, down, heard, faults,
                  sock, retry, stopped, aborted, shown >>

(* The next scheduled SendMessage runs.  Without a connection its message  *)
(* is dropped and the chain ends; otherwise it is sent under the next      *)
(* sequence number and the message after it is scheduled.                  *)
SendMessage(c) ==
  /\ pending[c] # << >>
  /\ \/ /\ sock[c] = 0
        /\ pending' = [pending EXCEPT ![c] = Tail(@)]
        /\ UNCHANGED << up, pos, curMsgId >>
     \/ /\ sock[c] # 0
        /\ up' = [up EXCEPT ![<< c, sock[c] >>] = Append(@, NextMessage(c))]
        /\ curMsgId' = [curMsgId EXCEPT ![c] = @ + 1]
        /\ ScheduleNextMessage(c, Tail(pending[c]))
  /\ UNCHANGED << listening, conn, epoch, sess, errCb, taken, down, heard, faults,
                  sock, retry, stopped, aborted, shown >>

(* More of the stream arrives, with n further headers in it; each is       *)
(* reported to the sequence-number trace.                                  *)
OnRecvMessage(c) ==
  LET s == Current(c) IN
  /\ Attached(c)
  /\ \E n \in 1 .. Len(down[s]) - heard[s] :
       /\ heard' = [heard EXCEPT ![s] = @ + n]
       /\ shown' = [shown EXCEPT ![c] = @ \o SubSeq(down[s], heard[s] + 1, heard[s] + n)]
  /\ UNCHANGED << listening, conn, epoch, sess, errCb, up, taken, down, faults,
                  sock, retry, pos, pending, curMsgId, stopped, aborted >>
=============================================================================
