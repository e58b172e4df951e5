-------------------------- MODULE StandardMucProofs --------------------------
(***************************************************************************)
(* StandardMuc for any set of clients, any input and any number of faults. *)
(*                                                                         *)
(* First the types, the inductive invariant CoreInv and the safety         *)
(* theorems that follow from it.  The parts of CoreInv speak of different  *)
(* variables, so each action disturbs few of them; the frame lemmas deal   *)
(* with the parts an action leaves alone.  Then the second half of the     *)
(* inductive invariant: the chains of scheduled messages, what happens     *)
(* while all is calm, and what the clients read of the history of the      *)
(* room.  At last the refinement: StandardMuc implements the ChatRoom and  *)
(* the SeqNoTraces.                                                        *)
(***************************************************************************)
EXTENDS StandardMucRefinement, SequenceLemmas, NaturalsInduction

(* The messages that a read takes off a stream are messages of the stream. *)
LEMMA BatchIsSeq ==
  ASSUME NEW S, NEW q \in Seq(S), NEW m \in Nat, NEW n \in 1 .. Len(q) - m
  PROVE  /\ SubSeq(q, m + 1, m + n) \in Seq(S)
         /\ Len(SubSeq(q, m + 1, m + n)) = n
         /\ \A i \in 1 .. n : SubSeq(q, m + 1, m + n)[i] = q[m + i]
<1> DEFINE b == SubSeq(q, m + 1, m + n)
<1>1. /\ n \in Nat /\ n >= 1
      /\ Len(q) \in Nat
      /\ m + n <= Len(q)
  OBVIOUS
<1>2. \A i \in m + 1 .. m + n : q[i] \in S
  BY <1>1
<1>3. b \in Seq(S) /\ Len(b) = n
  BY <1>1, <1>2, SubSeqProperties
<1>4. \A i \in 1 .. n : b[i] = q[m + i]
  BY <1>1, <1>2, SubSeqProperties
<1>5. QED
  BY <1>3, <1>4
-----------------------------------------------------------------------------
LEMMA InitTypeOK == Init => TypeOK
<1> SUFFICES ASSUME Init PROVE TypeOK
  OBVIOUS
<1>1. 0 \in 0 .. MaxFaults /\ 0 \in 0 .. MaxFaults + 1
  BY MaxFaultsAssumption
<1>2. TcpTypeOK
  <2>1. << >> \in Seq(Message)
    OBVIOUS
  <2>2. QED
    BY <1>1, <2>1 DEF Init, TcpInit, TcpTypeOK, ConnState, SessState
<1>3. ServerTypeOK
  <2>1. << >> \in Seq(Message)
    OBVIOUS
  <2>2. QED
    BY <2>1 DEF Init, ServerInit, ServerTypeOK
<1>4. ClientTypeOK
  <2>1. << >> \in Seq(Line) /\ << >> \in Seq(Message)
    OBVIOUS
  <2>2. QED
    BY <1>1, <2>1 DEF Init, ClientInit, ClientTypeOK
<1>5. QED
  BY <1>2, <1>3, <1>4 DEF TypeOK

LEMMA ScheduleType ==
  ASSUME TypeOK, NEW c \in Client, NEW queue \in Seq(Line),
         ScheduleNextMessage(c, queue)
  PROVE  /\ pos' \in [Client -> Nat]
         /\ pending' \in [Client -> Seq(Line)]
<1> USE DEF TypeOK, ClientTypeOK
<1>1. Len(Input) \in Nat
  BY InputAssumption
<1>2. Line \subseteq Nat
  BY <1>1 DEF Line
<1>3. CASE OwnLinesAfter(c, pos[c]) = {} /\ pos' = [pos EXCEPT ![c] = Len(Input)]
           /\ pending' = [pending EXCEPT ![c] = queue]
  BY <1>1, <1>3
<1>4. CASE \E i \in Line : /\ pos' = [pos EXCEPT ![c] = i]
                           /\ pending' = [pending EXCEPT ![c] = Append(queue, i)]
  <2>1. PICK i \in Line : /\ pos' = [pos EXCEPT ![c] = i]
                          /\ pending' = [pending EXCEPT ![c] = Append(queue, i)]
    BY <1>4
  <2>2. Append(queue, i) \in Seq(Line)
    BY AppendProperties
  <2>3. QED
    BY <1>2, <2>1, <2>2
<1>5. QED
  BY <1>3, <1>4 DEF ScheduleNextMessage

LEMMA FaultType ==
  ASSUME TypeOK, Fault \/ NoFault
  PROVE  faults' \in 0 .. MaxFaults
  BY MaxFaultsAssumption DEF TypeOK, TcpTypeOK, Fault, NoFault

LEMMA ResetType ==
  ASSUME TypeOK, NEW c \in Client, ResetAndRetry(c)
  PROVE  /\ sock' \in [Client -> 0 .. MaxFaults + 1]
         /\ retry' \in [Client -> BOOLEAN]
         /\ conn' \in [Client -> ConnState]
  BY MaxFaultsAssumption
  DEF TypeOK, TcpTypeOK, ClientTypeOK, ResetAndRetry, ConnState

LEMMA ServerTypeStep ==
  ASSUME TypeOK, ServerNext, UNCHANGED clientVars
  PROVE  TypeOK'
<1> USE DEF TypeOK, TcpTypeOK, ServerTypeOK, ClientTypeOK, clientVars
<1>0. ClientTypeOK'
  OBVIOUS
<1>1. CASE ServerStart
  BY <1>0, <1>1 DEF ServerStart, serverVars
<1>2. CASE ServerStop
  BY <1>0, <1>2 DEF ServerStop, SessState
<1>3. ASSUME NEW c \in Client, OnConnectionRequest(c)
      PROVE  TypeOK'
  <2>1. epoch' \in [Client -> 0 .. MaxFaults + 1]
    BY <1>3, MaxFaultsAssumption DEF OnConnectionRequest
  <2>2. /\ conn' \in [Client -> ConnState]
        /\ sess' \in [Session -> SessState]
        /\ errCb' \in [Session -> BOOLEAN]
    <3>1. PICK inherits \in {FALSE, armed} :
            errCb' = [errCb EXCEPT ![<< c, epoch[c] + 1 >>] = inherits]
      BY <1>3, Zenon DEF OnConnectionRequest
    <3>2. errCb' \in [Session -> BOOLEAN]
      BY <3>1
    <3>3. QED
      BY <1>3, <3>2 DEF OnConnectionRequest, ConnState, SessState
  <2>3. QED
    BY <1>0, <1>3, <2>1, <2>2 DEF OnConnectionRequest, serverVars
<1>4. ASSUME NEW s \in Session, OnConnectionAccept(s)
      PROVE  TypeOK'
  <2>1. Len(history) \in Nat
    OBVIOUS
  <2>2. QED
    BY <1>0, <1>4, <2>1 DEF OnConnectionAccept, SessState
<1>5. ASSUME NEW s \in Session, RebroadcastIncomingMsg(s)
      PROVE  TypeOK'
  <2>1. PICK n \in 1 .. Len(up[s]) - taken[s] :
          /\ taken' = [taken EXCEPT ![s] = @ + n]
          /\ SendTo(clients \ {s}, SubSeq(up[s], taken[s] + 1, taken[s] + n))
          /\ history' = history \o SubSeq(up[s], taken[s] + 1, taken[s] + n)
          /\ UNCHANGED << listening, conn, epoch, sess, errCb, up, heard, faults,
                          armed, clients, srvStopped, join >>
    BY <1>5 DEF RebroadcastIncomingMsg
  <2> DEFINE batch == SubSeq(up[s], taken[s] + 1, taken[s] + n)
  <2>2. up[s] \in Seq(Message) /\ taken[s] \in Nat
    OBVIOUS
  <2>3. batch \in Seq(Message)
    BY <2>2, BatchIsSeq
  <2>4. history' \in Seq(Message)
    BY <2>1, <2>3, ConcatProperties
  <2>5. taken' \in [Session -> Nat]
    BY <2>1, <2>2
  <2>6. down' \in [Session -> Seq(Message)]
    <3> HIDE DEF batch
    <3>1. \A t \in Session : down[t] \o batch \in Seq(Message)
      BY <2>3, ConcatProperties
    <3>2. down' = [t \in Session |->
                     IF t \in clients \ {s} /\ sess[t] = "open"
                     THEN down[t] \o batch ELSE down[t]]
      BY <2>1 DEF SendTo, batch
    <3>3. QED
      BY <3>1, <3>2
  <2>7. QED
    BY <1>0, <2>1, <2>4, <2>5, <2>6
<1>6. ASSUME NEW s \in Session, ServerOnError(s)
      PROVE  TypeOK'
  <2>1. faults' \in 0 .. MaxFaults
    BY <1>6, FaultType DEF ServerOnError
  <2>2. sess' \in [Session -> SessState]
    BY <1>6 DEF ServerOnError, SessState
  <2>3. clients' \in SUBSET Session
    BY <1>6 DEF ServerOnError
  <2>4. QED
    BY <1>0, <1>6, <2>1, <2>2, <2>3 DEF ServerOnError
<1>7. QED
  BY <1>1, <1>2, <1>3, <1>4, <1>5, <1>6 DEF ServerNext

(* A socket that got as far as its handshake belongs to a session.         *)
LEMMA ConnectedHasSession ==
  ASSUME TypeOK, ConnInv, NEW c \in Client, conn[c] \in {"handshake", "up", "closing"}
  PROVE  Current(c) \in Session
<1>1. epoch[c] \in 1 .. MaxFaults + 1
  BY MaxFaultsAssumption DEF TypeOK, TcpTypeOK, ConnInv
<1>2. QED
  BY <1>1 DEF Current, Session

(* What a client has read is a sequence of messages, and stays one.        *)
LEMMA RecvShownType ==
  ASSUME TypeOK, NEW c \in Client, OnRecvMessage(c), Current(c) \in Session
  PROVE  shown' \in [Client -> Seq(Message)]
<1> DEFINE s == Current(c)
<1>1. PICK n \in 1 .. Len(down[s]) - heard[s] :
        shown' = [shown EXCEPT ![c] = @ \o SubSeq(down[s], heard[s] + 1, heard[s] + n)]
  BY DEF OnRecvMessage
<1>2. down[s] \in Seq(Message) /\ heard[s] \in Nat /\ shown \in [Client -> Seq(Message)]
  BY DEF TypeOK, TcpTypeOK, ClientTypeOK
<1>3. SubSeq(down[s], heard[s] + 1, heard[s] + n) \in Seq(Message)
  BY <1>2, BatchIsSeq
<1>4. shown[c] \o SubSeq(down[s], heard[s] + 1, heard[s] + n) \in Seq(Message)
  BY <1>2, <1>3, ConcatProperties
<1>5. QED
  BY <1>1, <1>2, <1>4

LEMMA ClientTypeStep ==
  ASSUME TypeOK, ConnInv, NEW c \in Client, ClientNext(c), UNCHANGED serverVars
  PROVE  TypeOK'
<1> USE DEF TypeOK, TcpTypeOK, ServerTypeOK, ClientTypeOK, serverVars
<1>0. ServerTypeOK'
  OBVIOUS
<1>1. CASE StartApplication(c)
  BY <1>0, <1>1 DEF StartApplication, TryConnect, ConnState, clientVars
<1>2. CASE RetryConnect(c)
  BY <1>0, <1>2 DEF RetryConnect, TryConnect, ConnState
<1>3. CASE OnConnectSucceed(c)
  <2>1. /\ pos' \in [Client -> Nat]
        /\ pending' \in [Client -> Seq(Line)]
    BY <1>3, ScheduleType DEF OnConnectSucceed
  <2>2. sock' \in [Client -> 0 .. MaxFaults + 1]
    BY <1>3 DEF OnConnectSucceed
  <2>3. /\ conn' \in [Client -> ConnState]
        /\ sess' \in [Session -> SessState]
    BY <1>3 DEF OnConnectSucceed, ConnState, SessState
  <2>4. QED
    BY <1>0, <1>3, <2>1, <2>2, <2>3 DEF OnConnectSucceed
<1>4. CASE OnConnectFailed(c)
  <2>1. faults' \in 0 .. MaxFaults
    BY <1>4, FaultType DEF OnConnectFailed
  <2>2. QED
    BY <1>0, <1>4, <2>1, ResetType DEF OnConnectFailed
<1>5. CASE OnShutdown(c)
  <2>1. faults' \in 0 .. MaxFaults
    BY <1>5, FaultType DEF OnShutdown
  <2>2. /\ sock' \in [Client -> 0 .. MaxFaults + 1]
        /\ conn' \in [Client -> ConnState]
    BY <1>5, MaxFaultsAssumption DEF OnShutdown, ConnState
  <2>3. QED
    BY <1>0, <1>5, <2>1, <2>2 DEF OnShutdown
<1>6. CASE OnError(c)
  <2>1. faults' \in 0 .. MaxFaults
    BY <1>6, FaultType DEF OnError
  <2>2. /\ sock' \in [Client -> 0 .. MaxFaults + 1]
        /\ retry' \in [Client -> BOOLEAN]
        /\ conn' \in [Client -> ConnState]
        /\ aborted' \in BOOLEAN
    BY <1>6, ResetType DEF OnError
  <2>3. QED
    BY <1>0, <1>6, <2>1, <2>2 DEF OnError
<1>7. CASE StopApplication(c)
  <2>1. /\ sock' \in [Client -> 0 .. MaxFaults + 1]
        /\ conn' \in [Client -> ConnState]
        /\ aborted' \in BOOLEAN
    <3>1. CASE /\ sock' = [sock EXCEPT ![c] = 0]
               /\ conn' = [conn EXCEPT ![c] = "closing"]
               /\ UNCHANGED aborted
      BY <3>1, MaxFaultsAssumption DEF ConnState
    <3>2. CASE aborted' = TRUE /\ UNCHANGED << sock, conn >>
      BY <3>2
    <3>3. QED
      BY <1>7, <3>1, <3>2 DEF StopApplication
  <2>2. QED
    BY <1>0, <1>7, <2>1 DEF StopApplication
<1>8. CASE SendMessage(c)
  <2>1. pending[c] \in Seq(Line) /\ pending[c] # << >>
    BY <1>8 DEF SendMessage
  <2>2. Tail(pending[c]) \in Seq(Line) /\ Head(pending[c]) \in Line
    BY <2>1
  <2>3. CASE /\ pending' = [pending EXCEPT ![c] = Tail(@)]
             /\ UNCHANGED << up, pos, curMsgId >>
    BY <1>0, <1>8, <2>2, <2>3 DEF SendMessage
  <2>4. CASE /\ sock[c] # 0
             /\ up' = [up EXCEPT ![<< c, sock[c] >>] = Append(@, NextMessage(c))]
             /\ curMsgId' = [curMsgId EXCEPT ![c] = @ + 1]
             /\ ScheduleNextMessage(c, Tail(pending[c]))
    <3>1. NextMessage(c) \in Message
      BY <2>2 DEF NextMessage, Message
    <3>2. \A s \in Session : Append(up[s], NextMessage(c)) \in Seq(Message)
      BY <3>1, AppendProperties
    <3>3. up' \in [Session -> Seq(Message)]
      BY <2>4, <3>2
    <3>4. /\ pos' \in [Client -> Nat]
          /\ pending' \in [Client -> Seq(Line)]
      BY <2>2, <2>4, ScheduleType
    <3>5. curMsgId' \in [Client -> Nat]
      BY <2>4
    <3>6. UNCHANGED << listening, conn, epoch, sess, errCb, taken, down, heard,
                       faults, sock, retry, stopped, aborted, shown >>
      BY <1>8 DEF SendMessage
    <3>7. QED
      BY <1>0, <3>3, <3>4, <3>5, <3>6
  <2>5. QED
    BY <1>8, <2>3, <2>4 DEF SendMessage
<1>9. CASE OnRecvMessage(c)
  <2>0. Current(c) \in Session
    BY <1>9, ConnectedHasSession DEF OnRecvMessage, Attached
  <2>1. PICK n \in 1 .. Len(down[Current(c)]) - heard[Current(c)] :
          heard' = [heard EXCEPT ![Current(c)] = @ + n]
    BY <1>9 DEF OnRecvMessage
  <2>2. heard' \in [Session -> Nat]
    BY SMTT(30), <2>0, <2>1
  <2>3. shown' \in [Client -> Seq(Message)]
    BY <1>9, <2>0, RecvShownType
  <2>4. QED
    BY <1>0, <1>9, <2>2, <2>3 DEF OnRecvMessage
<1>10. QED
  BY <1>1, <1>2, <1>3, <1>4, <1>5, <1>6, <1>7, <1>8, <1>9 DEF ClientNext

LEMMA NextTypeOK == TypeOK /\ ConnInv /\ [Next]_vars => TypeOK'
<1> SUFFICES ASSUME TypeOK, ConnInv, [Next]_vars PROVE TypeOK'
  OBVIOUS
<1>1. CASE ServerRuns(ServerNext)
  BY <1>1, ServerTypeStep DEF ServerRuns
<1>2. CASE \E c \in Client : ClientRuns(ClientNext(c))
  BY <1>2, ClientTypeStep DEF ClientRuns
<1>3. CASE UNCHANGED vars
  BY <1>3 DEF vars, tcpVars, serverVars, clientVars, TypeOK, TcpTypeOK,
              ServerTypeOK, ClientTypeOK
<1>4. QED
  BY <1>1, <1>2, <1>3 DEF Next

-----------------------------------------------------------------------------
(* The connection state of the clients.  The type of what a client has     *)
(* read rests on it: only a socket with a session reads.                   *)
LEMMA InitConnInv == Init => ConnInv
  BY DEF Init, TcpInit, ClientInit, ConnInv, ConnectionStateAgrees, AbortOnlyAfterStop

LEMMA ConnFrame ==
  ASSUME ConnInv, UNCHANGED << conn, epoch, sock, retry, stopped, aborted >>
  PROVE  ConnInv'
  BY DEF ConnInv, ConnectionStateAgrees, AbortOnlyAfterStop

LEMMA ConnStep ==
  ASSUME TypeOK, ConnInv, Next
  PROVE  ConnInv'
<1> USE DEF ConnInv, ConnectionStateAgrees, AbortOnlyAfterStop, TypeOK, TcpTypeOK, ClientTypeOK
<1>0. ~aborted
  BY DEF Next, ServerRuns, ClientRuns
<1>1. ASSUME NEW c \in Client, OnConnectionRequest(c), UNCHANGED clientVars
      PROVE  ConnInv'
  BY SMTT(30), <1>0, <1>1, MaxFaultsAssumption DEF OnConnectionRequest, clientVars
<1>2. ASSUME ServerNext, UNCHANGED clientVars,
             \A c \in Client : ~OnConnectionRequest(c)
      PROVE  ConnInv'
  <2>1. UNCHANGED << conn, epoch >>
    BY <1>2 DEF ServerNext, ServerStart, ServerStop, OnConnectionAccept,
                RebroadcastIncomingMsg, ServerOnError
  <2>2. QED
    BY <1>2, <2>1, ConnFrame DEF clientVars
<1>3. ASSUME NEW c \in Client, ClientNext(c)
      PROVE  ConnInv'
  <2>1. CASE StartApplication(c)
    BY <1>0, <2>1 DEF StartApplication, TryConnect, clientVars
  <2>2. CASE RetryConnect(c)
    BY <1>0, <2>2 DEF RetryConnect, TryConnect
  <2>3. CASE OnConnectSucceed(c)
    BY <1>0, <2>3 DEF OnConnectSucceed
  <2>4. CASE OnConnectFailed(c)
    BY <1>0, <2>4 DEF OnConnectFailed, ResetAndRetry
  <2>5. CASE OnShutdown(c)
    BY <1>0, <2>5 DEF OnShutdown, Attached
  <2>6. CASE OnError(c)
    <3>1. CASE sock[c] # 0 /\ ResetAndRetry(c) /\ UNCHANGED aborted
      BY <1>0, <2>6, <3>1 DEF OnError, ResetAndRetry
    <3>2. CASE sock[c] = 0 /\ aborted' = TRUE /\ UNCHANGED << sock, retry, conn >>
      <4>1. stopped[c]
        BY <1>0, <2>6, <3>2 DEF OnError, Attached
      <4>2. UNCHANGED << epoch, stopped >>
        BY <2>6 DEF OnError
      <4>3. QED
        BY <3>2, <4>1, <4>2
    <3>3. QED
      BY <2>6, <3>1, <3>2 DEF OnError
  <2>7. CASE StopApplication(c)
    BY <1>0, <2>7 DEF StopApplication
  <2>8. CASE SendMessage(c)
    BY <2>8, ConnFrame DEF SendMessage
  <2>9. CASE OnRecvMessage(c)
    BY <2>9, ConnFrame DEF OnRecvMessage, clientVars
  <2>10. QED
    BY <1>3, <2>1, <2>2, <2>3, <2>4, <2>5, <2>6, <2>7, <2>8, <2>9 DEF ClientNext
<1>4. QED
  BY <1>1, <1>2, <1>3 DEF Next, ServerRuns, ClientRuns

(* Every variable keeps its type: no session number, file position or      *)
(* scheduled line leaves its range, whatever the sizes of the instance.    *)
THEOREM TypeCorrect == Spec => []TypeOK
<1>1. TypeOK /\ ConnInv /\ [Next]_vars => (TypeOK /\ ConnInv)'
  <2>1. ConnInv /\ UNCHANGED vars => ConnInv'
    BY ConnFrame DEF vars, tcpVars, clientVars
  <2>2. QED
    BY <2>1, NextTypeOK, ConnStep
<1>2. Init => TypeOK /\ ConnInv
  BY InitTypeOK, InitConnInv
<1>3. QED
  BY <1>1, <1>2, PTL DEF Spec
-----------------------------------------------------------------------------
LEMMA SessionFrame ==
  ASSUME SessionInv, UNCHANGED << epoch, sess, up, taken, down, heard >>
  PROVE  SessionInv'
  BY DEF SessionInv

LEMMA SentFrame ==
  ASSUME SentInv, UNCHANGED << pending, pos, up, curMsgId >>
  PROVE  SentInv'
  BY DEF SentInv

LEMMA RelayFrame ==
  ASSUME RelayInv, UNCHANGED << history, curMsgId, epoch, up, taken >>
  PROVE  RelayInv'
  BY DEF RelayInv, Current

LEMMA DownFrame ==
  ASSUME DownInv, UNCHANGED << history, down, heard >>
  PROVE  DownInv'
  BY DEF DownInv

LEMMA EchoFrame ==
  ASSUME EchoInv, UNCHANGED << epoch, down, heard >>
  PROVE  EchoInv'
  BY DEF EchoInv, NoEcho, Current
-----------------------------------------------------------------------------
(* The elements of a stream that has grown: the old ones, then the new.    *)
LEMMA ConcatElements ==
  ASSUME NEW S, NEW p \in Seq(S), NEW q \in Seq(S)
  PROVE  /\ p \o q \in Seq(S)
         /\ Len(p \o q) = Len(p) + Len(q)
         /\ \A i \in DOMAIN p : i \in DOMAIN (p \o q) /\ (p \o q)[i] = p[i]
         /\ \A i \in DOMAIN q : /\ Len(p) + i \in DOMAIN (p \o q)
                                /\ (p \o q)[Len(p) + i] = q[i]
         /\ \A i \in DOMAIN (p \o q) :
              \/ i \in DOMAIN p /\ (p \o q)[i] = p[i]
              \/ /\ i > Len(p)
                 /\ i - Len(p) \in DOMAIN q
                 /\ (p \o q)[i] = q[i - Len(p)]
<1>1. /\ DOMAIN p = 1 .. Len(p) /\ Len(p) \in Nat
      /\ DOMAIN q = 1 .. Len(q) /\ Len(q) \in Nat
  BY LenProperties
<1>2. /\ p \o q \in Seq(S)
      /\ Len(p \o q) = Len(p) + Len(q)
      /\ \A i \in 1 .. Len(p) + Len(q) :
           (p \o q)[i] = IF i <= Len(p) THEN p[i] ELSE q[i - Len(p)]
  BY ConcatProperties
<1>3. DOMAIN (p \o q) = 1 .. Len(p) + Len(q)
  BY <1>2, LenProperties
<1>4. QED
  BY <1>1, <1>2, <1>3

LEMMA AppendElements ==
  ASSUME NEW S, NEW p \in Seq(S), NEW e \in S
  PROVE  /\ Append(p, e) \in Seq(S)
         /\ Len(Append(p, e)) = Len(p) + 1
         /\ \A i \in DOMAIN Append(p, e) :
              \/ i \in DOMAIN p /\ i <= Len(p) /\ Append(p, e)[i] = p[i]
              \/ i = Len(p) + 1 /\ Append(p, e)[i] = e
<1>1. DOMAIN p = 1 .. Len(p) /\ Len(p) \in Nat
  BY LenProperties
<1>2. /\ Append(p, e) \in Seq(S)
      /\ Len(Append(p, e)) = Len(p) + 1
      /\ \A i \in 1 .. Len(p) : Append(p, e)[i] = p[i]
      /\ Append(p, e)[Len(p) + 1] = e
  BY AppendProperties
<1>3. DOMAIN Append(p, e) = 1 .. Len(p) + 1
  BY <1>2, LenProperties
<1>4. QED
  BY <1>1, <1>2, <1>3

LEMMA TailElements ==
  ASSUME NEW S, NEW p \in Seq(S), p # << >>
  PROVE  /\ Tail(p) \in Seq(S)
         /\ 1 \in DOMAIN p
         /\ Head(p) = p[1]
         /\ \A i \in DOMAIN Tail(p) : i + 1 \in DOMAIN p /\ Tail(p)[i] = p[i + 1]
<1>1. DOMAIN p = 1 .. Len(p) /\ Len(p) \in Nat /\ Len(p) > 0
  BY LenProperties, EmptySeq
<1>2. /\ Tail(p) \in Seq(S) /\ Len(Tail(p)) = Len(p) - 1 /\ Head(p) = p[1]
      /\ \A i \in 1 .. Len(Tail(p)) : Tail(p)[i] = p[i + 1]
  BY HeadTailProperties
<1>3. DOMAIN Tail(p) = 1 .. Len(p) - 1
  BY <1>2, LenProperties
<1>4. QED
  BY <1>1, <1>2, <1>3

LEMMA LineNat == Len(Input) \in Nat /\ Line = 1 .. Len(Input) /\ Line \subseteq Nat
<1>1. Len(Input) \in Nat
  BY InputAssumption, LenProperties
<1>2. QED
  BY <1>1 DEF Line

LEMMA LineElements ==
  ASSUME NEW q \in Seq(Line)
  PROVE  /\ DOMAIN q = 1 .. Len(q) /\ Len(q) \in Nat
         /\ \A i \in DOMAIN q : q[i] \in Line /\ q[i] \in Nat
<1>1. Len(q) \in Nat /\ q \in [1 .. Len(q) -> Line] /\ DOMAIN q = 1 .. Len(q)
  BY LenProperties
<1>2. QED
  BY <1>1, LineNat

LEMMA MessageElements ==
  ASSUME NEW q \in Seq(Message)
  PROVE  /\ DOMAIN q = 1 .. Len(q) /\ Len(q) \in Nat
         /\ \A i \in DOMAIN q : /\ q[i] \in Message
                               /\ q[i].src \in Client
                               /\ q[i].seq \in Nat
                               /\ q[i].line \in Line
                               /\ q[i].line \in Nat
<1>1. Len(q) \in Nat /\ q \in [1 .. Len(q) -> Message] /\ DOMAIN q = 1 .. Len(q)
  BY LenProperties
<1>2. QED
  BY <1>1, LineNat DEF Message

(* What a rebroadcast does: a batch of messages that were not yet read is  *)
(* added to the history and to the streams of other, open sessions.        *)
Relays(s, n, batch) ==
  /\ s = Current(s[1])
  /\ n \in Nat /\ n > 0 /\ taken[s] + n <= Len(up[s])
  /\ batch \in Seq(Message) /\ DOMAIN batch = 1 .. n
  /\ \A i \in 1 .. n : taken[s] + i \in DOMAIN up[s] /\ batch[i] = up[s][taken[s] + i]
  /\ taken' = [taken EXCEPT ![s] = @ + n]
  /\ history' = history \o batch
  /\ \A t \in Session : \/ down'[t] = down[t]
                        \/ t # s /\ sess[t] = "open" /\ down'[t] = down[t] \o batch
  /\ \A t \in clients : t # s /\ sess[t] = "open" => down'[t] = down[t] \o batch
  /\ UNCHANGED << conn, epoch, sess, up, heard, clients, join >>

LEMMA RebroadcastRelays ==
  ASSUME TypeOK, NEW s \in Session, RebroadcastIncomingMsg(s)
  PROVE  \E n, batch : Relays(s, n, batch)
<1>1. PICK n \in 1 .. Len(up[s]) - taken[s] :
        /\ Readable(s)
        /\ taken' = [taken EXCEPT ![s] = @ + n]
        /\ SendTo(clients \ {s}, SubSeq(up[s], taken[s] + 1, taken[s] + n))
        /\ history' = history \o SubSeq(up[s], taken[s] + 1, taken[s] + n)
        /\ UNCHANGED << conn, epoch, sess, up, heard, clients, join >>
  BY DEF RebroadcastIncomingMsg
<1> DEFINE batch == SubSeq(up[s], taken[s] + 1, taken[s] + n)
<1>2. up[s] \in Seq(Message) /\ taken[s] \in Nat /\ Len(up[s]) \in Nat
  BY DEF TypeOK, TcpTypeOK
<1>3. /\ batch \in Seq(Message) /\ Len(batch) = n
      /\ \A i \in 1 .. n : batch[i] = up[s][taken[s] + i]
  BY SMTT(30), <1>2, BatchIsSeq
<1>4. DOMAIN up[s] = 1 .. Len(up[s]) /\ DOMAIN batch = 1 .. n
  BY <1>2, <1>3, LenProperties
<1> HIDE DEF batch
<1>5. \A t \in Session : \/ down'[t] = down[t]
                         \/ t # s /\ sess[t] = "open" /\ down'[t] = down[t] \o batch
  BY <1>1 DEF SendTo, batch
<1>c. \A t \in clients : t # s /\ sess[t] = "open" => down'[t] = down[t] \o batch
  BY <1>1 DEF SendTo, batch, TypeOK, ServerTypeOK
<1>6. history' = history \o batch
  BY <1>1 DEF batch
<1>7. /\ n \in Nat /\ n > 0 /\ taken[s] + n <= Len(up[s])
      /\ \A i \in 1 .. n : taken[s] + i \in DOMAIN up[s]
  BY <1>2, <1>4
<1>8. Relays(s, n, batch)
  BY <1>1, <1>3, <1>4, <1>5, <1>6, <1>7, <1>c, Zenon DEF Relays, Readable
<1>9. QED
  BY <1>8
-----------------------------------------------------------------------------
LEMMA InitCore == Init => CoreInv
<1> SUFFICES ASSUME Init PROVE CoreInv
  OBVIOUS
<1> USE DEF Init, TcpInit, ServerInit, ClientInit
<1>1. TypeOK
  BY InitTypeOK
<1>2. ConnInv
  BY InitConnInv
<1>3. SessionInv
  <2>1. Len(<< >>) = 0
    OBVIOUS
  <2>2. QED
    BY <2>1 DEF SessionInv
<1>4. SentInv
  BY DEF SentInv
<1>5. RelayInv
  BY DEF RelayInv
<1>6. DownInv
  BY DEF DownInv
<1>7. EchoInv
  BY DEF EchoInv, NoEcho, Current
<1>8. QED
  BY <1>1, <1>2, <1>3, <1>4, <1>5, <1>6, <1>7 DEF CoreInv
-----------------------------------------------------------------------------
(* Sessions to come are untouched, readers stay within their streams.      *)
LEMMA SessionStep ==
  ASSUME TypeOK, ConnInv, SessionInv, Next
  PROVE  SessionInv'
<1>0. /\ epoch \in [Client -> 0 .. MaxFaults + 1]
      /\ sess \in [Session -> SessState]
      /\ up \in [Session -> Seq(Message)]
      /\ down \in [Session -> Seq(Message)]
      /\ taken \in [Session -> Nat]
      /\ heard \in [Session -> Nat]
      /\ \A s \in Session : s[1] \in Client /\ s[2] \in 1 .. MaxFaults + 1
      /\ MaxFaults \in Nat
  BY MaxFaultsAssumption DEF TypeOK, TcpTypeOK, Session
<1>1. CASE ServerStart
  BY <1>1, SessionFrame DEF ServerStart
<1>2. CASE ServerStop
  BY <1>0, <1>2 DEF ServerStop, SessionInv
<1>3. ASSUME NEW c \in Client, OnConnectionRequest(c)
      PROVE  SessionInv'
  BY <1>0, <1>3 DEF OnConnectionRequest, SessionInv
<1>4. ASSUME NEW s \in Session, OnConnectionAccept(s)
      PROVE  SessionInv'
  BY <1>0, <1>4 DEF OnConnectionAccept, SessionInv, Current
<1>5. ASSUME NEW s \in Session, RebroadcastIncomingMsg(s)
      PROVE  SessionInv'
  <2>1. PICK n, batch : Relays(s, n, batch)
    BY <1>5, RebroadcastRelays
  <2>2. ASSUME NEW t \in Session
        PROVE  /\ t[2] > epoch'[t[1]] => sess'[t] = "free" /\ up'[t] = << >> /\ down'[t] = << >>
               /\ taken'[t] <= Len(up'[t])
    BY <1>0, <2>1, <2>2 DEF Relays, SessionInv
  <2>3. ASSUME NEW t \in Session
        PROVE  heard'[t] <= Len(down'[t])
    <3>1. down[t] \in Seq(Message) /\ batch \in Seq(Message)
      BY <1>0, <2>1 DEF Relays
    <3>2. Len(down[t] \o batch) >= Len(down[t])
      BY <3>1, ConcatProperties, LenProperties
    <3>3. Len(down[t]) \in Nat /\ Len(down[t] \o batch) \in Nat
      BY <3>1, ConcatProperties, LenProperties
    <3>4. heard'[t] = heard[t] /\ heard[t] \in Nat /\ heard[t] <= Len(down[t])
      BY <1>0, <2>1 DEF Relays, SessionInv
    <3>5. down'[t] = down[t] \/ down'[t] = down[t] \o batch
      BY <2>1 DEF Relays
    <3>6. QED
      BY <3>2, <3>3, <3>4, <3>5
  <2>4. QED
    BY <2>2, <2>3 DEF SessionInv
<1>6. ASSUME NEW s \in Session, ServerOnError(s)
      PROVE  SessionInv'
  BY <1>0, <1>6 DEF ServerOnError, SessionInv
<1>7. ASSUME NEW c \in Client, OnConnectSucceed(c)
      PROVE  SessionInv'
  BY <1>0, <1>7 DEF OnConnectSucceed, SessionInv, Current
<1>8. ASSUME NEW c \in Client, SendMessage(c)
      PROVE  SessionInv'
  <2>1. CASE UNCHANGED up
    BY <1>8, <2>1, SessionFrame DEF SendMessage
  <2>2. CASE /\ sock[c] # 0
             /\ up' = [up EXCEPT ![<< c, sock[c] >>] = Append(@, NextMessage(c))]
    <3>1. sock[c] = epoch[c]
      BY <2>2 DEF ConnInv
    <3>2. UNCHANGED << epoch, sess, down, taken, heard >>
      BY <1>8 DEF SendMessage
    <3>3. ASSUME NEW t \in Session
          PROVE  /\ t[2] > epoch[t[1]] => up'[t] = << >>
                 /\ taken[t] <= Len(up'[t])
      <4>1. CASE t = << c, sock[c] >>
        <5>1. Len(Append(up[t], NextMessage(c))) = Len(up[t]) + 1
              /\ Len(up[t]) \in Nat
          BY <1>0
        <5>2. up'[t] = Append(up[t], NextMessage(c))
          BY <1>0, <2>2, <4>1
        <5>3. ~(t[2] > epoch[t[1]])
          BY <1>0, <3>1, <4>1
        <5>4. taken[t] \in Nat /\ taken[t] <= Len(up[t])
          BY <1>0 DEF SessionInv
        <5>5. QED
          BY <5>1, <5>2, <5>3, <5>4
      <4>2. CASE t # << c, sock[c] >>
        BY <1>0, <2>2, <4>2 DEF SessionInv
      <4>3. QED
        BY <4>1, <4>2
    <3>4. QED
      BY <3>2, <3>3 DEF SessionInv
  <2>3. QED
    BY <1>8, <2>1, <2>2 DEF SendMessage
<1>9. ASSUME NEW c \in Client, OnRecvMessage(c)
      PROVE  SessionInv'
  <2>1. PICK n \in 1 .. Len(down[Current(c)]) - heard[Current(c)] :
          heard' = [heard EXCEPT ![Current(c)] = @ + n]
    BY <1>9 DEF OnRecvMessage
  <2>2. \A t \in Session : heard'[t] <= Len(down[t])
    BY <1>0, <2>1 DEF SessionInv
  <2>3. QED
    BY <1>9, <2>2 DEF OnRecvMessage, SessionInv
<1>10. ASSUME NEW c \in Client, ClientNext(c), ~OnConnectSucceed(c),
              ~SendMessage(c), ~OnRecvMessage(c)
       PROVE  SessionInv'
  BY <1>10, SessionFrame
  DEF ClientNext, StartApplication, RetryConnect, OnConnectFailed, OnShutdown,
      OnError, StopApplication
<1>11. QED
  BY <1>1, <1>2, <1>3, <1>4, <1>5, <1>6, <1>7, <1>8, <1>9, <1>10
  DEF Next, ServerRuns, ClientRuns, ServerNext
-----------------------------------------------------------------------------
(* What a client sends and has scheduled.                                  *)
Increasing(q) == \A i, j \in DOMAIN q : i < j => q[i] < q[j]

LEMMA ScheduleEffect ==
  ASSUME TypeOK, NEW c \in Client, NEW queue \in Seq(Line),
         \A i \in DOMAIN queue : queue[i] <= pos[c],
         Increasing(queue),
         ScheduleNextMessage(c, queue)
  PROVE  /\ \A d \in Client : d # c => pos'[d] = pos[d] /\ pending'[d] = pending[d]
         /\ \A i \in Line : i <= pos[c] => i <= pos'[c]
         /\ \A i \in DOMAIN pending'[c] : pending'[c][i] <= pos'[c]
         /\ Increasing(pending'[c])
         /\ \A j \in DOMAIN pending'[c] :
              \/ pending'[c][j] > pos[c]
              \/ \E i \in DOMAIN queue : pending'[c][j] = queue[i]
<1>0. /\ pos \in [Client -> Nat] /\ pending \in [Client -> Seq(Line)]
      /\ Len(Input) \in Nat
      /\ Line = 1 .. Len(Input)
      /\ DOMAIN queue = 1 .. Len(queue) /\ Len(queue) \in Nat
      /\ \A i \in DOMAIN queue : queue[i] \in Line
  <2>1. pos \in [Client -> Nat] /\ pending \in [Client -> Seq(Line)]
    BY DEF TypeOK, ClientTypeOK
  <2>2. QED
    BY <2>1, LineNat, LineElements
<1>1. CASE /\ pos' = [pos EXCEPT ![c] = Len(Input)]
           /\ pending' = [pending EXCEPT ![c] = queue]
  BY <1>0, <1>1 DEF Increasing
<1>2. CASE \E i \in Line : /\ IsNextOwnLine(c, pos[c], i)
                           /\ pos' = [pos EXCEPT ![c] = i]
                           /\ pending' = [pending EXCEPT ![c] = Append(queue, i)]
  <2>1. PICK i \in Line : /\ IsNextOwnLine(c, pos[c], i)
                          /\ pos' = [pos EXCEPT ![c] = i]
                          /\ pending' = [pending EXCEPT ![c] = Append(queue, i)]
    BY <1>2
  <2>2. i > pos[c]
    BY <2>1 DEF IsNextOwnLine, OwnLinesAfter
  <2>3. pos'[c] = i /\ pending'[c] = Append(queue, i)
    BY <1>0, <2>1
  <2>4. \A j \in DOMAIN Append(queue, i) :
          \/ j \in DOMAIN queue /\ j <= Len(queue) /\ Append(queue, i)[j] = queue[j]
          \/ j = Len(queue) + 1 /\ Append(queue, i)[j] = i
    BY AppendElements
  <2>5. \A d \in Client : d # c => pos'[d] = pos[d] /\ pending'[d] = pending[d]
    BY <1>0, <2>1
  <2>6. \A k \in Line : k <= pos[c] => k <= pos'[c]
    BY <1>0, <2>2, <2>3
  <2>7. \A k \in DOMAIN pending'[c] : pending'[c][k] <= pos'[c]
    BY <1>0, <2>2, <2>3, <2>4
  <2>8. Increasing(pending'[c])
    BY <1>0, <2>2, <2>3, <2>4 DEF Increasing
  <2>9. \A j \in DOMAIN pending'[c] :
          pending'[c][j] > pos[c] \/ \E k \in DOMAIN queue : pending'[c][j] = queue[k]
    BY <2>2, <2>3, <2>4
  <2>10. QED
    BY <2>5, <2>6, <2>7, <2>8, <2>9
<1>3. QED
  BY <1>1, <1>2 DEF ScheduleNextMessage

LEMMA SucceedKeepsSent ==
  ASSUME TypeOK, SentInv, NEW c \in Client, OnConnectSucceed(c)
  PROVE  SentInv'
<1>0. /\ pending[c] \in Seq(Line)
      /\ pos \in [Client -> Nat]
      /\ up \in [Session -> Seq(Message)]
      /\ \A s \in Session : \A i \in DOMAIN up[s] :
           up[s][i].line \in Line /\ up[s][i].seq \in Nat
      /\ Line \subseteq Nat
  <2>1. /\ pending[c] \in Seq(Line)
        /\ pos \in [Client -> Nat]
        /\ up \in [Session -> Seq(Message)]
    BY DEF TypeOK, TcpTypeOK, ClientTypeOK
  <2>2. \A s \in Session : \A i \in DOMAIN up[s] :
          up[s][i].line \in Line /\ up[s][i].seq \in Nat
    BY <2>1, MessageElements
  <2>3. QED
    BY <2>1, <2>2, LineNat
<1>1. UNCHANGED << up, curMsgId >> /\ ScheduleNextMessage(c, pending[c])
  BY DEF OnConnectSucceed
<1>2. /\ \A d \in Client : d # c => pos'[d] = pos[d] /\ pending'[d] = pending[d]
      /\ \A i \in Line : i <= pos[c] => i <= pos'[c]
      /\ \A i \in DOMAIN pending'[c] : pending'[c][i] <= pos'[c]
      /\ Increasing(pending'[c])
      /\ \A j \in DOMAIN pending'[c] :
           \/ pending'[c][j] > pos[c]
           \/ \E i \in DOMAIN pending[c] : pending'[c][j] = pending[c][i]
  <2>1. (\A i \in DOMAIN pending[c] : pending[c][i] <= pos[c]) /\ Increasing(pending[c])
    BY DEF SentInv, Increasing
  <2>2. QED
    BY <1>0, <1>1, <2>1, ScheduleEffect
<1>3. pending'[c] \in Seq(Line)
  BY <1>0, <1>1, ScheduleType DEF TypeOK, ClientTypeOK
<1>4. \A d \in Client : /\ \A i \in DOMAIN pending'[d] : pending'[d][i] <= pos'[d]
                        /\ \A i, j \in DOMAIN pending'[d] :
                             i < j => pending'[d][i] < pending'[d][j]
  BY <1>2 DEF SentInv, Increasing
<1>5. ASSUME NEW d \in Client, NEW s \in Session, s[1] = d, NEW i \in DOMAIN up[s]
      PROVE  /\ up[s][i].src = d
             /\ up[s][i].seq < curMsgId[d]
             /\ up[s][i].line <= pos'[d]
             /\ \A j \in DOMAIN pending'[d] : up[s][i].line < pending'[d][j]
  <2>1. /\ up[s][i].src = d
        /\ up[s][i].seq < curMsgId[d]
        /\ up[s][i].line <= pos[d]
        /\ \A j \in DOMAIN pending[d] : up[s][i].line < pending[d][j]
    BY <1>5 DEF SentInv
  <2>2. CASE d # c
    BY <1>2, <2>1, <2>2
  <2>3. CASE d = c
    <3>1. \A j \in DOMAIN pending'[c] : pending'[c][j] \in Nat
      BY <1>3, LineElements
    <3>2. up[s][i].line \in Nat /\ pos[c] \in Nat
      BY <1>0
    <3>3. \A j \in DOMAIN pending'[c] : up[s][i].line < pending'[c][j]
      BY <1>2, <2>1, <2>3, <3>1, <3>2
    <3>4. QED
      BY <1>0, <1>2, <2>1, <2>3, <3>3
  <2>4. QED
    BY <2>2, <2>3
<1>6. QED
  BY <1>1, <1>4, <1>5 DEF SentInv

(* What a client sends, and what is left of its queue.                     *)
LEMMA SendEffect ==
  ASSUME TypeOK, SentInv, NEW c \in Client, SendMessage(c)
  PROVE  /\ pending[c] \in Seq(Line)
         /\ Tail(pending[c]) \in Seq(Line)
         /\ 1 \in DOMAIN pending[c]
         /\ NextMessage(c) \in Message
         /\ NextMessage(c).src = c
         /\ NextMessage(c).seq = curMsgId[c]
         /\ NextMessage(c).line = pending[c][1]
         /\ NextMessage(c).line <= pos[c]
         /\ Increasing(Tail(pending[c]))
         /\ \A i \in DOMAIN Tail(pending[c]) :
              /\ i + 1 \in DOMAIN pending[c]
              /\ Tail(pending[c])[i] = pending[c][i + 1]
              /\ Tail(pending[c])[i] <= pos[c]
              /\ NextMessage(c).line < Tail(pending[c])[i]
<1>1. pending[c] \in Seq(Line) /\ pending[c] # << >> /\ curMsgId[c] \in Nat
  BY DEF TypeOK, ClientTypeOK, SendMessage
<1>2. /\ Tail(pending[c]) \in Seq(Line)
      /\ 1 \in DOMAIN pending[c]
      /\ Head(pending[c]) = pending[c][1]
      /\ \A i \in DOMAIN Tail(pending[c]) :
           i + 1 \in DOMAIN pending[c] /\ Tail(pending[c])[i] = pending[c][i + 1]
  BY <1>1, TailElements
<1>3. pending[c][1] \in Line
  BY <1>1, <1>2, LineElements
<1>4. /\ NextMessage(c) \in Message
      /\ NextMessage(c).src = c
      /\ NextMessage(c).seq = curMsgId[c]
      /\ NextMessage(c).line = pending[c][1]
  BY <1>1, <1>2, <1>3 DEF NextMessage, Message
<1>5. DOMAIN Tail(pending[c]) \subseteq Nat \ {0}
  BY <1>2, LineElements
<1>6. /\ \A i \in DOMAIN pending[c] : pending[c][i] <= pos[c]
      /\ \A i, j \in DOMAIN pending[c] : i < j => pending[c][i] < pending[c][j]
  BY DEF SentInv
<1>7. Increasing(Tail(pending[c]))
  <2>1. ASSUME NEW i \in DOMAIN Tail(pending[c]), NEW j \in DOMAIN Tail(pending[c]), i < j
        PROVE  Tail(pending[c])[i] < Tail(pending[c])[j]
    <3>1. i + 1 < j + 1
      BY <1>5, <2>1
    <3>2. QED
      BY <1>2, <1>6, <3>1
  <2>2. QED
    BY <2>1 DEF Increasing
<1>8. ASSUME NEW i \in DOMAIN Tail(pending[c])
      PROVE  Tail(pending[c])[i] <= pos[c] /\ pending[c][1] < Tail(pending[c])[i]
  <2>1. 1 < i + 1
    BY <1>5
  <2>2. QED
    BY <1>2, <1>6, <2>1
<1>9. QED
  BY <1>1, <1>2, <1>4, <1>6, <1>7, <1>8

(* The elements of the streams after a message was sent on s.              *)
LEMMA StreamsAfterSend ==
  ASSUME TypeOK, NEW s \in Session, NEW m \in Message,
         up' = [up EXCEPT ![s] = Append(@, m)],
         NEW t \in Session, NEW i \in DOMAIN up'[t]
  PROVE  \/ i \in DOMAIN up[t] /\ up'[t][i] = up[t][i] /\ (t = s => i <= Len(up[s]))
         \/ t = s /\ i = Len(up[s]) + 1 /\ up'[t][i] = m
<1>1. up \in [Session -> Seq(Message)]
  BY DEF TypeOK, TcpTypeOK
<1>2. CASE t = s
  <2>1. up'[t] = Append(up[s], m)
    BY <1>1, <1>2
  <2>2. up[s] \in Seq(Message)
    BY <1>1
  <2>3. \A k \in DOMAIN Append(up[s], m) :
          \/ k \in DOMAIN up[s] /\ k <= Len(up[s]) /\ Append(up[s], m)[k] = up[s][k]
          \/ k = Len(up[s]) + 1 /\ Append(up[s], m)[k] = m
    BY <2>2, AppendElements
  <2>4. QED
    BY <1>2, <2>1, <2>3
<1>3. CASE t # s
  BY <1>1, <1>3
<1>4. QED
  BY <1>2, <1>3

LEMMA SendKeepsSent ==
  ASSUME TypeOK, ConnInv, SessionInv, SentInv, NEW c \in Client, SendMessage(c)
  PROVE  SentInv'
<1> DEFINE m == NextMessage(c)
           queue == Tail(pending[c])
           own == << c, sock[c] >>
<1>0. /\ pending \in [Client -> Seq(Line)] /\ pos \in [Client -> Nat]
      /\ curMsgId \in [Client -> Nat]
      /\ up \in [Session -> Seq(Message)]
  BY DEF TypeOK, TcpTypeOK, ClientTypeOK
<1>1. /\ queue \in Seq(Line)
      /\ 1 \in DOMAIN pending[c]
      /\ m \in Message /\ m.src = c /\ m.seq = curMsgId[c]
      /\ m.line = pending[c][1] /\ m.line <= pos[c]
      /\ Increasing(queue)
      /\ \A i \in DOMAIN queue :
           /\ i + 1 \in DOMAIN pending[c] /\ queue[i] = pending[c][i + 1]
           /\ queue[i] <= pos[c] /\ m.line < queue[i]
  BY SendEffect
<1>2. m.line \in Line /\ m.line \in Nat
  BY <1>1, LineNat DEF Message
<1> HIDE DEF m, queue
<1>3. CASE /\ pending' = [pending EXCEPT ![c] = queue]
           /\ UNCHANGED << up, pos, curMsgId >>
  BY <1>0, <1>1, <1>3 DEF SentInv, Increasing
<1>4. CASE /\ sock[c] # 0
           /\ up' = [up EXCEPT ![own] = Append(@, m)]
           /\ curMsgId' = [curMsgId EXCEPT ![c] = @ + 1]
           /\ ScheduleNextMessage(c, queue)
  <2>1. /\ \A d \in Client : d # c => pos'[d] = pos[d] /\ pending'[d] = pending[d]
        /\ \A i \in Line : i <= pos[c] => i <= pos'[c]
        /\ \A i \in DOMAIN pending'[c] : pending'[c][i] <= pos'[c]
        /\ Increasing(pending'[c])
        /\ \A j \in DOMAIN pending'[c] :
             pending'[c][j] > pos[c] \/ \E i \in DOMAIN queue : pending'[c][j] = queue[i]
    BY <1>1, <1>4, ScheduleEffect
  <2>2. \A j \in DOMAIN pending'[c] : pending'[c][j] \in Nat
    <3>1. pending'[c] \in Seq(Line)
      BY <1>1, <1>4, ScheduleType
    <3>2. QED
      BY <3>1, LineElements
  <2>3. own \in Session /\ sock[c] = epoch[c]
    <3>1. sock[c] \in 1 .. MaxFaults + 1
      BY <1>4, MaxFaultsAssumption DEF TypeOK, ClientTypeOK
    <3>2. QED
      BY <1>4, <3>1 DEF Session, ConnInv
  <2> HIDE DEF own
  <2>4. ASSUME NEW s \in Session, NEW i \in DOMAIN up'[s]
        PROVE  \/ i \in DOMAIN up[s] /\ up'[s][i] = up[s][i] /\ (s = own => i <= Len(up[own]))
               \/ s = own /\ i = Len(up[own]) + 1 /\ up'[s][i] = m
    BY <1>1, <1>4, <2>3, <2>4, StreamsAfterSend
  <2>5. \A d \in Client : /\ \A i \in DOMAIN pending'[d] : pending'[d][i] <= pos'[d]
                          /\ \A i, j \in DOMAIN pending'[d] :
                               i < j => pending'[d][i] < pending'[d][j]
    BY <2>1 DEF SentInv, Increasing
  <2>6. ASSUME NEW d \in Client, NEW s \in Session, s[1] = d, NEW i \in DOMAIN up'[s]
        PROVE  /\ up'[s][i].src = d
               /\ up'[s][i].seq < curMsgId'[d]
               /\ up'[s][i].line <= pos'[d]
               /\ \A j \in DOMAIN pending'[d] : up'[s][i].line < pending'[d][j]
    <3>1. CASE i \in DOMAIN up[s] /\ up'[s][i] = up[s][i]
      <4>1. /\ up[s][i].src = d
            /\ up[s][i].seq < curMsgId[d]
            /\ up[s][i].line <= pos[d]
            /\ \A j \in DOMAIN pending[d] : up[s][i].line < pending[d][j]
        BY <2>6, <3>1 DEF SentInv
      <4>2. /\ up[s][i].line \in Line /\ up[s][i].line \in Nat /\ up[s][i].seq \in Nat
        BY <1>0, <3>1, MessageElements
      <4>3. up[s][i].seq < curMsgId'[d]
        BY <1>0, <1>4, <4>1, <4>2
      <4>4. up[s][i].line <= pos'[d]
        BY <2>1, <4>1, <4>2
      <4>5. ASSUME NEW j \in DOMAIN pending'[d]
            PROVE  up[s][i].line < pending'[d][j]
        <5>1. CASE d # c
          BY <2>1, <4>1, <5>1
        <5>2. CASE d = c /\ pending'[c][j] > pos[c]
          BY <1>0, <2>2, <4>1, <4>2, <5>2
        <5>3. CASE d = c /\ \E k \in DOMAIN queue : pending'[c][j] = queue[k]
          BY <1>1, <4>1, <5>3
        <5>4. QED
          BY <2>1, <5>1, <5>2, <5>3
      <4>6. QED
        BY <3>1, <4>1, <4>3, <4>4, <4>5
    <3>2. CASE s = own /\ up'[s][i] = m
      <4>1. d = c
        BY <2>6, <3>2 DEF own
      <4>2. curMsgId'[c] = curMsgId[c] + 1
        BY <1>0, <1>4
      <4>3. ASSUME NEW j \in DOMAIN pending'[c]
            PROVE  m.line < pending'[c][j]
        <5>1. CASE pending'[c][j] > pos[c]
          BY <1>0, <1>1, <1>2, <2>2, <5>1
        <5>2. CASE \E k \in DOMAIN queue : pending'[c][j] = queue[k]
          BY <1>1, <5>2
        <5>3. QED
          BY <2>1, <5>1, <5>2
      <4>4. m.line <= pos'[c]
        BY <1>1, <1>2, <2>1
      <4>5. m.seq < curMsgId'[c]
        BY <1>0, <1>1, <4>2
      <4>6. QED
        BY <1>1, <3>2, <4>1, <4>3, <4>4, <4>5
    <3>3. QED
      BY <2>4, <3>1, <3>2
  <2>7. ASSUME NEW d \in Client, NEW s \in Session, NEW t \in Session, s[1] = d, t[1] = d,
               NEW i \in DOMAIN up'[s], NEW j \in DOMAIN up'[t], Later(s[2], i, t[2], j)
        PROVE  Precedes(up'[s][i], up'[t][j])
    <3>1. CASE i \in DOMAIN up[s] /\ up'[s][i] = up[s][i] /\ j \in DOMAIN up[t] /\ up'[t][j] = up[t][j]
      BY <2>7, <3>1 DEF SentInv
    <3>2. CASE i \in DOMAIN up[s] /\ up'[s][i] = up[s][i] /\ t = own /\ up'[t][j] = m
      <4>1. d = c
        BY <2>7, <3>2 DEF own
      <4>2. up[s][i].seq < curMsgId[c] /\ up[s][i].line < pending[c][1]
        BY <1>1, <2>7, <3>2, <4>1 DEF SentInv
      <4>3. QED
        BY <1>1, <3>2, <4>2 DEF Precedes
    <3>3. CASE s = own /\ i = Len(up[own]) + 1
      <4>1. d = c /\ s[2] = epoch[c]
        BY <2>3, <2>7, <3>3 DEF own
      <4>2. epoch[c] \in Nat /\ t[2] \in Nat /\ t[1] \in Client
        BY MaxFaultsAssumption DEF TypeOK, TcpTypeOK, Session
      <4>3. t[2] > epoch[c] => up[t] = << >> /\ t # own
        BY <2>3, <2>7, <4>1, <4>2 DEF SessionInv, own
      <4>4. ~(t[2] > epoch[c])
        <5>1. SUFFICES ASSUME t[2] > epoch[c] PROVE FALSE
          OBVIOUS
        <5>2. up'[t] = << >>
          BY <1>0, <1>4, <4>3, <5>1
        <5>3. QED
          BY <5>2
      <4>5. s[2] = t[2] /\ i < j
        BY <2>7, <4>1, <4>2, <4>4 DEF Later
      <4>6. t = own
        BY <2>7, <3>3, <4>5 DEF Session
      <4>7. j \in Nat /\ j <= Len(up[own]) + 1 /\ Len(up[own]) \in Nat
        <5>1. up[own] \in Seq(Message)
          BY <1>0, <2>3
        <5>2. Len(up[own]) \in Nat /\ DOMAIN up[own] = 1 .. Len(up[own])
          BY <5>1, LenProperties
        <5>3. j \in DOMAIN up[own] \/ j = Len(up[own]) + 1
          BY <2>4, <2>7, <4>6
        <5>4. QED
          BY <5>2, <5>3
      <4>8. QED
        BY <3>3, <4>5, <4>7
    <3>4. QED
      BY <2>4, <3>1, <3>2, <3>3
  <2>8. QED
    BY <2>5, <2>6, <2>7 DEF SentInv
<1>5. QED
  BY <1>3, <1>4 DEF SendMessage, m, queue

LEMMA SentStep ==
  ASSUME TypeOK, ConnInv, SessionInv, SentInv, Next
  PROVE  SentInv'
<1>1. ASSUME ServerNext, UNCHANGED clientVars
      PROVE  SentInv'
  <2>1. UNCHANGED up
    BY <1>1 DEF ServerNext, ServerStart, ServerStop, OnConnectionRequest,
                OnConnectionAccept, RebroadcastIncomingMsg, ServerOnError
  <2>2. QED
    BY <1>1, <2>1, SentFrame DEF clientVars
<1>2. ASSUME NEW c \in Client, ClientNext(c)
      PROVE  SentInv'
  <2>1. CASE OnConnectSucceed(c)
    BY <2>1, SucceedKeepsSent
  <2>2. CASE SendMessage(c)
    BY <2>2, SendKeepsSent
  <2>3. CASE ~OnConnectSucceed(c) /\ ~SendMessage(c)
    BY <1>2, <2>3, SentFrame
    DEF ClientNext, StartApplication, RetryConnect, OnConnectFailed, OnShutdown,
        OnError, StopApplication, OnRecvMessage, clientVars
  <2>4. QED
    BY <2>1, <2>2, <2>3
<1>3. QED
  BY <1>1, <1>2 DEF Next, ServerRuns, ClientRuns
-----------------------------------------------------------------------------
(* What the server relays.                                                 *)
LEMMA RebroadcastKeepsRelay ==
  ASSUME TypeOK, SentInv, RelayInv,
         NEW s \in Session, RebroadcastIncomingMsg(s), UNCHANGED clientVars
  PROVE  RelayInv'
<1>1. PICK n, batch : Relays(s, n, batch)
  BY RebroadcastRelays
<1> DEFINE c == s[1]
<1>2. /\ s = Current(c) /\ c \in Client
      /\ n \in Nat /\ taken[s] \in Nat
      /\ history \in Seq(Message) /\ batch \in Seq(Message) /\ DOMAIN batch = 1 .. n
      /\ taken'[s] = taken[s] + n
      /\ \A t \in Session : t # s => taken'[t] = taken[t]
      /\ history' = history \o batch
      /\ UNCHANGED << epoch, up, curMsgId >>
  BY <1>1 DEF Relays, TypeOK, TcpTypeOK, ServerTypeOK, clientVars, Session
<1>3. \A i \in DOMAIN batch : /\ taken[s] + i \in DOMAIN up[s]
                             /\ batch[i] = up[s][taken[s] + i]
  BY <1>1, <1>2 DEF Relays
<1>4. \A i \in DOMAIN history' :
        \/ i \in DOMAIN history /\ history'[i] = history[i]
        \/ /\ i > Len(history) /\ i - Len(history) \in DOMAIN batch
           /\ history'[i] = batch[i - Len(history)]
  BY <1>2, ConcatElements
<1>5. \A i \in DOMAIN up[s] : up[s][i].src = c /\ up[s][i].seq < curMsgId[c]
  BY <1>2 DEF SentInv
<1>6. \A i, j \in DOMAIN up[s] : i < j => up[s][i].seq < up[s][j].seq
  BY <1>2 DEF SentInv, Later, Precedes
<1>7. \A i \in DOMAIN batch : batch[i].src = c
  BY <1>3, <1>5
<1>8. /\ DOMAIN history = 1 .. Len(history) /\ Len(history) \in Nat
      /\ DOMAIN history' \subseteq Nat
  <2>1. history' \in Seq(Message)
    BY <1>2, ConcatElements
  <2>2. DOMAIN history' = 1 .. Len(history') /\ Len(history') \in Nat
    BY <2>1, MessageElements
  <2>3. QED
    BY <1>2, <2>2, MessageElements
<1>9. \A h \in DOMAIN history : history[h].src = c =>
        \A j \in DOMAIN up[s] : j > taken[s] => history[h].seq < up[s][j].seq
  BY <1>2 DEF RelayInv
<1> HIDE DEF c
<1>10. ASSUME NEW g \in DOMAIN history', NEW h \in DOMAIN history',
              g < h, history'[g].src = history'[h].src
       PROVE  history'[g].seq < history'[h].seq
  <2>1. CASE g \in DOMAIN history /\ h \in DOMAIN history /\ history'[g] = history[g] /\ history'[h] = history[h]
    BY <1>10, <2>1 DEF RelayInv
  <2>2. CASE /\ g \in DOMAIN history /\ history'[g] = history[g]
             /\ h - Len(history) \in DOMAIN batch /\ history'[h] = batch[h - Len(history)]
    <3>1. taken[s] + (h - Len(history)) > taken[s]
      BY <1>2, <1>8, <2>2
    <3>2. QED
      BY <1>3, <1>7, <1>9, <1>10, <2>2, <3>1
  <2>3. CASE /\ g > Len(history) /\ g - Len(history) \in DOMAIN batch
             /\ history'[g] = batch[g - Len(history)]
    <3>1. ~(h \in DOMAIN history)
      BY <1>8, <1>10, <2>3
    <3>2. h - Len(history) \in DOMAIN batch /\ history'[h] = batch[h - Len(history)]
      BY <1>4, <3>1
    <3>3. taken[s] + (g - Len(history)) < taken[s] + (h - Len(history))
      BY <1>2, <1>8, <1>10
    <3>4. QED
      BY <1>3, <1>6, <2>3, <3>2, <3>3
  <2>4. QED
    BY <1>4, <2>1, <2>2, <2>3
<1>11. ASSUME NEW h \in DOMAIN history'
       PROVE  /\ history'[h].seq < curMsgId'[history'[h].src]
              /\ \A t \in Session :
                   t = << history'[h].src, epoch'[history'[h].src] >> =>
                     \A j \in DOMAIN up'[t] :
                       j > taken'[t] => history'[h].seq < up'[t][j].seq
  <2>1. CASE h \in DOMAIN history /\ history'[h] = history[h]
    <3>1. history[h].seq < curMsgId[history[h].src]
      BY <2>1 DEF RelayInv
    <3>2. ASSUME NEW t \in Session, t = << history[h].src, epoch[history[h].src] >>,
                 NEW j \in DOMAIN up[t], j > taken'[t]
          PROVE  history[h].seq < up[t][j].seq
      <4>1. j \in Nat /\ taken[t] \in Nat
        <5>1. up[t] \in Seq(Message) /\ taken[t] \in Nat
          BY DEF TypeOK, TcpTypeOK
        <5>2. QED
          BY <5>1, MessageElements
      <4>2. j > taken[t]
        <5>1. taken'[t] = taken[t] \/ (t = s /\ taken'[t] = taken[t] + n)
          BY <1>2
        <5>2. QED
          BY <1>2, <3>2, <4>1, <5>1
      <4>3. QED
        BY <2>1, <3>2, <4>2 DEF RelayInv, Current
    <3>3. QED
      BY <1>2, <2>1, <3>1, <3>2
  <2>2. CASE /\ h - Len(history) \in DOMAIN batch /\ history'[h] = batch[h - Len(history)]
    <3>1. history'[h].src = c
      BY <1>7, <2>2
    <3>2. history'[h].seq < curMsgId[c]
      BY <1>3, <1>5, <2>2
    <3>3. ASSUME NEW j \in DOMAIN up[s], j > taken'[s]
          PROVE  history'[h].seq < up[s][j].seq
      <4>1. up[s] \in Seq(Message) /\ h - Len(history) \in 1 .. n
        BY <1>2, <2>2 DEF TypeOK, TcpTypeOK
      <4>2. j \in Nat
        BY <4>1, MessageElements
      <4>3. taken[s] + (h - Len(history)) < j
        BY <1>2, <3>3, <4>1, <4>2
      <4>4. QED
        BY <1>3, <1>6, <2>2, <4>3
    <3>4. s = << c, epoch[c] >>
      BY <1>2 DEF Current
    <3>5. QED
      BY <1>2, <3>1, <3>2, <3>3, <3>4
  <2>3. QED
    BY <1>4, <2>1, <2>2
<1>12. QED
  BY <1>10, <1>11 DEF RelayInv, Current

LEMMA RequestKeepsRelay ==
  ASSUME TypeOK, SessionInv, RelayInv,
         NEW c \in Client, OnConnectionRequest(c), UNCHANGED clientVars
  PROVE  RelayInv'
<1>1. /\ epoch \in [Client -> Nat]
      /\ history \in Seq(Message)
      /\ \A s \in Session : s[2] > epoch[s[1]] => up[s] = << >>
      /\ epoch' = [epoch EXCEPT ![c] = @ + 1]
      /\ UNCHANGED << history, curMsgId, up, taken >>
  BY MaxFaultsAssumption
  DEF TypeOK, TcpTypeOK, ServerTypeOK, SessionInv, OnConnectionRequest, clientVars, serverVars
<1>2. ASSUME NEW h \in DOMAIN history, NEW t \in Session,
             t = << history[h].src, epoch'[history[h].src] >>,
             NEW j \in DOMAIN up[t], j > taken[t]
      PROVE  history[h].seq < up[t][j].seq
  <2>1. history[h].src \in Client
    BY <1>1, MessageElements
  <2>2. CASE history[h].src = c
    <3>1. t = << c, epoch[c] + 1 >> /\ epoch[c] \in Nat
      BY <1>1, <1>2, <2>2
    <3>2. t[2] > epoch[t[1]]
      BY <3>1
    <3>3. up[t] = << >>
      BY <1>1, <3>2
    <3>4. QED
      BY <1>2, <3>3
  <2>3. CASE history[h].src # c
    <3>1. t = Current(history[h].src)
      BY <1>1, <1>2, <2>1, <2>3 DEF Current
    <3>2. QED
      BY <1>2, <3>1 DEF RelayInv
  <2>4. QED
    BY <2>2, <2>3
<1>3. QED
  BY <1>1, <1>2 DEF RelayInv, Current

LEMMA SendKeepsRelay ==
  ASSUME TypeOK, ConnInv, SentInv, RelayInv,
         NEW c \in Client, SendMessage(c), UNCHANGED serverVars
  PROVE  RelayInv'
<1> DEFINE m == NextMessage(c)
           own == << c, sock[c] >>
<1>1. UNCHANGED << history, epoch, taken >>
  BY DEF SendMessage, serverVars
<1>2. CASE UNCHANGED << up, curMsgId >>
  BY <1>1, <1>2, RelayFrame
<1>3. CASE /\ sock[c] # 0
           /\ up' = [up EXCEPT ![own] = Append(@, m)]
           /\ curMsgId' = [curMsgId EXCEPT ![c] = @ + 1]
  <2>1. m \in Message /\ m.seq = curMsgId[c] /\ own \in Session
    <3>1. m \in Message /\ m.seq = curMsgId[c]
      BY SendEffect
    <3>2. sock[c] \in 1 .. MaxFaults + 1
      BY <1>3, MaxFaultsAssumption DEF TypeOK, ClientTypeOK
    <3>3. QED
      BY <3>1, <3>2 DEF Session
  <2> HIDE DEF m
  <2>2. ASSUME NEW h \in DOMAIN history
        PROVE  /\ history[h].seq < curMsgId'[history[h].src]
               /\ \A t \in Session : t = Current(history[h].src) =>
                    \A j \in DOMAIN up'[t] : j > taken[t] => history[h].seq < up'[t][j].seq
    <3>1. history \in Seq(Message)
      BY DEF TypeOK, ServerTypeOK
    <3>2. history[h].seq \in Nat /\ history[h].src \in Client
      BY <3>1, MessageElements
    <3>3. history[h].seq < curMsgId[history[h].src]
      BY DEF RelayInv
    <3>4. curMsgId \in [Client -> Nat]
      BY DEF TypeOK, ClientTypeOK
    <3>5. ASSUME NEW t \in Session, t = Current(history[h].src),
                 NEW j \in DOMAIN up'[t], j > taken[t]
          PROVE  history[h].seq < up'[t][j].seq
      <4>1. \/ j \in DOMAIN up[t] /\ up'[t][j] = up[t][j]
            \/ t = own /\ up'[t][j] = m
        BY <1>3, <2>1, StreamsAfterSend
      <4>2. CASE j \in DOMAIN up[t] /\ up'[t][j] = up[t][j]
        BY <3>5, <4>2 DEF RelayInv
      <4>3. CASE t = own /\ up'[t][j] = m
        <5>1. history[h].src = c
          BY <3>5, <4>3 DEF Current
        <5>2. QED
          BY <2>1, <3>3, <4>3, <5>1
      <4>4. QED
        BY <4>1, <4>2, <4>3
    <3>6. history[h].seq < curMsgId'[history[h].src]
      <4> DEFINE x == history[h].src
                 y == history[h].seq
      <4>1. x \in Client /\ y \in Nat /\ y < curMsgId[x]
        BY <3>2, <3>3
      <4> HIDE DEF x, y
      <4>2. y < curMsgId'[x]
        BY <1>3, <3>4, <4>1
      <4>3. QED
        BY <4>2 DEF x, y
    <3>7. QED
      BY <3>5, <3>6
  <2>3. QED
    BY <1>1, <2>2 DEF RelayInv, Current
<1>4. QED
  BY <1>2, <1>3 DEF SendMessage, m, own

LEMMA RelayStep ==
  ASSUME TypeOK, ConnInv, SessionInv, SentInv, RelayInv, Next
  PROVE  RelayInv'
<1>1. ASSUME NEW s \in Session, RebroadcastIncomingMsg(s), UNCHANGED clientVars
      PROVE  RelayInv'
  BY <1>1, RebroadcastKeepsRelay
<1>2. ASSUME NEW c \in Client, OnConnectionRequest(c), UNCHANGED clientVars
      PROVE  RelayInv'
  BY <1>2, RequestKeepsRelay
<1>3. ASSUME ServerNext, UNCHANGED clientVars,
             \A s \in Session : ~RebroadcastIncomingMsg(s),
             \A c \in Client : ~OnConnectionRequest(c)
      PROVE  RelayInv'
  <2>1. UNCHANGED << history, epoch, up, taken >>
    BY <1>3 DEF ServerNext, ServerStart, ServerStop, OnConnectionAccept,
                ServerOnError, serverVars
  <2>2. QED
    BY <1>3, <2>1, RelayFrame DEF clientVars
<1>4. ASSUME NEW c \in Client, ClientNext(c), UNCHANGED serverVars
      PROVE  RelayInv'
  <2>1. CASE SendMessage(c)
    BY <1>4, <2>1, SendKeepsRelay
  <2>2. CASE ~SendMessage(c)
    <3>1. UNCHANGED << curMsgId, epoch, up, taken >>
      BY <1>4, <2>2
      DEF ClientNext, StartApplication, RetryConnect, OnConnectSucceed,
          OnConnectFailed, OnShutdown, OnError, StopApplication, OnRecvMessage, clientVars
    <3>2. QED
      BY <1>4, <3>1, RelayFrame DEF serverVars
  <2>3. QED
    BY <2>1, <2>2
<1>5. QED
  BY <1>1, <1>2, <1>3, <1>4 DEF Next, ServerRuns, ClientRuns
-----------------------------------------------------------------------------
(* What was written for the listeners.                                     *)

(* The messages of a batch are newer than all that was relayed before.     *)
LEMMA BatchIsNewer ==
  ASSUME TypeOK, SentInv, RelayInv,
         NEW s \in Session, NEW n, NEW batch, Relays(s, n, batch)
  PROVE  /\ \A k \in DOMAIN batch : batch[k].src = s[1]
         /\ \A k, l \in DOMAIN batch : k < l => batch[k].seq < batch[l].seq
         /\ \A k \in DOMAIN batch : \A h \in DOMAIN history :
              history[h].src = batch[k].src => history[h].seq < batch[k].seq
<1> DEFINE c == s[1]
<1>1. /\ s = Current(c) /\ c \in Client
      /\ taken[s] \in Nat /\ DOMAIN batch = 1 .. n /\ n \in Nat
      /\ \A k \in DOMAIN batch : /\ taken[s] + k \in DOMAIN up[s]
                                 /\ batch[k] = up[s][taken[s] + k]
  BY DEF Relays, TypeOK, TcpTypeOK, Session
<1>2. \A i \in DOMAIN up[s] : up[s][i].src = c
  BY <1>1 DEF SentInv
<1>3. \A i, j \in DOMAIN up[s] : i < j => up[s][i].seq < up[s][j].seq
  BY <1>1 DEF SentInv, Later, Precedes
<1>4. \A h \in DOMAIN history : history[h].src = c =>
        \A j \in DOMAIN up[s] : j > taken[s] => history[h].seq < up[s][j].seq
  BY <1>1 DEF RelayInv
<1> HIDE DEF c
<1>5. \A k \in DOMAIN batch : batch[k].src = c
  BY <1>1, <1>2
<1>6. \A k, l \in DOMAIN batch : k < l => batch[k].seq < batch[l].seq
  <2>1. ASSUME NEW k \in DOMAIN batch, NEW l \in DOMAIN batch, k < l
        PROVE  batch[k].seq < batch[l].seq
    <3>1. taken[s] + k < taken[s] + l
      BY <1>1, <2>1
    <3>2. QED
      BY <1>1, <1>3, <3>1
  <2>2. QED
    BY <2>1
<1>7. ASSUME NEW k \in DOMAIN batch, NEW h \in DOMAIN history, history[h].src = batch[k].src
      PROVE  history[h].seq < batch[k].seq
  <2>1. taken[s] + k > taken[s]
    BY <1>1
  <2>2. QED
    BY <1>1, <1>4, <1>5, <1>7, <2>1
<1>8. QED
  BY <1>5, <1>6, <1>7 DEF c

(* The stream of a listener after a batch: the old messages, then perhaps  *)
(* the batch.                                                              *)
LEMMA DownElements ==
  ASSUME TypeOK, NEW s \in Session, NEW n, NEW batch, Relays(s, n, batch),
         NEW t \in Session
  PROVE  /\ DOMAIN down[t] = 1 .. Len(down[t]) /\ Len(down[t]) \in Nat
         /\ \A i \in DOMAIN down[t] : i \in DOMAIN down'[t] /\ down'[t][i] = down[t][i]
         /\ \A i \in DOMAIN down'[t] :
              \/ i \in DOMAIN down[t] /\ down'[t][i] = down[t][i]
              \/ /\ t # s /\ i > Len(down[t])
                 /\ i - Len(down[t]) \in DOMAIN batch
                 /\ down'[t][i] = batch[i - Len(down[t])]
         /\ DOMAIN down'[t] \subseteq Nat
<1>1. down[t] \in Seq(Message) /\ batch \in Seq(Message)
  BY DEF TypeOK, TcpTypeOK, Relays
<1>2. DOMAIN down[t] = 1 .. Len(down[t]) /\ Len(down[t]) \in Nat
  BY <1>1, MessageElements
<1>3. CASE down'[t] = down[t]
  BY <1>2, <1>3
<1>4. CASE t # s /\ down'[t] = down[t] \o batch
  <2>1. /\ down[t] \o batch \in Seq(Message)
        /\ \A i \in DOMAIN down[t] : /\ i \in DOMAIN (down[t] \o batch)
                                     /\ (down[t] \o batch)[i] = down[t][i]
        /\ \A i \in DOMAIN (down[t] \o batch) :
             \/ i \in DOMAIN down[t] /\ (down[t] \o batch)[i] = down[t][i]
             \/ /\ i > Len(down[t])
                /\ i - Len(down[t]) \in DOMAIN batch
                /\ (down[t] \o batch)[i] = batch[i - Len(down[t])]
    BY <1>1, ConcatElements
  <2>2. DOMAIN (down[t] \o batch) = 1 .. Len(down[t] \o batch)
    BY <2>1, MessageElements
  <2>3. QED
    BY <1>2, <1>4, <2>1, <2>2
<1>5. QED
  BY <1>3, <1>4 DEF Relays

(* What a rebroadcast writes was relayed.                                  *)
LEMMA RebroadcastOnlyRelayed ==
  ASSUME TypeOK, DownInv,
         NEW s \in Session, NEW n, NEW batch, Relays(s, n, batch),
         NEW t \in Session, NEW i \in DOMAIN down'[t]
  PROVE  \E h \in DOMAIN history' : history'[h] = down'[t][i]
<1>1. history \in Seq(Message) /\ batch \in Seq(Message) /\ history' = history \o batch
  BY DEF Relays, TypeOK, ServerTypeOK
<1>2. /\ \A h \in DOMAIN history : h \in DOMAIN history' /\ history'[h] = history[h]
      /\ \A k \in DOMAIN batch : /\ Len(history) + k \in DOMAIN history'
                                 /\ history'[Len(history) + k] = batch[k]
  BY <1>1, ConcatElements
<1>3. CASE i \in DOMAIN down[t] /\ down'[t][i] = down[t][i]
  <2>1. PICK h \in DOMAIN history : history[h] = down[t][i]
    BY <1>3 DEF DownInv
  <2>2. QED
    BY <1>2, <1>3, <2>1
<1>4. CASE i - Len(down[t]) \in DOMAIN batch /\ down'[t][i] = batch[i - Len(down[t])]
  BY <1>2, <1>4
<1>5. QED
  BY <1>3, <1>4, DownElements

LEMMA RebroadcastKeepsDown ==
  ASSUME TypeOK, SessionInv, SentInv, RelayInv, DownInv,
         NEW s \in Session, RebroadcastIncomingMsg(s)
  PROVE  DownInv'
<1>1. PICK n, batch : Relays(s, n, batch)
  BY RebroadcastRelays
<1>2. /\ \A k \in DOMAIN batch : batch[k].src = s[1]
      /\ \A k, l \in DOMAIN batch : k < l => batch[k].seq < batch[l].seq
      /\ \A k \in DOMAIN batch : \A h \in DOMAIN history :
           history[h].src = batch[k].src => history[h].seq < batch[k].seq
  BY <1>1, BatchIsNewer
<1>3. ASSUME NEW t \in Session, NEW i \in DOMAIN down[t], NEW k \in DOMAIN batch,
             down[t][i].src = batch[k].src
      PROVE  down[t][i].seq < batch[k].seq
  <2>1. PICK h \in DOMAIN history : history[h] = down[t][i]
    BY DEF DownInv
  <2>2. QED
    BY <1>2, <1>3, <2>1
<1>4. ASSUME NEW t \in Session
      PROVE  \A i, j \in DOMAIN down'[t] :
               i < j /\ down'[t][i].src = down'[t][j].src =>
                 down'[t][i].seq < down'[t][j].seq
  <2>1. /\ DOMAIN down[t] = 1 .. Len(down[t]) /\ Len(down[t]) \in Nat
        /\ \A i \in DOMAIN down'[t] :
             \/ i \in DOMAIN down[t] /\ down'[t][i] = down[t][i]
             \/ /\ t # s /\ i > Len(down[t])
                /\ i - Len(down[t]) \in DOMAIN batch
                /\ down'[t][i] = batch[i - Len(down[t])]
        /\ DOMAIN down'[t] \subseteq Nat
    BY <1>1, DownElements
  <2>2. ASSUME NEW i \in DOMAIN down'[t], NEW j \in DOMAIN down'[t], i < j,
               down'[t][i].src = down'[t][j].src
        PROVE  down'[t][i].seq < down'[t][j].seq
    <3>1. CASE /\ i \in DOMAIN down[t] /\ down'[t][i] = down[t][i]
               /\ j \in DOMAIN down[t] /\ down'[t][j] = down[t][j]
      BY <2>2, <3>1 DEF DownInv
    <3>2. CASE /\ i \in DOMAIN down[t] /\ down'[t][i] = down[t][i]
               /\ j - Len(down[t]) \in DOMAIN batch
               /\ down'[t][j] = batch[j - Len(down[t])]
      BY <1>3, <2>2, <3>2
    <3>3. CASE /\ i > Len(down[t]) /\ i - Len(down[t]) \in DOMAIN batch
               /\ down'[t][i] = batch[i - Len(down[t])]
      <4>1. i \in Nat /\ j \in Nat /\ ~(j \in DOMAIN down[t])
        BY <2>1, <2>2, <3>3
      <4>2. j - Len(down[t]) \in DOMAIN batch /\ down'[t][j] = batch[j - Len(down[t])]
        BY <2>1, <4>1
      <4>3. i - Len(down[t]) < j - Len(down[t])
        BY <2>1, <2>2, <4>1
      <4>4. QED
        BY <1>2, <3>3, <4>2, <4>3
    <3>4. QED
      BY <2>1, <3>1, <3>2, <3>3
  <2>3. QED
    BY <2>2
<1>5. ASSUME NEW r \in Session, NEW t \in Session, r[1] = t[1], r[2] < t[2],
             NEW i \in 1 .. heard'[r], NEW j \in DOMAIN down'[t],
             down'[r][i].src = down'[t][j].src
      PROVE  down'[r][i].seq < down'[t][j].seq
  <2>1. /\ DOMAIN down[r] = 1 .. Len(down[r]) /\ Len(down[r]) \in Nat
        /\ \A k \in DOMAIN down[r] : down'[r][k] = down[r][k]
    BY <1>1, DownElements
  <2>2. i \in 1 .. heard[r] /\ heard[r] <= Len(down[r]) /\ heard[r] \in Nat
    BY <1>1 DEF Relays, SessionInv, TypeOK, TcpTypeOK
  <2>3. i \in DOMAIN down[r] /\ down'[r][i] = down[r][i]
    BY <2>1, <2>2
  <2>4. \/ j \in DOMAIN down[t] /\ down'[t][j] = down[t][j]
        \/ j - Len(down[t]) \in DOMAIN batch /\ down'[t][j] = batch[j - Len(down[t])]
    BY <1>1, DownElements
  <2>5. CASE j \in DOMAIN down[t] /\ down'[t][j] = down[t][j]
    BY <1>5, <2>2, <2>3, <2>5 DEF DownInv
  <2>6. CASE j - Len(down[t]) \in DOMAIN batch /\ down'[t][j] = batch[j - Len(down[t])]
    BY <1>3, <1>5, <2>3, <2>6
  <2>7. QED
    BY <2>4, <2>5, <2>6
<1>6. \A t \in Session : \A i \in DOMAIN down'[t] :
        \E h \in DOMAIN history' : history'[h] = down'[t][i]
  BY <1>1, RebroadcastOnlyRelayed
<1>7. QED
  BY <1>4, <1>5, <1>6 DEF DownInv

(* A client reads on within the stream of its latest session.              *)
LEMMA RecvEffect ==
  ASSUME TypeOK, SessionInv, NEW c \in Client, OnRecvMessage(c)
  PROVE  /\ \A t \in Session : t # Current(c) => heard'[t] = heard[t]
         /\ \A t \in Session : \A i \in 1 .. heard'[t] : i \in DOMAIN down[t]
         /\ UNCHANGED << epoch, down >>
<1>1. PICK n \in 1 .. Len(down[Current(c)]) - heard[Current(c)] :
        heard' = [heard EXCEPT ![Current(c)] = @ + n]
  BY DEF OnRecvMessage
<1>2. ASSUME NEW t \in Session
      PROVE  \A i \in 1 .. heard'[t] : i \in DOMAIN down[t]
  <2>1. down[t] \in Seq(Message) /\ heard \in [Session -> Nat] /\ heard[t] <= Len(down[t])
    BY DEF TypeOK, TcpTypeOK, SessionInv
  <2>2. DOMAIN down[t] = 1 .. Len(down[t]) /\ Len(down[t]) \in Nat
    BY <2>1, MessageElements
  <2>3. heard'[t] <= Len(down[t]) /\ heard'[t] \in Nat
    BY <1>1, <2>1, <2>2
  <2>4. QED
    BY <2>2, <2>3
<1>3. \A t \in Session : t # Current(c) => heard'[t] = heard[t]
  BY <1>1 DEF TypeOK, TcpTypeOK
<1>4. QED
  BY <1>2, <1>3 DEF OnRecvMessage

LEMMA RecvKeepsDown ==
  ASSUME TypeOK, SessionInv, DownInv, NEW c \in Client, OnRecvMessage(c),
         UNCHANGED serverVars
  PROVE  DownInv'
<1>1. UNCHANGED << down, history >>
  BY DEF OnRecvMessage, serverVars
<1>2. ASSUME NEW r \in Session, NEW t \in Session, r[1] = t[1], r[2] < t[2],
             NEW i \in 1 .. heard'[r], NEW j \in DOMAIN down[t],
             down[r][i].src = down[t][j].src
      PROVE  down[r][i].seq < down[t][j].seq
  <2>1. CASE r = Current(c)
    <3>1. t[2] > epoch[t[1]]
      <4>1. epoch[c] \in Nat /\ t[2] \in Nat
        BY MaxFaultsAssumption DEF TypeOK, TcpTypeOK, Session
      <4>2. r[1] = c /\ r[2] = epoch[c]
        BY <2>1 DEF Current
      <4>3. QED
        BY <1>2, <4>1, <4>2
    <3>2. down[t] = << >>
      BY <3>1 DEF SessionInv
    <3>3. QED
      BY <1>2, <3>2
  <2>2. CASE r # Current(c)
    <3>1. heard'[r] = heard[r]
      BY <2>2, RecvEffect
    <3>2. QED
      BY <1>2, <3>1 DEF DownInv
  <2>3. QED
    BY <2>1, <2>2
<1>3. QED
  BY <1>1, <1>2 DEF DownInv

LEMMA DownStep ==
  ASSUME TypeOK, SessionInv, SentInv, RelayInv, DownInv, Next
  PROVE  DownInv'
<1>1. ASSUME NEW s \in Session, RebroadcastIncomingMsg(s)
      PROVE  DownInv'
  BY <1>1, RebroadcastKeepsDown
<1>2. ASSUME ServerNext, \A s \in Session : ~RebroadcastIncomingMsg(s)
      PROVE  DownInv'
  BY <1>2, DownFrame
  DEF ServerNext, ServerStart, ServerStop, OnConnectionRequest, OnConnectionAccept,
      ServerOnError, serverVars
<1>3. ASSUME NEW c \in Client, OnRecvMessage(c), UNCHANGED serverVars
      PROVE  DownInv'
  BY <1>3, RecvKeepsDown
<1>4. ASSUME NEW c \in Client, ClientNext(c), ~OnRecvMessage(c), UNCHANGED serverVars
      PROVE  DownInv'
  BY <1>4, DownFrame
  DEF ClientNext, StartApplication, RetryConnect, OnConnectSucceed, OnConnectFailed,
      OnShutdown, OnError, StopApplication, SendMessage, serverVars
<1>5. QED
  BY <1>1, <1>2, <1>3, <1>4 DEF Next, ServerRuns, ClientRuns
-----------------------------------------------------------------------------
(* Nobody is sent its own messages.                                        *)
LEMMA RequestKeepsEcho ==
  ASSUME TypeOK, SessionInv, EchoInv, NEW c \in Client, OnConnectionRequest(c)
  PROVE  EchoInv'
<1>1. /\ epoch \in [Client -> Nat]
      /\ epoch' = [epoch EXCEPT ![c] = @ + 1]
      /\ UNCHANGED << down, heard >>
      /\ \A s \in Session : s[1] \in Client
  BY MaxFaultsAssumption DEF TypeOK, TcpTypeOK, OnConnectionRequest, Session
<1>2. ASSUME NEW t \in Session, t = << t[1], epoch'[t[1]] >>, NEW i \in DOMAIN down[t]
      PROVE  down[t][i].src # t[1]
  <2>1. CASE t[1] = c
    <3>1. t[2] > epoch[t[1]]
      <4>1. t[2] = epoch'[t[1]]
        BY <1>2
      <4>2. QED
        BY <1>1, <2>1, <4>1
    <3>2. down[t] = << >>
      BY <3>1 DEF SessionInv
    <3>3. QED
      BY <1>2, <3>2
  <2>2. CASE t[1] # c
    BY <1>1, <1>2, <2>2 DEF EchoInv, Current
  <2>3. QED
    BY <2>1, <2>2
<1>3. QED
  BY <1>1, <1>2 DEF EchoInv, NoEcho, Current

LEMMA RebroadcastKeepsEcho ==
  ASSUME TypeOK, SessionInv, SentInv, RelayInv, EchoInv,
         NEW s \in Session, RebroadcastIncomingMsg(s)
  PROVE  EchoInv'
<1>1. PICK n, batch : Relays(s, n, batch)
  BY RebroadcastRelays
<1>2. \A k \in DOMAIN batch : batch[k].src = s[1]
  BY <1>1, BatchIsNewer
<1>3. ASSUME NEW t \in Session, NEW i \in 1 .. heard'[t]
      PROVE  down'[t][i].src # t[1]
  <2>1. /\ DOMAIN down[t] = 1 .. Len(down[t]) /\ Len(down[t]) \in Nat
        /\ \A k \in DOMAIN down[t] : down'[t][k] = down[t][k]
    BY <1>1, DownElements
  <2>2. i \in 1 .. heard[t] /\ heard[t] <= Len(down[t]) /\ heard[t] \in Nat
    BY <1>1 DEF Relays, SessionInv, TypeOK, TcpTypeOK
  <2>3. down'[t][i] = down[t][i]
    BY <2>1, <2>2
  <2>4. QED
    BY <2>2, <2>3 DEF EchoInv, NoEcho
<1>4. ASSUME NEW t \in Session, t = Current(t[1]), NEW i \in DOMAIN down'[t]
      PROVE  down'[t][i].src # t[1]
  <2>1. \/ i \in DOMAIN down[t] /\ down'[t][i] = down[t][i]
        \/ /\ t # s /\ i - Len(down[t]) \in DOMAIN batch
           /\ down'[t][i] = batch[i - Len(down[t])]
    BY <1>1, DownElements
  <2>2. s = Current(s[1])
    BY <1>1 DEF Relays
  <2>3. QED
    BY <1>2, <1>4, <2>1, <2>2 DEF EchoInv
<1>5. epoch' = epoch
  BY <1>1 DEF Relays
<1>6. QED
  BY <1>3, <1>4, <1>5 DEF EchoInv, NoEcho, Current

LEMMA RecvKeepsEcho ==
  ASSUME TypeOK, SessionInv, EchoInv, NEW c \in Client, OnRecvMessage(c)
  PROVE  EchoInv'
<1>1. /\ \A t \in Session : t # Current(c) => heard'[t] = heard[t]
      /\ \A t \in Session : \A i \in 1 .. heard'[t] : i \in DOMAIN down[t]
      /\ UNCHANGED << epoch, down >>
  BY RecvEffect
<1>2. ASSUME NEW t \in Session, NEW i \in 1 .. heard'[t]
      PROVE  down[t][i].src # t[1]
  <2>1. CASE t = Current(c)
    <3>1. t = Current(t[1])
      BY <2>1 DEF Current
    <3>2. QED
      BY <1>1, <3>1 DEF EchoInv
  <2>2. CASE t # Current(c)
    BY <1>1, <2>2 DEF EchoInv, NoEcho
  <2>3. QED
    BY <2>1, <2>2
<1>3. QED
  BY <1>1, <1>2 DEF EchoInv, NoEcho, Current

LEMMA EchoStep ==
  ASSUME TypeOK, SessionInv, SentInv, RelayInv, EchoInv, Next
  PROVE  EchoInv'
<1>1. ASSUME NEW c \in Client, OnConnectionRequest(c)
      PROVE  EchoInv'
  BY <1>1, RequestKeepsEcho
<1>2. ASSUME NEW s \in Session, RebroadcastIncomingMsg(s)
      PROVE  EchoInv'
  BY <1>2, RebroadcastKeepsEcho
<1>3. ASSUME ServerNext, \A s \in Session : ~RebroadcastIncomingMsg(s),
             \A c \in Client : ~OnConnectionRequest(c)
      PROVE  EchoInv'
  BY <1>3, EchoFrame
  DEF ServerNext, ServerStart, ServerStop, OnConnectionAccept, ServerOnError
<1>4. ASSUME NEW c \in Client, OnRecvMessage(c)
      PROVE  EchoInv'
  BY <1>4, RecvKeepsEcho
<1>5. ASSUME NEW c \in Client, ClientNext(c), ~OnRecvMessage(c)
      PROVE  EchoInv'
  BY <1>5, EchoFrame
  DEF ClientNext, StartApplication, RetryConnect, OnConnectSucceed, OnConnectFailed,
      OnShutdown, OnError, StopApplication, SendMessage
<1>6. QED
  BY <1>1, <1>2, <1>3, <1>4, <1>5 DEF Next, ServerRuns, ClientRuns
-----------------------------------------------------------------------------
LEMMA NextCore == CoreInv /\ [Next]_vars => CoreInv'
<1> SUFFICES ASSUME CoreInv, [Next]_vars PROVE CoreInv'
  OBVIOUS
<1>1. /\ TypeOK /\ ConnInv /\ SessionInv /\ SentInv
      /\ RelayInv /\ DownInv /\ EchoInv
  BY DEF CoreInv
<1>2. TypeOK'
  BY <1>1, NextTypeOK
<1>3. CASE Next
  <2>1. ConnInv' /\ SessionInv' /\ SentInv'
    BY <1>1, <1>3, ConnStep, SessionStep, SentStep
  <2>2. RelayInv' /\ DownInv' /\ EchoInv'
    BY <1>1, <1>3, RelayStep, DownStep, EchoStep
  <2>3. QED
    BY <1>2, <2>1, <2>2 DEF CoreInv
<1>4. CASE UNCHANGED vars
  <2>1. UNCHANGED << conn, epoch, sess, up, taken, down, heard >>
        /\ UNCHANGED << sock, retry, pos, pending, curMsgId, stopped, aborted >>
        /\ UNCHANGED history
    BY <1>4 DEF vars, tcpVars, serverVars, clientVars
  <2>2. QED
    BY <1>1, <1>2, <2>1, ConnFrame, SessionFrame, SentFrame, RelayFrame,
       DownFrame, EchoFrame DEF CoreInv
<1>5. QED
  BY <1>3, <1>4

(* The parts of the invariant hold together in every reachable state, for  *)
(* any set of clients, any input and any number of faults.                 *)
THEOREM CoreHolds == Spec => []CoreInv
<1>1. Init => CoreInv
  BY InitCore
<1>2. CoreInv /\ [Next]_vars => CoreInv'
  BY NextCore
<1>3. QED
  BY <1>1, <1>2, PTL DEF Spec

LEMMA OrderFollows == CoreInv => HeardInOrder
<1> SUFFICES ASSUME CoreInv,
                    NEW c \in Client, NEW k \in Reached(c), NEW l \in Reached(c),
                    NEW i \in 1 .. heard[<< c, k >>], NEW j \in 1 .. heard[<< c, l >>],
                    Later(k, i, l, j),
                    down[<< c, k >>][i].src = down[<< c, l >>][j].src
             PROVE  down[<< c, k >>][i].seq < down[<< c, l >>][j].seq
  BY DEF HeardInOrder
<1>1. << c, k >> \in Session /\ << c, l >> \in Session
  BY MaxFaultsAssumption DEF CoreInv, TypeOK, TcpTypeOK, Session, Reached
<1>2. \A t \in Session : 1 .. heard[t] \subseteq DOMAIN down[t]
  <2>1. ASSUME NEW t \in Session
        PROVE  1 .. heard[t] \subseteq DOMAIN down[t]
    <3>1. down[t] \in Seq(Message) /\ heard[t] \in Nat /\ heard[t] <= Len(down[t])
      BY DEF CoreInv, TypeOK, TcpTypeOK, SessionInv
    <3>2. DOMAIN down[t] = 1 .. Len(down[t]) /\ Len(down[t]) \in Nat
      BY <3>1, MessageElements
    <3>3. QED
      BY <3>1, <3>2
  <2>2. QED
    BY <2>1
<1>3. CASE k < l
  BY <1>1, <1>2, <1>3 DEF CoreInv, DownInv
<1>4. CASE k = l /\ i < j
  BY <1>1, <1>2, <1>4 DEF CoreInv, DownInv
<1>5. QED
  BY <1>3, <1>4 DEF Later

(* Whatever a client hears of one sender comes in sequence-number order    *)
(* and only once, over all connections of the two and whatever breaks      *)
(* (SendMessage, RebroadcastIncomingMsg, OnRecvMessage).                   *)
THEOREM RoomIsOrdered == Spec => []HeardInOrder
  BY CoreHolds, OrderFollows, PTL

LEMMA LinesFollow == CoreInv => LinesNeverRepeated
<1> SUFFICES ASSUME CoreInv,
                    NEW c \in Client, NEW k \in Reached(c), NEW l \in Reached(c),
                    NEW i \in DOMAIN up[<< c, k >>], NEW j \in DOMAIN up[<< c, l >>]
             PROVE  up[<< c, k >>][i].seq < up[<< c, l >>][j].seq <=>
                      up[<< c, k >>][i].line < up[<< c, l >>][j].line
  BY DEF LinesNeverRepeated
<1> DEFINE m == up[<< c, k >>][i]
           n == up[<< c, l >>][j]
<1>1. << c, k >> \in Session /\ << c, l >> \in Session /\ k \in Nat /\ l \in Nat
  BY MaxFaultsAssumption DEF CoreInv, TypeOK, TcpTypeOK, Session, Reached
<1>2. up[<< c, k >>] \in Seq(Message) /\ up[<< c, l >>] \in Seq(Message)
  BY <1>1 DEF CoreInv, TypeOK, TcpTypeOK
<1>3. /\ m.seq \in Nat /\ m.line \in Nat /\ n.seq \in Nat /\ n.line \in Nat
      /\ i \in Nat /\ j \in Nat
  BY <1>2, MessageElements
<1>4. /\ Later(k, i, l, j) => Precedes(m, n)
      /\ Later(l, j, k, i) => Precedes(n, m)
  BY <1>1 DEF CoreInv, SentInv
<1> HIDE DEF m, n
<1>5. m.seq < n.seq <=> m.line < n.line
  <2>1. CASE k = l /\ i = j
    BY <1>3, <2>1 DEF m, n
  <2>2. CASE Later(k, i, l, j)
    BY <1>3, <1>4, <2>2 DEF Precedes
  <2>3. CASE Later(l, j, k, i)
    BY <1>3, <1>4, <2>3 DEF Precedes
  <2>4. QED
    BY <1>1, <1>3, <2>1, <2>2, <2>3 DEF Later
<1>6. QED
  BY <1>5 DEF m, n

(* A reconnecting client neither repeats nor swaps the lines of its input  *)
(* (ScheduleNextMessage called by OnConnectSucceed and by SendMessage).    *)
THEOREM LinesInOrder == Spec => []LinesNeverRepeated
  BY CoreHolds, LinesFollow, PTL

(* Nobody hears its own message, also not over an old socket of its own    *)
(* that the server has not noticed is dead (the continue in the loop of    *)
(* RebroadcastIncomingMsg).                                                *)
THEOREM NobodyHearsItself == Spec => []NoEcho
<1>1. CoreInv => NoEcho
  BY DEF CoreInv, EchoInv
<1>2. QED
  BY <1>1, CoreHolds, PTL

(* m_socket and m_retryEvent agree with the state of the connection, so    *)
(* neither a retry nor a message ever meets the wrong one (OnError,        *)
(* OnShutdown, OnConnectFailed, StopApplication).                          *)
THEOREM SocketAgrees == Spec => []ConnectionStateAgrees
<1>1. CoreInv => ConnectionStateAgrees
  BY DEF CoreInv, ConnInv
<1>2. QED
  BY <1>1, CoreHolds, PTL

(* The null m_socket is only ever dereferenced after a StopApplication     *)
(* (OnError, StopApplication).                                             *)
THEOREM FaultsNeverAbort == Spec => []AbortOnlyAfterStop
<1>1. CoreInv => AbortOnlyAfterStop
  BY DEF CoreInv, ConnInv
<1>2. QED
  BY <1>1, CoreHolds, PTL

LEMMA StoppedStep ==
  ASSUME CoreInv, Next, NEW c \in Client, stopped[c]
  PROVE  /\ conn'[c] \in {conn[c], "down"}
         /\ \A k \in 1 .. MaxFaults + 1 : up'[<< c, k >>] = up[<< c, k >>]
<1>1. ~aborted
  BY DEF Next, ServerRuns, ClientRuns
<1>2. conn[c] \in {"closing", "down"} /\ sock[c] = 0 /\ ~retry[c]
  BY <1>1 DEF CoreInv, ConnInv, ConnectionStateAgrees
<1>3. /\ conn \in [Client -> ConnState] /\ up \in [Session -> Seq(Message)]
      /\ \A k \in 1 .. MaxFaults + 1 : << c, k >> \in Session
  BY DEF CoreInv, TypeOK, TcpTypeOK, Session
<1>4. CASE ServerNext
  <2>1. UNCHANGED up
    BY <1>4 DEF ServerNext, ServerStart, ServerStop, OnConnectionRequest,
                OnConnectionAccept, RebroadcastIncomingMsg, ServerOnError
  <2>2. conn'[c] = conn[c]
    BY <1>2, <1>3, <1>4
    DEF ServerNext, ServerStart, ServerStop, OnConnectionRequest,
        OnConnectionAccept, RebroadcastIncomingMsg, ServerOnError
  <2>3. QED
    BY <2>1, <2>2
<1>5. ASSUME NEW d \in Client, ClientNext(d)
      PROVE  /\ conn'[c] \in {conn[c], "down"}
             /\ \A k \in 1 .. MaxFaults + 1 : up'[<< c, k >>] = up[<< c, k >>]
  <2>1. \A k \in 1 .. MaxFaults + 1 : up'[<< c, k >>] = up[<< c, k >>]
    <3>1. CASE SendMessage(d) /\ d # c
      BY <1>3, <3>1 DEF SendMessage
    <3>2. CASE SendMessage(d) /\ d = c
      BY <1>2, <3>2 DEF SendMessage
    <3>3. CASE ~SendMessage(d)
      BY <1>5, <3>3
      DEF ClientNext, StartApplication, RetryConnect, OnConnectSucceed,
          OnConnectFailed, OnShutdown, OnError, StopApplication, OnRecvMessage
    <3>4. QED
      BY <3>1, <3>2, <3>3
  <2>2. conn'[c] \in {conn[c], "down"}
    <3>1. CASE d # c
      BY <1>3, <1>5, <3>1
      DEF ClientNext, StartApplication, RetryConnect, OnConnectSucceed, TryConnect,
          OnConnectFailed, OnShutdown, OnError, ResetAndRetry, StopApplication,
          SendMessage, OnRecvMessage
    <3>2. CASE d = c
      BY <1>2, <1>3, <1>5, <3>2
      DEF ClientNext, StartApplication, RetryConnect, OnConnectSucceed, TryConnect,
          OnConnectFailed, OnShutdown, OnError, ResetAndRetry, StopApplication,
          SendMessage, OnRecvMessage
    <3>3. QED
      BY <3>1, <3>2
  <2>3. QED
    BY <2>1, <2>2
<1>6. QED
  BY <1>4, <1>5 DEF Next, ServerRuns, ClientRuns

(* A stopped client neither sends nor connects again, although the         *)
(* SendMessage it has scheduled still runs (MucClient::StopApplication).   *)
THEOREM StoppedIsSilent == Spec => StoppedStaysSilent
<1>1. CoreInv /\ [Next]_vars =>
        [ \A c \in Client : stopped[c] =>
            /\ conn'[c] \in {conn[c], "down"}
            /\ \A k \in 1 .. MaxFaults + 1 : up'[<< c, k >>] = up[<< c, k >>] ]_vars
  BY StoppedStep
<1>2. QED
  BY <1>1, CoreHolds, PTL DEF Spec, StoppedStaysSilent

-----------------------------------------------------------------------------
(* What a scan for the next own line does to the number of own lines that  *)
(* have been read.                                                         *)
LEMMA OwnLinesArePlaces == \A c, p : OwnLinesUpTo(c, p) = PlacesUpTo(Input, c, p)
  BY DEF OwnLinesUpTo, PlacesUpTo, Line

LEMMA OwnLinesFinite ==
  ASSUME NEW c \in Client, NEW p \in Nat
  PROVE  Cardinality(OwnLinesUpTo(c, p)) \in Nat
  BY OwnLinesArePlaces, InputAssumption, PlacesFinite

LEMMA NothingReadYet ==
  ASSUME NEW c \in Client
  PROVE  Cardinality(OwnLinesUpTo(c, 0)) = 0
  BY OwnLinesArePlaces, InputAssumption, NoPlaceYet

LEMMA ScanFindsOne ==
  ASSUME NEW c \in Client, NEW p \in Nat, NEW i \in Line, IsNextOwnLine(c, p, i)
  PROVE  Cardinality(OwnLinesUpTo(c, i)) = Cardinality(OwnLinesUpTo(c, p)) + 1
<1>1. /\ i \in 1 .. Len(Input) /\ i > p /\ Input[i] = c
      /\ \A j \in 1 .. Len(Input) : j > p /\ Input[j] = c => i <= j
  BY DEF IsNextOwnLine, OwnLinesAfter, Line
<1>2. QED
  BY <1>1, OwnLinesArePlaces, InputAssumption, NextPlace

LEMMA ScanFindsNone ==
  ASSUME NEW c \in Client, NEW p \in Nat, OwnLinesAfter(c, p) = {}
  PROVE  Cardinality(OwnLinesUpTo(c, Len(Input))) = Cardinality(OwnLinesUpTo(c, p))
<1>1. \A j \in 1 .. Len(Input) : Input[j] = c => j <= p
  BY InputAssumption DEF OwnLinesAfter, Line
<1>2. QED
  BY <1>1, OwnLinesArePlaces, InputAssumption, NoFurtherPlace

(* Nothing happens to a connection before the client has seen it succeed.  *)
LEMMA HandshakeStep ==
  ASSUME TypeOK, ConnInv, HandshakeInv, Next
  PROVE  HandshakeInv'
<1>0. /\ conn \in [Client -> ConnState] /\ epoch \in [Client -> Nat]
      /\ sess \in [Session -> SessState]
      /\ \A c \in Client : epoch[c] <= MaxFaults => << c, epoch[c] + 1 >> \in Session
      /\ MaxFaults \in Nat
  BY MaxFaultsAssumption DEF TypeOK, TcpTypeOK, Session
<1>s. \A c \in Client : conn[c] = "handshake" => Current(c) \in Session
  BY ConnectedHasSession
<1>1. ASSUME NEW c \in Client, OnConnectionRequest(c)
      PROVE  HandshakeInv'
  BY <1>0, <1>1 DEF OnConnectionRequest, HandshakeInv, Current
<1>2. ASSUME ServerNext, \A c \in Client : ~OnConnectionRequest(c)
      PROVE  HandshakeInv'
  <2>1. /\ UNCHANGED << conn, epoch >>
        /\ \A s \in Session : sess[s] = "syn" => sess'[s] = "syn"
    BY <1>0, <1>2
    DEF ServerNext, ServerStart, ServerStop, OnConnectionAccept, RebroadcastIncomingMsg,
        ServerOnError
  <2>2. QED
    BY <1>s, <2>1 DEF HandshakeInv, Current
<1>3. ASSUME NEW c \in Client, OnConnectSucceed(c)
      PROVE  HandshakeInv'
  BY <1>0, <1>s, <1>3 DEF OnConnectSucceed, HandshakeInv, Current
<1>4. ASSUME NEW c \in Client, ClientNext(c), ~OnConnectSucceed(c)
      PROVE  HandshakeInv'
  <2>1. /\ UNCHANGED << sess, epoch >>
        /\ \A d \in Client : conn'[d] = "handshake" => conn[d] = "handshake"
    BY <1>0, <1>4
    DEF ClientNext, StartApplication, RetryConnect, TryConnect, OnConnectFailed,
        ResetAndRetry, OnShutdown, OnError, StopApplication, SendMessage, OnRecvMessage
  <2>2. QED
    BY <2>1 DEF HandshakeInv, Current
<1>5. QED
  BY <1>1, <1>2, <1>3, <1>4 DEF Next, ServerRuns, ClientRuns
-----------------------------------------------------------------------------
(* A scan adds at most one message to the chain.                           *)
LEMMA ScheduleAddsOne ==
  ASSUME TypeOK, NEW c \in Client, NEW queue \in Seq(Line), ScheduleNextMessage(c, queue)
  PROVE  /\ \A d \in Client : d # c => pending'[d] = pending[d]
         /\ Len(pending'[c]) <= Len(queue) + 1
<1>1. pending \in [Client -> Seq(Line)] /\ Len(queue) \in Nat
  BY LineElements DEF TypeOK, ClientTypeOK
<1>2. CASE pending' = [pending EXCEPT ![c] = queue]
  BY <1>1, <1>2
<1>3. CASE \E i \in Line : pending' = [pending EXCEPT ![c] = Append(queue, i)]
  <2>1. PICK i \in Line : pending' = [pending EXCEPT ![c] = Append(queue, i)]
    BY <1>3
  <2>2. Len(Append(queue, i)) = Len(queue) + 1
    BY AppendElements
  <2>3. QED
    BY <1>1, <2>1, <2>2
<1>4. QED
  BY <1>2, <1>3 DEF ScheduleNextMessage

LEMMA ChainStep ==
  ASSUME TypeOK, ConnInv, ChainInv, Next
  PROVE  ChainInv'
<1>0. /\ epoch \in [Client -> Nat] /\ pending \in [Client -> Seq(Line)]
      /\ conn \in [Client -> ConnState]
      /\ \A c \in Client : Len(pending[c]) \in Nat
  <2>1. /\ epoch \in [Client -> Nat] /\ pending \in [Client -> Seq(Line)]
        /\ conn \in [Client -> ConnState]
    BY MaxFaultsAssumption DEF TypeOK, TcpTypeOK, ClientTypeOK
  <2>2. QED
    BY <2>1, LineElements
<1>1. ASSUME NEW c \in Client, OnConnectionRequest(c), UNCHANGED clientVars
      PROVE  ChainInv'
  BY <1>0, <1>1 DEF OnConnectionRequest, ChainInv, clientVars
<1>2. ASSUME ServerNext, UNCHANGED clientVars, \A c \in Client : ~OnConnectionRequest(c)
      PROVE  ChainInv'
  BY <1>2
  DEF ServerNext, ServerStart, ServerStop, OnConnectionAccept, RebroadcastIncomingMsg,
      ServerOnError, ChainInv, clientVars
<1>3. ASSUME NEW c \in Client, OnConnectSucceed(c)
      PROVE  ChainInv'
  <2>1. /\ \A d \in Client : d # c => pending'[d] = pending[d]
        /\ Len(pending'[c]) <= Len(pending[c]) + 1
    BY <1>0, <1>3, ScheduleAddsOne DEF OnConnectSucceed
  <2>2. pending'[c] \in Seq(Line)
    BY <1>0, <1>3, ScheduleType DEF OnConnectSucceed
  <2>3. Len(pending'[c]) \in Nat
    BY <2>2, LineElements
  <2>4. QED
    BY <1>0, <1>3, <2>1, <2>3 DEF OnConnectSucceed, ChainInv
<1>4. ASSUME NEW c \in Client, SendMessage(c)
      PROVE  ChainInv'
  <2>1. pending[c] \in Seq(Line) /\ pending[c] # << >>
    BY <1>0, <1>4 DEF SendMessage
  <2>2. Tail(pending[c]) \in Seq(Line) /\ Len(Tail(pending[c])) = Len(pending[c]) - 1
    BY <2>1
  <2>3. /\ \A d \in Client : d # c => pending'[d] = pending[d]
        /\ Len(pending'[c]) <= Len(pending[c])
        /\ Len(pending'[c]) \in Nat
    <3>1. CASE pending' = [pending EXCEPT ![c] = Tail(@)]
      BY <1>0, <2>2, <3>1
    <3>2. CASE ScheduleNextMessage(c, Tail(pending[c]))
      <4>1. pending'[c] \in Seq(Line)
        BY <2>2, <3>2, ScheduleType
      <4>2. /\ \A d \in Client : d # c => pending'[d] = pending[d]
            /\ Len(pending'[c]) <= Len(Tail(pending[c])) + 1
        BY <2>2, <3>2, ScheduleAddsOne
      <4>3. QED
        BY <1>0, <2>2, <4>1, <4>2, LineElements
    <3>3. QED
      BY <1>4, <3>1, <3>2 DEF SendMessage
  <2>4. UNCHANGED << conn, epoch >>
    BY <1>4 DEF SendMessage
  <2>5. QED
    BY <1>0, <2>3, <2>4 DEF ChainInv
<1>5. ASSUME NEW c \in Client, ClientNext(c), ~OnConnectSucceed(c), ~SendMessage(c)
      PROVE  ChainInv'
  <2>1. UNCHANGED << pending, epoch >>
    BY <1>5 DEF ClientNext, StartApplication, RetryConnect, OnConnectFailed, OnShutdown,
                OnError, StopApplication, OnRecvMessage, clientVars
  <2>2. \A d \in Client : conn'[d] = "handshake" => conn[d] = "handshake"
    BY <1>0, <1>5
    DEF ClientNext, StartApplication, RetryConnect, TryConnect, OnConnectFailed,
        ResetAndRetry, OnShutdown, OnError, StopApplication, OnRecvMessage
  <2>3. QED
    BY <1>0, <2>1, <2>2 DEF ChainInv
<1>6. QED
  BY <1>1, <1>2, <1>3, <1>4, <1>5 DEF Next, ServerRuns, ClientRuns
-----------------------------------------------------------------------------
(* Calm ends, but it does not return.                                      *)
LEMMA CalmBefore ==
  ASSUME TypeOK, Next, Calm'
  PROVE  Calm /\ UNCHANGED << faults, stopped, srvStopped >>
<1>0. faults \in Nat /\ stopped \in [Client -> BOOLEAN]
  BY MaxFaultsAssumption DEF TypeOK, TcpTypeOK, ClientTypeOK
<1>1. CASE ServerRuns(ServerNext)
  <2>1. UNCHANGED stopped
    BY <1>1 DEF ServerRuns, clientVars
  <2>2. ~ServerStop
    BY DEF ServerStop, Calm
  <2>3. UNCHANGED srvStopped
    BY <1>1, <2>2
    DEF ServerRuns, ServerNext, ServerStart, OnConnectionRequest, OnConnectionAccept,
        RebroadcastIncomingMsg, ServerOnError, serverVars
  <2>4. UNCHANGED faults \/ faults' = faults + 1
    BY <1>1
    DEF ServerRuns, ServerNext, ServerStart, ServerStop, OnConnectionRequest,
        OnConnectionAccept, RebroadcastIncomingMsg, ServerOnError, Fault, NoFault
  <2>5. QED
    BY <1>0, <2>1, <2>3, <2>4 DEF Calm
<1>2. ASSUME NEW c \in Client, ClientRuns(ClientNext(c))
      PROVE  Calm /\ UNCHANGED << faults, stopped, srvStopped >>
  <2>1. ~StopApplication(c)
    BY <1>0, <1>2 DEF StopApplication, Calm
  <2>2. UNCHANGED << faults, stopped, srvStopped >>
    BY <1>0, <1>2, <2>1
    DEF Calm, ClientRuns, ClientNext, StartApplication, RetryConnect, OnConnectSucceed,
        OnConnectFailed, OnShutdown, OnError, SendMessage, OnRecvMessage, Fault, NoFault,
        serverVars, clientVars
  <2>3. QED
    BY <2>2 DEF Calm
<1>3. QED
  BY <1>1, <1>2 DEF Next

(* While all is calm no connection ends.                                   *)
LEMMA CalmClient ==
  ASSUME TypeOK, ConnInv, CalmInv, Next, Calm', NEW c \in Client
  PROVE  ~OnShutdown(c) /\ ~OnError(c) /\ ~StopApplication(c)
<1>1. /\ Calm /\ UNCHANGED << faults, stopped, srvStopped >> /\ faults = 0
      /\ \A d \in Client : ~stopped[d]
  BY CalmBefore DEF Calm
<1>2. \A d \in Client : Attached(d) => Untroubled(Current(d))
  BY <1>1, ConnectedHasSession DEF CalmInv, Attached
<1>3. ~OnShutdown(c)
  <2>1. conn[c] # "closing"
    BY <1>1 DEF ConnInv
  <2>2. QED
    BY <1>1, <1>2, <2>1 DEF OnShutdown, Fault, Untroubled
<1>4. ~OnError(c)
  BY <1>1, <1>2 DEF OnError, Fault, Untroubled
<1>5. ~StopApplication(c)
  BY <1>1 DEF StopApplication, TypeOK, ClientTypeOK
<1>6. QED
  BY <1>3, <1>4, <1>5

LEMMA CalmStaysUp ==
  ASSUME TypeOK, ConnInv, CalmInv, Next, Calm', NEW d \in Client, conn[d] = "up"
  PROVE  conn'[d] = "up"
<1>0. conn \in [Client -> ConnState] /\ \A c \in Client : ~stopped[c]
  BY CalmBefore DEF TypeOK, TcpTypeOK, Calm
<1>1. ConnectionStateAgrees /\ ~aborted
  BY <1>0 DEF ConnInv, AbortOnlyAfterStop
<1>2. CASE ServerNext
  BY <1>0, <1>2
  DEF ServerNext, ServerStart, ServerStop, OnConnectionRequest, OnConnectionAccept,
      RebroadcastIncomingMsg, ServerOnError
<1>3. ASSUME NEW c \in Client, ClientNext(c)
      PROVE  conn'[d] = "up"
  BY <1>0, <1>1, <1>3, CalmClient
  DEF ClientNext, StartApplication, RetryConnect, TryConnect, OnConnectSucceed,
      OnConnectFailed, ResetAndRetry, SendMessage, OnRecvMessage, ConnectionStateAgrees
<1>4. QED
  BY <1>2, <1>3 DEF Next, ServerRuns, ClientRuns

LEMMA CalmSessions ==
  ASSUME TypeOK, ConnInv, HandshakeInv, CalmInv, Next, Calm', NEW s \in Session
  PROVE  Untroubled(s)'
<1>0. /\ conn \in [Client -> ConnState] /\ epoch \in [Client -> Nat]
      /\ sess \in [Session -> SessState] /\ s[1] \in Client
      /\ \A c \in Client : ~stopped[c]
  BY CalmBefore, MaxFaultsAssumption DEF TypeOK, TcpTypeOK, Calm, Session
<1>1. Calm /\ UNCHANGED << faults, stopped, srvStopped >> /\ faults = 0
  BY CalmBefore DEF Calm
<1>2. Untroubled(s) /\ \A c \in Client : Untroubled(Current(c)) \/ Current(c) \notin Session
  BY <1>1 DEF CalmInv
<1>3. ASSUME NEW c \in Client, OnConnectionRequest(c)
      PROVE  Untroubled(s)'
  BY <1>0, <1>2, <1>3 DEF OnConnectionRequest, Untroubled, Current
<1>4. ASSUME ServerNext, \A c \in Client : ~OnConnectionRequest(c)
      PROVE  Untroubled(s)'
  <2>1. UNCHANGED << conn, epoch >>
    BY <1>4 DEF ServerNext, ServerStart, ServerStop, OnConnectionAccept,
                RebroadcastIncomingMsg, ServerOnError
  <2>2. ~ServerStop
    BY <1>1 DEF ServerStop, Calm
  <2>3. ASSUME NEW t \in Session, ServerOnError(t)
        PROVE  FALSE
    BY <1>0, <1>1, <2>3 DEF ServerOnError, CalmInv, Untroubled, Fault, Attached
  <2>4. sess'[s] = sess[s] \/ (sess[s] = "acked" /\ sess'[s] = "open")
    BY <1>0, <1>4, <2>2, <2>3 DEF ServerNext, ServerStart, OnConnectionAccept,
                RebroadcastIncomingMsg
  <2>5. QED
    BY <1>2, <2>1, <2>4 DEF Untroubled, Current
<1>5. ASSUME NEW c \in Client, OnConnectSucceed(c)
      PROVE  Untroubled(s)'
  BY <1>0, <1>2, <1>5 DEF OnConnectSucceed, Untroubled, Current
<1>6. ASSUME NEW c \in Client, ClientNext(c), ~OnConnectSucceed(c)
      PROVE  Untroubled(s)'
  <2>1. ~OnShutdown(c) /\ ~OnError(c) /\ ~StopApplication(c)
    BY CalmClient
  <2>2. UNCHANGED << sess, epoch >>
    BY <1>6, <2>1
    DEF ClientNext, StartApplication, RetryConnect, OnConnectFailed, SendMessage, OnRecvMessage
  <2>3. conn[s[1]] = "up" => conn'[s[1]] = "up"
    BY <1>0, CalmStaysUp
  <2>4. QED
    BY <1>2, <2>2, <2>3 DEF Untroubled, Current
<1>7. QED
  BY <1>3, <1>4, <1>5, <1>6 DEF Next, ServerRuns, ClientRuns

LEMMA CalmPending ==
  ASSUME TypeOK, ConnInv, CalmInv, Next, Calm', NEW c \in Client, pending'[c] # << >>
  PROVE  conn'[c] = "up"
<1>0. /\ conn \in [Client -> ConnState] /\ pending \in [Client -> Seq(Line)]
      /\ \A d \in Client : pending[d] # << >> => conn[d] = "up"
  BY CalmBefore DEF TypeOK, TcpTypeOK, ClientTypeOK, CalmInv
<1>1. CASE pending[c] # << >>
  BY <1>0, <1>1, CalmStaysUp
<1>2. CASE pending[c] = << >>
  <2>1. ~UNCHANGED pending
    BY <1>2
  <2>2. PICK d \in Client : OnConnectSucceed(d) \/ SendMessage(d)
    BY <2>1
    DEF Next, ServerRuns, ClientRuns, ClientNext, StartApplication, RetryConnect,
        OnConnectFailed, OnShutdown, OnError, StopApplication, OnRecvMessage, clientVars
  <2>3. \A q \in Seq(Line) : ScheduleNextMessage(d, q) => \A e \in Client : e # d => pending'[e] = pending[e]
    BY ScheduleAddsOne
  <2>4. CASE OnConnectSucceed(d)
    BY <1>0, <1>2, <2>3, <2>4 DEF OnConnectSucceed
  <2>5. CASE SendMessage(d)
    <3>1. Tail(pending[d]) \in Seq(Line) /\ pending[d] # << >>
      BY <1>0, <2>5, TailElements DEF SendMessage
    <3>2. d # c
      BY <1>2, <3>1
    <3>3. QED
      BY <1>0, <1>2, <2>3, <2>5, <3>1, <3>2 DEF SendMessage
  <2>6. QED
    BY <2>2, <2>4, <2>5
<1>3. QED
  BY <1>1, <1>2

(* A scan reads one own line more exactly when it schedules a message.     *)
LEMMA ScheduleCounts ==
  ASSUME TypeOK, NEW c \in Client, NEW queue \in Seq(Line), ScheduleNextMessage(c, queue)
  PROVE  /\ \A d \in Client : d # c => pending'[d] = pending[d] /\ pos'[d] = pos[d]
         /\ Cardinality(OwnLinesUpTo(c, pos'[c])) - Cardinality(OwnLinesUpTo(c, pos[c])) =
              Len(pending'[c]) - Len(queue)
<1>1. /\ pending \in [Client -> Seq(Line)] /\ pos \in [Client -> Nat] /\ Len(queue) \in Nat
      /\ Cardinality(OwnLinesUpTo(c, pos[c])) \in Nat
  BY LineElements, OwnLinesFinite DEF TypeOK, ClientTypeOK
<1>2. CASE /\ OwnLinesAfter(c, pos[c]) = {}
           /\ pos' = [pos EXCEPT ![c] = Len(Input)]
           /\ pending' = [pending EXCEPT ![c] = queue]
  <2>1. Cardinality(OwnLinesUpTo(c, Len(Input))) = Cardinality(OwnLinesUpTo(c, pos[c]))
    BY <1>1, <1>2, ScanFindsNone
  <2>2. QED
    BY <1>1, <1>2, <2>1
<1>3. ASSUME NEW i \in Line, IsNextOwnLine(c, pos[c], i),
             pos' = [pos EXCEPT ![c] = i],
             pending' = [pending EXCEPT ![c] = Append(queue, i)]
      PROVE  /\ \A d \in Client : d # c => pending'[d] = pending[d] /\ pos'[d] = pos[d]
             /\ Cardinality(OwnLinesUpTo(c, pos'[c])) - Cardinality(OwnLinesUpTo(c, pos[c])) =
                  Len(pending'[c]) - Len(queue)
  <2>1. Cardinality(OwnLinesUpTo(c, i)) = Cardinality(OwnLinesUpTo(c, pos[c])) + 1
    BY <1>1, <1>3, ScanFindsOne
  <2>2. Len(Append(queue, i)) = Len(queue) + 1
    BY AppendElements
  <2>3. pos'[c] = i /\ pending'[c] = Append(queue, i)
    BY <1>1, <1>3
  <2>4. QED
    BY <1>1, <1>3, <2>1, <2>2, <2>3
<1>4. QED
  BY <1>2, <1>3 DEF ScheduleNextMessage

(* What is read is what was sent and what is scheduled, before and after.  *)
LEMMA Balance ==
  ASSUME NEW sent \in Nat, NEW queued \in Nat, NEW own \in Nat, sent + queued = own,
         NEW more \in Nat, NEW queuedNow \in Nat, NEW ownNow \in Nat,
         ownNow - own = queuedNow - (queued - more)
  PROVE  (sent + more) + queuedNow = ownNow
  OBVIOUS

(* Nobody loses a line: a message is only sent over a living connection.   *)
LEMMA LineStep ==
  ASSUME TypeOK, ConnInv, CalmInv, Next
  PROVE  NoLineLost'
<1> SUFFICES ASSUME Calm', NEW c \in Client
             PROVE  curMsgId'[c] + Len(pending'[c]) = Cardinality(OwnLinesUpTo(c, pos'[c]))
  BY DEF NoLineLost
<1> DEFINE own == Cardinality(OwnLinesUpTo(c, pos[c]))
           read == Cardinality(OwnLinesUpTo(c, pos'[c]))
<1>0. /\ pending \in [Client -> Seq(Line)] /\ pos \in [Client -> Nat] /\ curMsgId \in [Client -> Nat]
      /\ Len(pending[c]) \in Nat /\ own \in Nat
  BY LineElements, OwnLinesFinite DEF TypeOK, ClientTypeOK
<1>1. /\ curMsgId[c] + Len(pending[c]) = own
      /\ \A d \in Client : pending[d] # << >> => conn[d] = "up"
      /\ \A d \in Client : ~stopped[d]
  BY CalmBefore DEF CalmInv, NoLineLost, Calm
<1>2. CASE UNCHANGED << pending, pos, curMsgId >>
  BY <1>1, <1>2
<1>3. ASSUME NEW d \in Client, OnConnectSucceed(d)
      PROVE  curMsgId'[c] + Len(pending'[c]) = Cardinality(OwnLinesUpTo(c, pos'[c]))
  <2>1. ScheduleNextMessage(d, pending[d]) /\ UNCHANGED curMsgId /\ pending[d] \in Seq(Line)
    BY <1>0, <1>3 DEF OnConnectSucceed
  <2>2. CASE d # c
    BY <1>1, <2>1, <2>2, ScheduleCounts
  <2>3. CASE d = c
    <3>1. /\ read - own = Len(pending'[c]) - Len(pending[c])
          /\ pending'[c] \in Seq(Line) /\ pos'[c] \in Nat
      BY <2>1, <2>3, ScheduleCounts, ScheduleType
    <3>2. Len(pending'[c]) \in Nat /\ read \in Nat
      BY <3>1, LineElements, OwnLinesFinite
    <3>3. curMsgId'[c] = curMsgId[c]
      BY <2>1
    <3> HIDE DEF own, read
    <3>4. /\ curMsgId[c] \in Nat /\ Len(pending[c]) \in Nat /\ own \in Nat
          /\ curMsgId[c] + Len(pending[c]) = own
      BY <1>0, <1>1
    <3>5. read - own = Len(pending'[c]) - (Len(pending[c]) - 0)
      <4>1. Len(pending[c]) - 0 = Len(pending[c])
        BY <3>4
      <4>2. read - own = Len(pending'[c]) - Len(pending[c])
        BY <3>1
      <4>3. QED
        BY <4>1, <4>2
    <3>6. (curMsgId[c] + 0) + Len(pending'[c]) = read
      BY <3>2, <3>4, <3>5, Balance
    <3>7. curMsgId[c] + 0 = curMsgId[c]
      BY <3>4
    <3>8. QED
      BY <3>3, <3>6, <3>7 DEF read
  <2>4. QED
    BY <2>2, <2>3
<1>4. ASSUME NEW d \in Client, SendMessage(d)
      PROVE  curMsgId'[c] + Len(pending'[c]) = Cardinality(OwnLinesUpTo(c, pos'[c]))
  <2>1. /\ Tail(pending[d]) \in Seq(Line)
        /\ Len(Tail(pending[d])) = Len(pending[d]) - 1
    BY <1>0, <1>4 DEF SendMessage
  <2>2. sock[d] # 0
    BY <1>1, <1>4 DEF SendMessage, ConnInv, ConnectionStateAgrees, AbortOnlyAfterStop
  <2>3. ScheduleNextMessage(d, Tail(pending[d])) /\ curMsgId' = [curMsgId EXCEPT ![d] = @ + 1]
    BY <1>4, <2>2 DEF SendMessage
  <2>4. CASE d # c
    BY <1>0, <1>1, <2>1, <2>3, <2>4, ScheduleCounts
  <2>5. CASE d = c
    <3>1. /\ read - own = Len(pending'[c]) - (Len(pending[c]) - 1)
          /\ pending'[c] \in Seq(Line) /\ pos'[c] \in Nat
      BY <2>1, <2>3, <2>5, ScheduleCounts, ScheduleType
    <3>2. Len(pending'[c]) \in Nat /\ read \in Nat
      BY <3>1, LineElements, OwnLinesFinite
    <3>3. curMsgId'[c] = curMsgId[c] + 1
      BY <1>0, <2>3, <2>5
    <3> HIDE DEF own, read
    <3>4. /\ curMsgId[c] \in Nat /\ Len(pending[c]) \in Nat /\ own \in Nat
          /\ curMsgId[c] + Len(pending[c]) = own
      BY <1>0, <1>1
    <3>5. read - own = Len(pending'[c]) - (Len(pending[c]) - 1)
      BY <3>1
    <3>6. (curMsgId[c] + 1) + Len(pending'[c]) = read
      BY SMTT(30), <3>2, <3>4, <3>5, Balance
    <3>7. QED
      BY <3>3, <3>6 DEF read
  <2>6. QED
    BY <2>4, <2>5
<1>5. QED
  BY <1>2, <1>3, <1>4
  DEF Next, ServerRuns, ClientRuns, ClientNext, StartApplication, RetryConnect,
      OnConnectFailed, OnShutdown, OnError, StopApplication, OnRecvMessage, clientVars

LEMMA CalmStep ==
  ASSUME TypeOK, ConnInv, HandshakeInv, CalmInv, Next
  PROVE  CalmInv'
  BY CalmSessions, CalmPending, LineStep DEF CalmInv
-----------------------------------------------------------------------------
(* What it takes to extend a reading of a log.  at tells where the read    *)
(* messages are.                                                           *)
Places(at, q, log, c, from, to) ==
  /\ at \in [DOMAIN q -> { h \in from + 1 .. to : log[h].src # c }]
  /\ \A i, j \in DOMAIN q : i < j => at[i] < at[j]
  /\ \A i \in DOMAIN q : q[i] = log[at[i]]
  /\ \A h \in from + 1 .. to : log[h].src # c => \E i \in DOMAIN q : at[i] = h

LEMMA ReadsPlaces ==
  ASSUME NEW q, NEW log, NEW c, NEW from, NEW to
  PROVE  Reads(q, log, c, from, to) <=> \E at : Places(at, q, log, c, from, to)
  BY DEF Reads, Places

LEMMA ReadsNothing ==
  ASSUME NEW log, NEW c, NEW n \in Nat
  PROVE  Reads(<< >>, log, c, n, n)
<1>1. ~ \E h \in n + 1 .. n : TRUE
  OBVIOUS
<1>2. DOMAIN << >> = {}
  OBVIOUS
<1>3. [i \in {} |-> 0] \in [DOMAIN << >> -> { h \in n + 1 .. n : log[h].src # c }]
  BY <1>2
<1>4. Places([i \in {} |-> 0], << >>, log, c, n, n)
  BY <1>1, <1>2, <1>3 DEF Places
<1>5. QED
  BY <1>4, ReadsPlaces

(* A longer log does not change what was read of it.                       *)
LEMMA ReadsPrefix ==
  ASSUME NEW S, NEW log \in Seq(S), NEW batch \in Seq(S), NEW q, NEW c,
         NEW from \in Nat, NEW to \in Nat, to <= Len(log),
         Reads(q, log, c, from, to)
  PROVE  Reads(q, log \o batch, c, from, to)
<1>1. \A h \in from + 1 .. to : h \in DOMAIN log /\ (log \o batch)[h] = log[h]
  <2>1. DOMAIN log = 1 .. Len(log) /\ Len(log) \in Nat
    BY LenProperties
  <2>2. \A h \in DOMAIN log : (log \o batch)[h] = log[h]
    BY ConcatElements
  <2>3. QED
    BY <2>1, <2>2
<1>2. PICK at : Places(at, q, log, c, from, to)
  BY ReadsPlaces
<1>3. { h \in from + 1 .. to : log[h].src # c } = { h \in from + 1 .. to : (log \o batch)[h].src # c }
  BY <1>1
<1>4. Places(at, q, log \o batch, c, from, to)
  <2>1. at \in [DOMAIN q -> { h \in from + 1 .. to : (log \o batch)[h].src # c }]
    BY <1>2, <1>3 DEF Places
  <2>2. \A i \in DOMAIN q : at[i] \in from + 1 .. to
    BY <2>1
  <2>3. \A i \in DOMAIN q : q[i] = (log \o batch)[at[i]]
    BY <1>1, <1>2, <2>2 DEF Places
  <2>4. \A h \in from + 1 .. to : (log \o batch)[h].src # c => \E i \in DOMAIN q : at[i] = h
    BY <1>1, <1>2 DEF Places
  <2>5. QED
    BY <1>2, <2>1, <2>3, <2>4 DEF Places
<1>5. QED
  BY <1>4, ReadsPlaces

(* A reader skips the messages of its own.                                 *)
LEMMA ReadsOwn ==
  ASSUME NEW S, NEW log \in Seq(S), NEW batch \in Seq(S), NEW q, NEW c,
         NEW from \in Nat, from <= Len(log),
         \A k \in DOMAIN batch : batch[k].src = c,
         Reads(q, log, c, from, Len(log))
  PROVE  Reads(q, log \o batch, c, from, Len(log \o batch))
<1> DEFINE n == Len(log)
           all == log \o batch
<1>0. /\ n \in Nat /\ Len(all) \in Nat /\ n <= Len(all) /\ DOMAIN all = 1 .. Len(all)
  BY ConcatElements, LenProperties
<1>1. Reads(q, all, c, from, n)
  BY <1>0, ReadsPrefix
<1>2. PICK at : Places(at, q, all, c, from, n)
  BY <1>1, ReadsPlaces
<1>3. \A h \in n + 1 .. Len(all) : all[h].src = c
  <2>1. \A h \in DOMAIN all : (h \in DOMAIN log) \/ (h - n \in DOMAIN batch /\ all[h] = batch[h - n])
    BY ConcatElements
  <2>2. \A h \in n + 1 .. Len(all) : h \in DOMAIN all /\ h \notin DOMAIN log
    BY <1>0, LenProperties
  <2>3. QED
    BY <2>1, <2>2
<1> HIDE DEF n, all
<1>4. \A h \in from + 1 .. Len(all) : all[h].src # c => h \in from + 1 .. n
  <2>1. \A h \in from + 1 .. Len(all) : h \in from + 1 .. n \/ h \in n + 1 .. Len(all)
    BY <1>0
  <2>2. QED
    BY <1>3, <2>1
<1>5. { h \in from + 1 .. Len(all) : all[h].src # c } = { h \in from + 1 .. n : all[h].src # c }
  <2>1. from + 1 .. n \subseteq from + 1 .. Len(all)
    BY <1>0
  <2>2. QED
    BY <1>4, <2>1
<1>6. Places(at, q, all, c, from, Len(all))
  BY <1>2, <1>4, <1>5 DEF Places
<1>7. QED
  BY <1>6, ReadsPlaces DEF all

(* It reads on with the messages of others.                                *)
LEMMA ReadsOthers ==
  ASSUME NEW S, NEW log \in Seq(S), NEW batch \in Seq(S), NEW q \in Seq(S), NEW c,
         NEW from \in Nat, from <= Len(log),
         \A k \in DOMAIN batch : batch[k].src # c,
         Reads(q, log, c, from, Len(log))
  PROVE  Reads(q \o batch, log \o batch, c, from, Len(log \o batch))
<1> DEFINE n == Len(log)
           m == Len(q)
           all == log \o batch
           new == q \o batch
<1>0. /\ n \in Nat /\ m \in Nat /\ DOMAIN q = 1 .. m
      /\ Len(batch) \in Nat /\ DOMAIN batch = 1 .. Len(batch)
      /\ Len(all) = n + Len(batch) /\ DOMAIN all = 1 .. Len(all)
      /\ Len(new) = m + Len(batch) /\ DOMAIN new = 1 .. Len(new)
      /\ from <= n
  BY ConcatElements, LenProperties
<1>1. Reads(q, all, c, from, n)
  BY <1>0, ReadsPrefix
<1>2. PICK at : Places(at, q, all, c, from, n)
  BY <1>1, ReadsPlaces
<1>3. /\ \A i \in DOMAIN q : new[i] = q[i]
      /\ \A k \in DOMAIN batch : all[n + k] = batch[k] /\ new[m + k] = batch[k]
  <2>1. \A k \in DOMAIN batch : all[n + k] = batch[k]
    BY ConcatElements
  <2>2. /\ \A i \in DOMAIN q : new[i] = q[i]
        /\ \A k \in DOMAIN batch : new[m + k] = batch[k]
    BY ConcatElements
  <2>3. QED
    BY <2>1, <2>2
<1> DEFINE on == [i \in DOMAIN new |-> IF i <= m THEN at[i] ELSE n + (i - m)]
<1> HIDE DEF n, m, all, new
<1>4. /\ \A i \in DOMAIN q : at[i] \in from + 1 .. n /\ all[at[i]].src # c /\ q[i] = all[at[i]]
      /\ \A i, j \in DOMAIN q : i < j => at[i] < at[j]
      /\ \A h \in from + 1 .. n : all[h].src # c => \E i \in DOMAIN q : at[i] = h
  BY <1>2 DEF Places
<1>5. ASSUME NEW i \in DOMAIN new
      PROVE  on[i] \in from + 1 .. Len(all) /\ all[on[i]].src # c /\ new[i] = all[on[i]]
  <2>1. CASE i <= m
    <3>1. i \in DOMAIN q /\ on[i] = at[i]
      BY <1>0, <2>1
    <3>2. at[i] \in from + 1 .. Len(all)
      BY <1>0, <1>4, <3>1
    <3>3. QED
      BY <1>3, <1>4, <3>1, <3>2
  <2>2. CASE ~(i <= m)
    <3>1. i - m \in DOMAIN batch /\ on[i] = n + (i - m) /\ m + (i - m) = i
      BY <1>0, <2>2
    <3>2. n + (i - m) \in from + 1 .. Len(all)
      BY <1>0, <3>1
    <3>3. all[n + (i - m)] = batch[i - m] /\ new[i] = batch[i - m]
      BY <1>3, <3>1
    <3>4. QED
      BY <3>1, <3>2, <3>3
  <2>3. QED
    BY <2>1, <2>2
<1>6. ASSUME NEW i \in DOMAIN new, NEW j \in DOMAIN new, i < j
      PROVE  on[i] < on[j]
  <2>1. CASE j <= m
    <3>1. i \in DOMAIN q /\ j \in DOMAIN q /\ on[i] = at[i] /\ on[j] = at[j]
      BY <1>0, <1>6, <2>1
    <3>2. QED
      BY <1>4, <1>6, <3>1
  <2>2. CASE i <= m /\ ~(j <= m)
    <3>1. i \in DOMAIN q /\ on[i] = at[i] /\ on[j] = n + (j - m)
      BY <1>0, <1>6, <2>2
    <3>2. at[i] \in from + 1 .. n
      BY <1>4, <3>1
    <3>3. QED
      BY <1>0, <2>2, <3>1, <3>2
  <2>3. CASE ~(i <= m) /\ ~(j <= m)
    BY <1>0, <1>6, <2>3
  <2>4. QED
    BY <1>0, <1>6, <2>1, <2>2, <2>3
<1>7. ASSUME NEW h \in from + 1 .. Len(all), all[h].src # c
      PROVE  \E i \in DOMAIN new : on[i] = h
  <2>1. CASE h <= n
    <3>1. PICK i \in DOMAIN q : at[i] = h
      BY <1>0, <1>4, <1>7, <2>1
    <3>2. i \in DOMAIN new /\ on[i] = at[i]
      BY <1>0
    <3>3. QED
      BY <3>1, <3>2
  <2>2. CASE ~(h <= n)
    <3>1. m + (h - n) \in DOMAIN new /\ on[m + (h - n)] = h
      BY <1>0, <2>2
    <3>2. QED
      BY <3>1
  <2>3. QED
    BY <2>1, <2>2
<1>8. on \in [DOMAIN new -> { h \in from + 1 .. Len(all) : all[h].src # c }]
  BY <1>5
<1> HIDE DEF on
<1>9. Places(on, new, all, c, from, Len(all))
  BY <1>5, <1>6, <1>7, <1>8 DEF Places
<1>10. QED
  BY <1>9, ReadsPlaces DEF all, new
-----------------------------------------------------------------------------
(* What the clients are sent is a reading of the history.                  *)
LEMMA ReadFrame ==
  ASSUME TypeOK, ReadInv, UNCHANGED << history, join, epoch, down >>, NEW t \in Session,
         t \in clients /\ sess'[t] = "open" => t \in clients',
         \/ sess'[t] = sess[t]
         \/ sess[t] \in {"open", "closed"} /\ sess'[t] \in {"closed", "dead"}
  PROVE  Served(t)'
<1>1. /\ Len(history) \in Nat /\ join[t] \in Nat /\ join[t] <= Len(history)
      /\ Len(history) \in join[t] .. Len(history)
  <2>1. Len(history) \in Nat /\ join[t] \in Nat
    BY LenProperties DEF TypeOK, ServerTypeOK
  <2>2. join[t] <= Len(history)
    BY DEF ReadInv, Served
  <2>3. QED
    BY <2>1, <2>2
<1>2. \A e : Delivered(t, e)' <=> Delivered(t, e)
  BY DEF Delivered
<1>3. Current(t[1])' = Current(t[1])
  BY DEF Current
<1>4. CASE sess'[t] = sess[t]
  BY <1>1, <1>2, <1>3, <1>4 DEF ReadInv, Served
<1>5. CASE sess[t] \in {"open", "closed"} /\ sess'[t] \in {"closed", "dead"}
  <2>1. t = Current(t[1]) => \E e \in join[t] .. Len(history) : Delivered(t, e)
    BY <1>1, <1>5 DEF ReadInv, Served
  <2>2. QED
    BY <1>1, <1>2, <1>3, <1>5, <2>1 DEF Served
<1>6. QED
  BY <1>4, <1>5

LEMMA RebroadcastKeepsReading ==
  ASSUME TypeOK, SentInv, RelayInv, ReadInv, NEW s \in Session, RebroadcastIncomingMsg(s)
  PROVE  ReadInv'
<1>1. PICK n, batch : Relays(s, n, batch)
  BY RebroadcastRelays
<1>2. /\ s = Current(s[1]) /\ s[1] \in Client
      /\ batch \in Seq(Message)
      /\ \A k \in DOMAIN batch : batch[k].src = s[1]
      /\ history \in Seq(Message) /\ history' = history \o batch
      /\ UNCHANGED << epoch, sess, clients, join >>
  <2>1. \A k \in DOMAIN batch : batch[k].src = s[1]
    BY <1>1, BatchIsNewer
  <2>2. s[1] \in Client /\ history \in Seq(Message)
    BY DEF TypeOK, ServerTypeOK, Session
  <2>3. QED
    BY <1>1, <2>1, <2>2 DEF Relays
<1>3. Len(history) \in Nat /\ Len(history') \in Nat /\ Len(history) <= Len(history')
  BY <1>2, ConcatElements, LenProperties
<1>4. ASSUME NEW t \in Session
      PROVE  /\ join'[t] <= Len(history')
             /\ sess'[t] \in {"free", "syn", "acked"} => down'[t] = << >>
             /\ sess'[t] = "open" => t \in clients'
    <2>1. join[t] \in Nat /\ join[t] <= Len(history)
      BY DEF TypeOK, ServerTypeOK, ReadInv, Served
    <2>2. sess[t] # "open" => down'[t] = down[t]
      BY <1>1 DEF Relays
    <2>3. QED
      BY <1>2, <1>3, <2>1, <2>2 DEF ReadInv, Served
<1>5. ASSUME NEW t \in Session, t = Current(t[1]), sess[t] = "open"
      PROVE  Reads(down'[t], history', t[1], join[t], Len(history'))
  <2>1. /\ Reads(down[t], history, t[1], join[t], Len(history)) /\ t \in clients
        /\ join[t] \in Nat /\ join[t] <= Len(history)
        /\ down[t] \in Seq(Message)
    BY <1>5 DEF ReadInv, Served, Delivered, TypeOK, ServerTypeOK, TcpTypeOK
  <2>2. CASE t = s
    <3>1. down'[t] = down[t]
      BY <1>1, <2>2 DEF Relays
    <3>2. QED
      BY <1>2, <2>1, <2>2, <3>1, ReadsOwn
  <2>3. CASE t # s
    <3>1. down'[t] = down[t] \o batch
      BY <1>1, <1>5, <2>1, <2>3 DEF Relays
    <3>2. t[1] # s[1]
      BY <1>2, <1>5, <2>3
    <3>3. \A k \in DOMAIN batch : batch[k].src # t[1]
      BY <1>2, <3>2
    <3>4. QED
      BY <1>2, <2>1, <3>1, <3>3, ReadsOthers
  <2>4. QED
    BY <2>2, <2>3
<1>6. ASSUME NEW t \in Session, t = Current(t[1]), sess[t] \in {"closed", "dead"}
      PROVE  \E e \in join[t] .. Len(history') : Reads(down'[t], history', t[1], join[t], e)
  <2>1. PICK e \in join[t] .. Len(history) : Reads(down[t], history, t[1], join[t], e)
    BY <1>6 DEF ReadInv, Served, Delivered
  <2>2. e \in Nat /\ e <= Len(history) /\ join[t] \in Nat /\ e \in join[t] .. Len(history')
    BY <1>3 DEF TypeOK, ServerTypeOK
  <2>3. down'[t] = down[t]
    BY <1>1, <1>6 DEF Relays
  <2>4. Reads(down'[t], history', t[1], join[t], e)
    BY <1>2, <2>1, <2>2, <2>3, ReadsPrefix
  <2>5. QED
    BY <2>2, <2>4
<1>7. QED
  BY <1>2, <1>4, <1>5, <1>6 DEF ReadInv, Served, Delivered, Current

LEMMA ReadStep ==
  ASSUME TypeOK, SessionInv, SentInv, RelayInv, HandshakeInv, ReadInv, Next
  PROVE  ReadInv'
<1>0. /\ epoch \in [Client -> Nat] /\ sess \in [Session -> SessState]
      /\ history \in Seq(Message) /\ Len(history) \in Nat
      /\ join \in [Session -> Nat] /\ clients \in SUBSET Session
      /\ \A t \in Session : t[1] \in Client
  BY MaxFaultsAssumption, LenProperties DEF TypeOK, TcpTypeOK, ServerTypeOK, Session
<1>1. ASSUME NEW s \in Session, RebroadcastIncomingMsg(s)
      PROVE  ReadInv'
  BY <1>1, RebroadcastKeepsReading
<1>2. ASSUME NEW c \in Client, OnConnectionRequest(c), NEW t \in Session
      PROVE  Served(t)'
  <2>1. /\ UNCHANGED << history, join, clients, down >>
        /\ epoch' = [epoch EXCEPT ![c] = @ + 1]
        /\ sess' = [sess EXCEPT ![<< c, epoch[c] + 1 >>] = "syn"]
    BY <1>2 DEF OnConnectionRequest, serverVars
  <2>2. CASE t = << c, epoch[c] + 1 >>
    <3>1. down[t] = << >>
      BY <1>0, <2>2 DEF SessionInv
    <3>2. sess'[t] = "syn"
      BY <1>0, <2>1, <2>2
    <3>3. QED
      BY <2>1, <3>1, <3>2 DEF ReadInv, Served
  <2>3. CASE t # << c, epoch[c] + 1 >>
    <3>1. sess'[t] = sess[t]
      BY <1>0, <2>1, <2>3
    <3>2. t = Current(t[1])' => t = Current(t[1])
      BY <1>0, <2>1, <2>3 DEF Current
    <3>3. \A e : Delivered(t, e)' <=> Delivered(t, e)
      BY <2>1 DEF Delivered
    <3>4. QED
      BY <2>1, <3>1, <3>2, <3>3 DEF ReadInv, Served
  <2>4. QED
    BY <2>2, <2>3
<1>3. ASSUME NEW s \in Session, OnConnectionAccept(s), NEW t \in Session
      PROVE  Served(t)'
  <2>1. /\ UNCHANGED << history, epoch, down >>
        /\ sess[s] = "acked"
        /\ sess' = [sess EXCEPT ![s] = "open"]
        /\ clients' = clients \union {s}
        /\ join' = [join EXCEPT ![s] = Len(history)]
    BY <1>3 DEF OnConnectionAccept
  <2>2. CASE t = s
    <3>1. /\ sess'[t] = "open" /\ down'[t] = << >> /\ join'[t] = Len(history)
          /\ t \in clients'
      BY <1>0, <2>1, <2>2 DEF ReadInv, Served
    <3>2. Reads(<< >>, history, t[1], Len(history), Len(history))
      BY <1>0, ReadsNothing
    <3>3. Delivered(t, Len(history))'
      BY <2>1, <3>1, <3>2 DEF Delivered
    <3>4. QED
      BY <1>0, <2>1, <3>1, <3>3 DEF Served
  <2>3. CASE t # s
    <3>1. sess'[t] = sess[t] /\ join'[t] = join[t]
      BY <1>0, <2>1, <2>3
    <3>2. \A e : Delivered(t, e)' <=> Delivered(t, e)
      BY <2>1, <3>1 DEF Delivered
    <3>3. QED
      BY <2>1, <3>1, <3>2 DEF ReadInv, Served, Current
  <2>4. QED
    BY <2>2, <2>3
<1>4. ASSUME NEW c \in Client, OnConnectSucceed(c), UNCHANGED serverVars, NEW t \in Session
      PROVE  Served(t)'
  <2>1. /\ UNCHANGED << history, join, clients, epoch, down >>
        /\ sess[Current(c)] = "syn"
        /\ sess' = [sess EXCEPT ![Current(c)] = "acked"]
    BY <1>4 DEF OnConnectSucceed, serverVars, HandshakeInv
  <2>2. CASE t = Current(c)
    <3>1. sess'[t] = "acked" /\ down[t] = << >>
      BY <1>0, <2>1, <2>2 DEF ReadInv, Served
    <3>2. QED
      BY <2>1, <3>1 DEF ReadInv, Served
  <2>3. CASE t # Current(c)
    <3>1. sess'[t] = sess[t]
      BY <1>0, <2>1, <2>3
    <3>2. QED
      BY <2>1, <3>1, ReadFrame
  <2>4. QED
    BY <2>2, <2>3
<1>5. ASSUME ServerStart \/ ServerStop \/ (\E s \in Session : ServerOnError(s)), NEW t \in Session
      PROVE  Served(t)'
  <2>1. UNCHANGED << history, join, epoch, down >>
    BY <1>5 DEF ServerStart, ServerStop, ServerOnError, serverVars
  <2>2. t \in clients /\ sess'[t] = "open" => t \in clients'
    BY <1>0, <1>5 DEF ServerStart, ServerStop, ServerOnError, serverVars
  <2>3. \/ sess'[t] = sess[t]
        \/ sess[t] \in {"open", "closed"} /\ sess'[t] \in {"closed", "dead"}
    BY <1>0, <1>5 DEF ServerStart, ServerStop, ServerOnError
  <2>4. QED
    BY <2>1, <2>2, <2>3, ReadFrame
<1>6. ASSUME NEW c \in Client, ClientNext(c), ~OnConnectSucceed(c), UNCHANGED serverVars,
             NEW t \in Session
      PROVE  Served(t)'
  <2>1. UNCHANGED << history, join, epoch, down, clients, sess >>
    BY <1>6
    DEF ClientNext, StartApplication, RetryConnect, OnConnectFailed, OnShutdown, OnError,
        StopApplication, SendMessage, OnRecvMessage, serverVars
  <2>2. QED
    BY <2>1, ReadFrame
<1>7. QED
  BY <1>1, <1>2, <1>3, <1>4, <1>5, <1>6
  DEF Next, ServerRuns, ClientRuns, ServerNext, ReadInv
-----------------------------------------------------------------------------
(* What the clients have been shown.                                       *)
LEMMA ShownFrame ==
  ASSUME ShownInv, UNCHANGED << history, epoch, down, heard >>,
         NEW c \in Client, shown'[c] = shown[c]
  PROVE  ShownTo(c)'
  BY DEF ShownInv, ShownTo, Current

LEMMA RequestKeepsShown ==
  ASSUME TypeOK, SessionInv, ShownInv, NEW d \in Client, OnConnectionRequest(d),
         UNCHANGED clientVars, NEW c \in Client
  PROVE  ShownTo(c)'
<1>1. /\ epoch' = [epoch EXCEPT ![d] = @ + 1] /\ epoch \in [Client -> Nat]
      /\ UNCHANGED << history, down, heard, shown >>
  BY MaxFaultsAssumption DEF OnConnectionRequest, clientVars, serverVars, TypeOK, TcpTypeOK
<1>2. CASE d = c
  <2>1. \A t \in Session : t = << c, epoch[c] + 1 >> => down[t] = << >>
    BY <1>1 DEF SessionInv
  <2>2. QED
    BY <1>1, <1>2, <2>1 DEF ShownInv, ShownTo, Current
<1>3. CASE d # c
  <2>1. epoch'[c] = epoch[c]
    BY <1>1, <1>3
  <2>2. QED
    BY <1>1, <2>1 DEF ShownInv, ShownTo, Current
<1>4. QED
  BY <1>2, <1>3

LEMMA RebroadcastKeepsShown ==
  ASSUME TypeOK, SentInv, RelayInv, ShownInv, NEW s \in Session, RebroadcastIncomingMsg(s),
         UNCHANGED clientVars, NEW c \in Client
  PROVE  ShownTo(c)'
<1>1. PICK n, batch : Relays(s, n, batch)
  BY RebroadcastRelays
<1>2. \A k \in DOMAIN batch : \A h \in DOMAIN history :
        history[h].src = batch[k].src => history[h].seq < batch[k].seq
  BY <1>1, BatchIsNewer
<1>3. UNCHANGED << epoch, heard, shown >>
  BY <1>1 DEF Relays, clientVars
<1>4. \A h \in DOMAIN history : h \in DOMAIN history' /\ history'[h] = history[h]
  <2>1. history \in Seq(Message) /\ batch \in Seq(Message) /\ history' = history \o batch
    BY <1>1 DEF Relays, TypeOK, ServerTypeOK
  <2>2. QED
    BY <2>1, ConcatElements
<1>5. ASSUME NEW t \in Session, t = Current(c),
             NEW i \in DOMAIN shown[c], NEW j \in DOMAIN down'[t],
             j > heard[t], shown[c][i].src = down'[t][j].src
      PROVE  shown[c][i].seq < down'[t][j].seq
  <2>1. \/ j \in DOMAIN down[t] /\ down'[t][j] = down[t][j]
        \/ j - Len(down[t]) \in DOMAIN batch /\ down'[t][j] = batch[j - Len(down[t])]
    BY <1>1, DownElements
  <2>2. PICK h \in DOMAIN history : history[h] = shown[c][i]
    BY DEF ShownInv, ShownTo
  <2>3. QED
    BY <1>2, <1>5, <2>1, <2>2 DEF ShownInv, ShownTo
<1>6. QED
  BY <1>3, <1>4, <1>5 DEF ShownInv, ShownTo, Current

(* What a client reads is what comes next on its stream.                   *)
LEMMA RecvReads ==
  ASSUME TypeOK, ConnInv, NEW c \in Client, OnRecvMessage(c)
  PROVE  \E n \in Nat, news \in Seq(Message) :
           /\ n > 0 /\ heard[Current(c)] + n <= Len(down[Current(c)])
           /\ heard' = [heard EXCEPT ![Current(c)] = @ + n]
           /\ shown' = [shown EXCEPT ![c] = @ \o news]
           /\ DOMAIN news = 1 .. n
           /\ \A k \in 1 .. n : /\ heard[Current(c)] + k \in DOMAIN down[Current(c)]
                                /\ news[k] = down[Current(c)][heard[Current(c)] + k]
<1> DEFINE s == Current(c)
<1>1. s \in Session
  BY ConnectedHasSession DEF OnRecvMessage, Attached
<1>2. down[s] \in Seq(Message) /\ heard[s] \in Nat
  BY <1>1 DEF TypeOK, TcpTypeOK
<1>3. PICK n \in 1 .. Len(down[s]) - heard[s] :
        /\ heard' = [heard EXCEPT ![s] = @ + n]
        /\ shown' = [shown EXCEPT ![c] = @ \o SubSeq(down[s], heard[s] + 1, heard[s] + n)]
  BY DEF OnRecvMessage
<1> DEFINE news == SubSeq(down[s], heard[s] + 1, heard[s] + n)
<1>4. /\ news \in Seq(Message) /\ Len(news) = n
      /\ \A k \in 1 .. n : news[k] = down[s][heard[s] + k]
  BY <1>2, BatchIsSeq
<1>5. shown' = [shown EXCEPT ![c] = @ \o news]
  BY <1>3
<1> HIDE DEF news, s
<1>6. DOMAIN news = 1 .. n /\ DOMAIN down[s] = 1 .. Len(down[s]) /\ Len(down[s]) \in Nat
  BY <1>2, <1>4, LenProperties
<1>7. /\ n \in Nat /\ n > 0 /\ heard[s] + n <= Len(down[s])
      /\ \A k \in 1 .. n : heard[s] + k \in DOMAIN down[s]
  BY <1>2, <1>6
<1>8. QED
  BY ZenonT(30), <1>3, <1>4, <1>5, <1>6, <1>7 DEF s

LEMMA RecvKeepsShown ==
  ASSUME TypeOK, ConnInv, DownInv, ShownInv, NEW c \in Client, OnRecvMessage(c),
         UNCHANGED serverVars
  PROVE  ShownTo(c)'
<1> DEFINE s == Current(c)
<1>1. PICK n \in Nat, news \in Seq(Message) :
        /\ n > 0 /\ heard[s] + n <= Len(down[s])
        /\ heard' = [heard EXCEPT ![s] = @ + n]
        /\ shown' = [shown EXCEPT ![c] = @ \o news]
        /\ DOMAIN news = 1 .. n
        /\ \A k \in 1 .. n : heard[s] + k \in DOMAIN down[s] /\ news[k] = down[s][heard[s] + k]
  BY RecvReads
<1>2. s \in Session
  BY ConnectedHasSession DEF OnRecvMessage, Attached
<1>3. /\ UNCHANGED << epoch, down, history >>
      /\ heard[s] \in Nat /\ down[s] \in Seq(Message) /\ shown[c] \in Seq(Message)
      /\ heard'[s] = heard[s] + n /\ shown'[c] = shown[c] \o news
  BY <1>1, <1>2 DEF OnRecvMessage, serverVars, TypeOK, TcpTypeOK, ClientTypeOK
<1>4. /\ \A i, j \in DOMAIN down[s] :
           i < j /\ down[s][i].src = down[s][j].src => down[s][i].seq < down[s][j].seq
      /\ \A i \in DOMAIN down[s] : \E h \in DOMAIN history : history[h] = down[s][i]
      /\ DOMAIN down[s] \subseteq Nat
  BY <1>2, <1>3, MessageElements DEF DownInv
<1>5. /\ \A i \in DOMAIN shown[c] : \E h \in DOMAIN history : history[h] = shown[c][i]
      /\ \A i, j \in DOMAIN shown[c] :
           i < j /\ shown[c][i].src = shown[c][j].src => shown[c][i].seq < shown[c][j].seq
      /\ \A i \in DOMAIN shown[c], j \in DOMAIN down[s] :
           j > heard[s] /\ shown[c][i].src = down[s][j].src => shown[c][i].seq < down[s][j].seq
  BY <1>2 DEF ShownInv, ShownTo
<1> HIDE DEF s
<1>u. \A k \in 1 .. n : heard[s] + k \in DOMAIN down[s] /\ news[k] = down[s][heard[s] + k]
  BY <1>1 DEF s
<1>6. /\ \A i \in DOMAIN shown'[c] :
           \/ i \in DOMAIN shown[c] /\ shown'[c][i] = shown[c][i]
           \/ /\ i > Len(shown[c]) /\ i - Len(shown[c]) \in DOMAIN news
              /\ shown'[c][i] = news[i - Len(shown[c])]
      /\ DOMAIN shown[c] = 1 .. Len(shown[c]) /\ Len(shown[c]) \in Nat
      /\ DOMAIN shown'[c] \subseteq Nat
  <2>1. shown'[c] \in Seq(Message)
    BY <1>3, ConcatElements
  <2>2. \A i \in DOMAIN (shown[c] \o news) :
           \/ i \in DOMAIN shown[c] /\ (shown[c] \o news)[i] = shown[c][i]
           \/ /\ i > Len(shown[c]) /\ i - Len(shown[c]) \in DOMAIN news
              /\ (shown[c] \o news)[i] = news[i - Len(shown[c])]
    BY <1>3, ConcatElements
  <2>3. QED
    BY <1>3, <2>1, <2>2, MessageElements
<1>7. ASSUME NEW i \in DOMAIN shown'[c]
      PROVE  \E h \in DOMAIN history : history[h] = shown'[c][i]
  <2>1. CASE i \in DOMAIN shown[c] /\ shown'[c][i] = shown[c][i]
    BY <1>5, <2>1
  <2>2. CASE i - Len(shown[c]) \in 1 .. n /\ shown'[c][i] = news[i - Len(shown[c])]
    BY <1>4, <1>u, <2>2
  <2>3. QED
    BY <1>1, <1>6, <2>1, <2>2
<1>8. ASSUME NEW i \in DOMAIN shown'[c], NEW j \in DOMAIN shown'[c], i < j,
             shown'[c][i].src = shown'[c][j].src
      PROVE  shown'[c][i].seq < shown'[c][j].seq
  <2>1. CASE i \in DOMAIN shown[c] /\ shown'[c][i] = shown[c][i]
             /\ j \in DOMAIN shown[c] /\ shown'[c][j] = shown[c][j]
    BY <1>5, <1>8, <2>1
  <2>2. CASE i \in DOMAIN shown[c] /\ shown'[c][i] = shown[c][i]
             /\ j - Len(shown[c]) \in 1 .. n /\ shown'[c][j] = news[j - Len(shown[c])]
    <3>1. heard[s] + (j - Len(shown[c])) > heard[s]
      BY <1>3, <2>2
    <3>2. QED
      BY <1>5, <1>8, <1>u, <2>2, <3>1
  <2>3. CASE i > Len(shown[c]) /\ i - Len(shown[c]) \in 1 .. n
             /\ shown'[c][i] = news[i - Len(shown[c])]
    <3>1. j \notin DOMAIN shown[c] /\ i \in Nat /\ j \in Nat
      BY <1>6, <1>8, <2>3
    <3>2. j - Len(shown[c]) \in 1 .. n /\ shown'[c][j] = news[j - Len(shown[c])]
      BY <1>1, <1>6, <3>1
    <3>3. heard[s] + (i - Len(shown[c])) < heard[s] + (j - Len(shown[c]))
      BY SMTT(30), <1>3, <1>6, <1>8, <3>1
    <3>4. /\ shown'[c][i] = down[s][heard[s] + (i - Len(shown[c]))]
          /\ shown'[c][j] = down[s][heard[s] + (j - Len(shown[c]))]
          /\ heard[s] + (i - Len(shown[c])) \in DOMAIN down[s]
          /\ heard[s] + (j - Len(shown[c])) \in DOMAIN down[s]
      BY <1>u, <2>3, <3>2
    <3>5. QED
      BY <1>4, <1>8, <3>3, <3>4
  <2>4. QED
    BY <1>1, <1>6, <2>1, <2>2, <2>3
<1>9. ASSUME NEW i \in DOMAIN shown'[c], NEW j \in DOMAIN down[s], j > heard'[s],
             shown'[c][i].src = down[s][j].src
      PROVE  shown'[c][i].seq < down[s][j].seq
  <2>1. j \in Nat /\ j > heard[s]
    BY <1>1, <1>3, <1>4, <1>9
  <2>2. CASE i \in DOMAIN shown[c] /\ shown'[c][i] = shown[c][i]
    BY <1>5, <1>9, <2>1, <2>2
  <2>3. CASE i - Len(shown[c]) \in 1 .. n /\ shown'[c][i] = news[i - Len(shown[c])]
    <3>1. heard[s] + (i - Len(shown[c])) < j
      BY <1>1, <1>3, <1>9, <2>1, <2>3
    <3>2. QED
      BY SMTT(30), <1>4, <1>9, <1>u, <2>3, <3>1
  <2>4. QED
    BY <1>1, <1>6, <2>2, <2>3
<1>10. QED
  BY ZenonT(30), <1>3, <1>7, <1>8, <1>9 DEF ShownTo, Current, s

LEMMA ShownStep ==
  ASSUME TypeOK, ConnInv, SessionInv, SentInv, RelayInv, DownInv, ShownInv, Next
  PROVE  ShownInv'
<1> SUFFICES ASSUME NEW c \in Client PROVE ShownTo(c)'
  BY DEF ShownInv, ShownTo
<1>1. ASSUME NEW d \in Client, OnConnectionRequest(d), UNCHANGED clientVars
      PROVE  ShownTo(c)'
  BY <1>1, RequestKeepsShown
<1>2. ASSUME NEW s \in Session, RebroadcastIncomingMsg(s), UNCHANGED clientVars
      PROVE  ShownTo(c)'
  BY <1>2, RebroadcastKeepsShown
<1>3. ASSUME ServerNext, \A s \in Session : ~RebroadcastIncomingMsg(s),
             \A d \in Client : ~OnConnectionRequest(d), UNCHANGED clientVars
      PROVE  ShownTo(c)'
  <2>1. UNCHANGED << history, epoch, down, heard, shown >>
    BY <1>3 DEF ServerNext, ServerStart, ServerStop, OnConnectionAccept, ServerOnError,
                clientVars, serverVars
  <2>2. QED
    BY <2>1, ShownFrame
<1>4. ASSUME OnRecvMessage(c), UNCHANGED serverVars
      PROVE  ShownTo(c)'
  BY <1>4, RecvKeepsShown
<1>5. ASSUME NEW d \in Client, d # c, OnRecvMessage(d), UNCHANGED serverVars
      PROVE  ShownTo(c)'
  <2>1. PICK n \in Nat, news \in Seq(Message) :
          /\ heard' = [heard EXCEPT ![Current(d)] = @ + n]
          /\ shown' = [shown EXCEPT ![d] = @ \o news]
    BY <1>5, RecvReads
  <2>2. UNCHANGED << history, epoch, down >>
    BY <1>5 DEF OnRecvMessage, serverVars
  <2>3. shown'[c] = shown[c] /\ \A t \in Session : t = Current(c) => heard'[t] = heard[t]
    BY <1>5, <2>1 DEF TypeOK, TcpTypeOK, ClientTypeOK, Current
  <2>4. QED
    BY <2>2, <2>3 DEF ShownInv, ShownTo, Current
<1>6. ASSUME NEW d \in Client, ClientNext(d), ~OnRecvMessage(d), UNCHANGED serverVars
      PROVE  ShownTo(c)'
  <2>1. UNCHANGED << history, epoch, down, heard, shown >>
    BY <1>6
    DEF ClientNext, StartApplication, RetryConnect, OnConnectSucceed, OnConnectFailed,
        OnShutdown, OnError, StopApplication, SendMessage, clientVars, serverVars
  <2>2. QED
    BY <2>1, ShownFrame
<1>7. QED
  BY <1>1, <1>2, <1>3, <1>4, <1>5, <1>6 DEF Next, ServerRuns, ClientRuns, ServerNext
-----------------------------------------------------------------------------
LEMMA InitRoom == Init => RoomInv
<1> SUFFICES ASSUME Init PROVE RoomInv
  OBVIOUS
<1> USE DEF Init, TcpInit, ServerInit, ClientInit
<1>1. HandshakeInv
  BY DEF HandshakeInv
<1>2. ChainInv
  BY DEF ChainInv
<1>3. CalmInv
  <2>1. \A c \in Client : 0 + Len(<< >>) = Cardinality(OwnLinesUpTo(c, 0))
    BY NothingReadYet
  <2>2. NoLineLost
    BY <2>1 DEF NoLineLost
  <2>3. QED
    BY <2>2 DEF CalmInv, Untroubled
<1>4. ReadInv
  <2>1. Len(<< >>) = 0
    OBVIOUS
  <2>2. QED
    BY <2>1 DEF ReadInv, Served
<1>5. ShownInv
  BY DEF ShownInv, ShownTo
<1>6. QED
  BY <1>1, <1>2, <1>3, <1>4, <1>5 DEF RoomInv

LEMMA RoomFrame == RoomInv /\ UNCHANGED vars => RoomInv'
<1> SUFFICES ASSUME RoomInv, UNCHANGED vars PROVE RoomInv'
  OBVIOUS
<1> USE DEF vars, tcpVars, serverVars, clientVars, RoomInv
<1>1. HandshakeInv'
  BY DEF HandshakeInv, Current
<1>2. ChainInv'
  BY DEF ChainInv
<1>3. CalmInv'
  BY DEF CalmInv, Calm, NoLineLost, Untroubled, Current
<1>4. ReadInv'
  BY DEF ReadInv, Served, Delivered, Current
<1>5. ShownInv'
  BY DEF ShownInv, ShownTo, Current
<1>6. QED
  BY <1>1, <1>2, <1>3, <1>4, <1>5

LEMMA NextRoom == CoreInv /\ RoomInv /\ [Next]_vars => RoomInv'
<1> SUFFICES ASSUME CoreInv, RoomInv, Next PROVE RoomInv'
  BY RoomFrame
<1>1. /\ TypeOK /\ ConnInv /\ SessionInv /\ SentInv /\ RelayInv /\ DownInv
      /\ HandshakeInv /\ ChainInv /\ CalmInv /\ ReadInv /\ ShownInv
  BY DEF CoreInv, RoomInv
<1>2. HandshakeInv' /\ ChainInv' /\ CalmInv'
  BY <1>1, HandshakeStep, ChainStep, CalmStep
<1>3. ReadInv' /\ ShownInv'
  BY <1>1, ReadStep, ShownStep
<1>4. QED
  BY <1>2, <1>3 DEF RoomInv

(* All parts of the invariant hold together in every reachable state, for  *)
(* any set of clients, any input and any number of faults.                 *)
THEOREM InvariantHolds == Spec => []IInv
<1>1. Init => IInv
  BY InitCore, InitRoom DEF IInv
<1>2. IInv /\ [Next]_vars => IInv'
  BY NextCore, NextRoom DEF IInv
<1>3. QED
  BY <1>1, <1>2, PTL DEF Spec

(* A client never has more messages scheduled than it has had connections  *)
(* (ScheduleNextMessage called by OnConnectSucceed and by SendMessage).    *)
THEOREM ChainsAreBounded == Spec => []OneChainPerConnection
<1>1. IInv => OneChainPerConnection
  <2>1. CoreInv => epoch \in [Client -> Nat] /\ \A c \in Client : Len(pending[c]) \in Nat
    BY MaxFaultsAssumption, LineElements DEF CoreInv, TypeOK, TcpTypeOK, ClientTypeOK
  <2>2. QED
    BY <2>1 DEF IInv, RoomInv, ChainInv, OneChainPerConnection
<1>2. QED
  BY <1>1, InvariantHolds, PTL

(* As long as nothing breaks, each own line that was read has been sent or *)
(* is scheduled (ScheduleNextMessage, SendMessage): the connection never   *)
(* goes away between the two.                                              *)
THEOREM CalmLosesNoLine == Spec => []NoLineLost
<1>1. IInv => NoLineLost
  BY DEF IInv, RoomInv, CalmInv
<1>2. QED
  BY <1>1, InvariantHolds, PTL

(* As long as the server's socket of a session is open, all that was       *)
(* relayed since it was accepted has been written to it, in order and      *)
(* without gaps, except for the client's own (RebroadcastIncomingMsg,      *)
(* OnConnectionAccept, OnError).                                           *)
THEOREM NothingIsMissed == Spec => []SubscriberMissesNothing
<1>1. IInv => SubscriberMissesNothing
  BY DEF IInv, RoomInv, ReadInv, Served, Delivered, SubscriberMissesNothing
<1>2. QED
  BY <1>1, InvariantHolds, PTL

-----------------------------------------------------------------------------
(* A message is relayed once, so its place in the history is unique.       *)
LEMMA PlaceOf ==
  ASSUME NEW log \in Seq(Message), NEW h \in DOMAIN log,
         \A i, j \in DOMAIN log : i < j /\ log[i].src = log[j].src => log[i].seq < log[j].seq
  PROVE  PlaceIn(log, log[h]) = h
<1>1. h \in Nat /\ log[h].seq \in Nat /\ \A i \in DOMAIN log : i \in Nat
  BY MessageElements
<1>2. ASSUME NEW i \in DOMAIN log, log[i] = log[h]
      PROVE  i = h
  <2>1. ~(i < h) /\ ~(h < i)
    BY <1>1, <1>2
  <2>2. QED
    BY <1>1, <2>1
<1>3. QED
  BY <1>2 DEF PlaceIn

(* An accepted session is a session, and it carries a part of the history. *)
LEMMA AcceptedSession ==
  ASSUME TypeOK, ReadInv, NEW c \in Client, AcceptedNow(c)
  PROVE  /\ Current(c) \in Session /\ Current(c)[1] = c
         /\ \E e \in join[Current(c)] .. Len(history) : Delivered(Current(c), e)
<1>1. epoch[c] \in 1 .. MaxFaults + 1
  BY MaxFaultsAssumption DEF TypeOK, TcpTypeOK, AcceptedNow
<1>2. Current(c) \in Session /\ Current(c)[1] = c
  BY <1>1 DEF Current, Session
<1>3. Served(Current(c)) /\ sess[Current(c)] \in {"open", "closed", "dead"}
  BY <1>2 DEF ReadInv, AcceptedNow
<1>4. join[Current(c)] \in Nat /\ Len(history) \in Nat
  BY <1>2, LenProperties DEF TypeOK, ServerTypeOK
<1>5. Len(history) \in join[Current(c)] .. Len(history)
  BY <1>3, <1>4 DEF Served
<1>6. QED
  BY <1>2, <1>3, <1>5 DEF Served

(* The messages of a session are found where they were relayed.            *)
LEMMA CursorIs ==
  ASSUME TypeOK, RelayInv, NEW s \in Session, NEW c, NEW at,
         NEW e \in Nat, e <= Len(history),
         Places(at, down[s], history, c, join[s], e), NEW k \in DOMAIN down[s]
  PROVE  PlaceIn(history, down[s][k]) = at[k]
<1>1. /\ history \in Seq(Message) /\ DOMAIN history = 1 .. Len(history)
      /\ Len(history) \in Nat /\ join[s] \in Nat
  BY LenProperties DEF TypeOK, ServerTypeOK
<1>2. at[k] \in join[s] + 1 .. e /\ down[s][k] = history[at[k]]
  BY DEF Places
<1>3. at[k] \in DOMAIN history
  BY <1>1, <1>2
<1>4. PlaceIn(history, history[at[k]]) = at[k]
  BY <1>1, <1>3, PlaceOf DEF RelayInv
<1>5. QED
  BY <1>2, <1>4

(* Reading on from one place to a later one reads what is in between.      *)
LEMMA ReadsSlice ==
  ASSUME NEW S, NEW q \in Seq(S), NEW log, NEW c, NEW from \in Nat, NEW to \in Nat,
         NEW at, Places(at, q, log, c, from, to),
         NEW a \in Nat, NEW n \in Nat, n > 0, a + n <= Len(q),
         NEW news, DOMAIN news = 1 .. n, \A k \in 1 .. n : news[k] = q[a + k],
         NEW start, start = IF a = 0 THEN from ELSE at[a]
  PROVE  Reads(news, log, c, start, at[a + n])
<1>0. DOMAIN q = 1 .. Len(q) /\ Len(q) \in Nat
  BY LenProperties
<1>1. /\ \A i \in DOMAIN q : at[i] \in from + 1 .. to /\ log[at[i]].src # c /\ q[i] = log[at[i]]
      /\ \A i, j \in DOMAIN q : i < j => at[i] < at[j]
      /\ \A h \in from + 1 .. to : log[h].src # c => \E i \in DOMAIN q : at[i] = h
  BY DEF Places
<1>2. a # 0 => a \in DOMAIN q
  BY <1>0
<1>3. \A k \in 1 .. n : a + k \in DOMAIN q
  BY <1>0
<1>4. start \in Nat /\ start >= from
  BY <1>1, <1>2
<1>5. \A k \in 1 .. n : at[a + k] > start
  <2>1. ASSUME NEW k \in 1 .. n
        PROVE  at[a + k] > start
    <3>1. a + k \in DOMAIN q /\ a < a + k
      BY <1>3
    <3>2. at[a + k] \in from + 1 .. to
      BY <1>1, <3>1
    <3>3. CASE a = 0
      BY <3>2, <3>3
    <3>4. CASE a # 0
      <4>1. at[a] < at[a + k] /\ start = at[a]
        BY <1>1, <1>2, <3>1, <3>4
      <4>2. QED
        BY <1>4, <3>2, <4>1
    <3>5. QED
      BY <3>3, <3>4
  <2>2. QED
    BY <2>1
<1>6. \A k \in 1 .. n : at[a + k] <= at[a + n]
  <2>1. ASSUME NEW k \in 1 .. n
        PROVE  at[a + k] <= at[a + n]
    <3>1. a + k \in DOMAIN q /\ a + n \in DOMAIN q
      BY <1>3
    <3>2. at[a + k] \in Nat /\ at[a + n] \in Nat
      BY <1>1, <3>1
    <3>3. CASE k = n
      BY <3>2, <3>3
    <3>4. CASE k # n
      <4>1. a + k < a + n
        BY <3>4
      <4>2. at[a + k] < at[a + n]
        BY <1>1, <3>1, <4>1
      <4>3. QED
        BY <3>2, <4>2
    <3>5. QED
      BY <3>3, <3>4
  <2>2. QED
    BY <2>1
<1>7. at[a + n] \in start + 1 .. to /\ at[a + n] \in Nat
  <2>1. n \in 1 .. n
    OBVIOUS
  <2>2. at[a + n] \in from + 1 .. to /\ at[a + n] > start
    BY <1>1, <1>3, <1>5, <2>1
  <2>3. QED
    BY <1>4, <2>2
<1> DEFINE on == [k \in 1 .. n |-> at[a + k]]
           last == at[a + n]
<1>8. ASSUME NEW k \in 1 .. n
      PROVE  on[k] \in start + 1 .. last /\ log[on[k]].src # c /\ news[k] = log[on[k]]
  <2>1. a + k \in DOMAIN q /\ on[k] = at[a + k]
    BY <1>3
  <2>2. on[k] \in from + 1 .. to /\ log[on[k]].src # c /\ q[a + k] = log[on[k]]
    BY <1>1, <2>1
  <2>3. on[k] > start /\ on[k] <= last
    BY <1>5, <1>6, <2>1
  <2>4. on[k] \in start + 1 .. last
    BY SMTT(30), <1>4, <1>7, <2>2, <2>3
  <2>5. QED
    BY <2>2, <2>4
<1>9. ASSUME NEW i \in 1 .. n, NEW j \in 1 .. n, i < j
      PROVE  on[i] < on[j]
  <2>1. a + i \in DOMAIN q /\ a + j \in DOMAIN q /\ a + i < a + j
    BY <1>3, <1>9
  <2>2. QED
    BY <1>1, <2>1
<1>10. ASSUME NEW h \in start + 1 .. last, log[h].src # c
       PROVE  \E k \in 1 .. n : on[k] = h
  <2>1. h \in from + 1 .. to /\ h > start /\ h <= last
    BY SMTT(30), <1>4, <1>7
  <2>2. PICK i \in DOMAIN q : at[i] = h
    BY <1>1, <1>10, <2>1
  <2>3. i \in Nat /\ i >= 1
    BY <1>0
  <2>4. ~(i <= a)
    <3>1. SUFFICES ASSUME i <= a PROVE FALSE
      OBVIOUS
    <3>2. a \in DOMAIN q /\ start = at[a]
      BY <1>2, <2>3, <3>1
    <3>3. i = a \/ i < a
      BY <2>3, <3>1
    <3>4. at[i] <= at[a]
      <4>1. at[i] \in Nat /\ at[a] \in Nat
        BY SMTT(30), <1>1, <3>2
      <4>2. QED
        BY <1>1, <3>2, <3>3, <4>1
    <3>5. QED
      BY <1>4, <2>1, <2>2, <3>2, <3>4
  <2>5. ~(i > a + n)
    <3>1. SUFFICES ASSUME a + n < i PROVE FALSE
      BY <2>3
    <3>2. n \in 1 .. n
      OBVIOUS
    <3>3. at[a + n] < at[i]
      BY <1>1, <1>3, <3>1, <3>2
    <3>4. QED
      BY <1>7, <2>1, <2>2, <3>3
  <2>6. i - a \in 1 .. n /\ a + (i - a) = i
    BY <2>3, <2>4, <2>5
  <2>7. QED
    BY <2>2, <2>6
<1>11. on \in [DOMAIN news -> { h \in start + 1 .. last : log[h].src # c }]
  BY <1>8
<1> HIDE DEF on, last
<1>12. Places(on, news, log, c, start, last)
  BY <1>8, <1>9, <1>10, <1>11 DEF Places
<1>13. QED
  BY <1>12, ReadsPlaces DEF last
-----------------------------------------------------------------------------
(* The room does not move unless a message is relayed, a session is        *)
(* accepted or replaced, or a client reads.                                *)
LEMMA RoomStutters ==
  ASSUME UNCHANGED << history, shown, epoch, heard, down, join >>,
         \A c \in Client : AcceptedNow(c)' <=> AcceptedNow(c)
  PROVE  UNCHANGED Room!roomVars
<1>1. \A c \in Client : LastHeard(c)' = LastHeard(c)
  BY DEF LastHeard, Current
<1>2. \A c \in Client : AcceptedNow(c)' = AcceptedNow(c)
  BY DEF AcceptedNow
<1>3. Members' = Members
  BY <1>2 DEF Members
<1>4. Cursors' = Cursors
  BY <1>1, <1>2 DEF Cursors
<1>5. QED
  BY <1>3, <1>4 DEF Room!roomVars

LEMMA SessOnlyEnds ==
  ASSUME UNCHANGED epoch, NEW c \in Client, Current(c) \in Session \/ epoch[c] = 0,
         epoch \in [Client -> Nat],
         \A t \in Session : \/ sess'[t] = sess[t]
                            \/ sess[t] \in {"syn"} /\ sess'[t] = "acked"
                            \/ sess[t] \in {"open", "closed"} /\ sess'[t] \in {"closed", "dead"}
  PROVE  AcceptedNow(c)' <=> AcceptedNow(c)
<1>1. CASE epoch[c] = 0
  BY <1>1 DEF AcceptedNow
<1>2. CASE Current(c) \in Session
  BY <1>2 DEF AcceptedNow, Current
<1>3. QED
  BY <1>1, <1>2

LEMMA CurrentIsSession ==
  ASSUME TypeOK, NEW c \in Client
  PROVE  (Current(c) \in Session \/ epoch[c] = 0) /\ epoch \in [Client -> Nat]
  BY MaxFaultsAssumption DEF TypeOK, TcpTypeOK, Current, Session

(* OnConnectionAccept: the client joins.                                   *)
LEMMA AcceptJoins ==
  ASSUME TypeOK, SessionInv, ReadInv, NEW s \in Session, OnConnectionAccept(s),
         UNCHANGED clientVars
  PROVE  Room!RoomNext
<1> DEFINE c == s[1]
<1>1. /\ c \in Client /\ s = << c, epoch[c] >> /\ epoch[c] > 0 /\ sess[s] = "acked"
      /\ sess' = [sess EXCEPT ![s] = "open"]
      /\ join' = [join EXCEPT ![s] = Len(history)]
      /\ UNCHANGED << history, shown, epoch, heard, down >>
      /\ sess \in [Session -> SessState] /\ join \in [Session -> Nat]
  BY DEF OnConnectionAccept, TypeOK, TcpTypeOK, ServerTypeOK, Session, Current, clientVars
<1>2. heard[s] = 0
  <2>1. down[s] = << >> /\ heard[s] \in Nat /\ heard[s] <= Len(down[s])
    BY <1>1 DEF ReadInv, Served, SessionInv, TypeOK, TcpTypeOK
  <2>2. Len(<< >>) = 0
    OBVIOUS
  <2>3. QED
    BY <2>1, <2>2
<1> HIDE DEF c
<1>3. ~AcceptedNow(c) /\ AcceptedNow(c)' /\ LastHeard(c)' = Len(history)
  BY <1>1, <1>2 DEF AcceptedNow, LastHeard, Current
<1>4. \A d \in Client : d # c => /\ AcceptedNow(d)' = AcceptedNow(d)
                                 /\ LastHeard(d)' = LastHeard(d)
  <2>1. ASSUME NEW d \in Client, d # c
        PROVE  sess'[Current(d)] = sess[Current(d)] /\ join'[Current(d)] = join[Current(d)]
    BY <1>1, <2>1 DEF Current
  <2>2. QED
    BY <1>1, <2>1 DEF AcceptedNow, LastHeard, Current
<1>5. Members' = [Members EXCEPT ![c] = TRUE]
  BY <1>1, <1>3, <1>4 DEF Members
<1>6. Cursors' = [Cursors EXCEPT ![c] = Len(history)]
  BY <1>1, <1>3, <1>4 DEF Cursors
<1>7. Room!Join(c)
  BY <1>1, <1>3, <1>5, <1>6 DEF Room!Join, Members
<1>8. QED
  BY <1>1, <1>7 DEF Room!RoomNext

(* OnConnectionRequest: a new session replaces the accepted one, if any.   *)
LEMMA RequestLeaves ==
  ASSUME TypeOK, NEW c \in Client, OnConnectionRequest(c), UNCHANGED clientVars
  PROVE  Room!RoomNext \/ UNCHANGED Room!roomVars
<1>1. /\ epoch' = [epoch EXCEPT ![c] = @ + 1] /\ epoch \in [Client -> Nat]
      /\ << c, epoch[c] + 1 >> \in Session
      /\ sess' = [sess EXCEPT ![<< c, epoch[c] + 1 >>] = "syn"]
      /\ sess \in [Session -> SessState]
      /\ UNCHANGED << history, shown, heard, down, join >>
  BY MaxFaultsAssumption
  DEF OnConnectionRequest, TypeOK, TcpTypeOK, Session, clientVars, serverVars
<1>2. ~AcceptedNow(c)'
  BY <1>1 DEF AcceptedNow, Current
<1>3. \A d \in Client : d # c => /\ AcceptedNow(d)' = AcceptedNow(d)
                                 /\ LastHeard(d)' = LastHeard(d)
  <2>1. ASSUME NEW d \in Client, d # c
        PROVE  epoch'[d] = epoch[d] /\ sess'[Current(d)] = sess[Current(d)]
    BY <1>1, <2>1 DEF Current
  <2>2. QED
    BY <1>1, <2>1 DEF AcceptedNow, LastHeard, Current
<1>4. Members' = [Members EXCEPT ![c] = FALSE]
  <2>1. AcceptedNow(c)' = FALSE
    BY <1>2 DEF AcceptedNow
  <2>2. QED
    BY <1>3, <2>1 DEF Members
<1>5. Cursors' = [Cursors EXCEPT ![c] = 0]
  BY <1>2, <1>3 DEF Cursors
<1>6. CASE AcceptedNow(c)
  <2>1. Room!Leave(c)
    BY <1>1, <1>4, <1>5, <1>6 DEF Room!Leave, Members
  <2>2. QED
    BY <2>1 DEF Room!RoomNext
<1>7. CASE ~AcceptedNow(c)
  <2>1. AcceptedNow(c) = FALSE
    BY <1>7 DEF AcceptedNow
  <2>2. Members' = Members
    BY <1>4, <2>1 DEF Members
  <2>3. Cursors' = Cursors
    BY <1>5, <1>7 DEF Cursors
  <2>4. QED
    BY <1>1, <2>2, <2>3 DEF Room!roomVars
<1>8. QED
  BY <1>6, <1>7

(* RebroadcastIncomingMsg: the client posts a batch, and all cursors stay. *)
LEMMA RebroadcastPosts ==
  ASSUME TypeOK, SessionInv, SentInv, RelayInv, DownInv, TypeOK', RelayInv',
         NEW s \in Session, RebroadcastIncomingMsg(s), UNCHANGED clientVars
  PROVE  Room!RoomNext
<1>1. PICK n, batch : Relays(s, n, batch)
  BY RebroadcastRelays
<1>2. /\ s[1] \in Client /\ n \in Nat /\ n > 0 /\ DOMAIN batch = 1 .. n
      /\ batch \in Seq(Message) /\ history \in Seq(Message) /\ history' \in Seq(Message)
      /\ history' = history \o batch
      /\ UNCHANGED << epoch, sess, heard, join, shown >>
  BY <1>1 DEF Relays, TypeOK, ServerTypeOK, Session, clientVars
<1>3. \A k \in DOMAIN batch : batch[k].src = s[1] /\ batch[k] \in Message
  BY <1>1, <1>2, BatchIsNewer, MessageElements
<1>4. /\ Len(batch) = n /\ Len(history) \in Nat /\ DOMAIN history = 1 .. Len(history)
      /\ Len(history') = Len(history) + n
  <2>1. Len(batch) = n
    BY <1>2, LenProperties
  <2>2. Len(history \o batch) = Len(history) + Len(batch)
    BY <1>2, ConcatElements
  <2>3. QED
    BY <1>2, <2>1, <2>2, LenProperties
<1>5. Len(history') > Len(history)
  BY <1>2, <1>4
<1>6. SubSeq(history', 1, Len(history)) = history
  <2>1. CASE Len(history) = 0
    <3>1. SubSeq(history', 1, 0) = << >>
      BY SubSeqEmpty
    <3>2. history = << >>
      BY <1>2, <2>1, EmptySeq
    <3>3. QED
      BY <2>1, <3>1, <3>2
  <2>2. CASE Len(history) # 0
    <3>1. 1 \in 1 .. Len(history) /\ Len(history) \in 1 .. Len(history)
      BY <1>4, <2>2
    <3>2. SubSeq(history \o batch, 1, Len(history)) = SubSeq(history, 1, Len(history))
      BY <1>2, <3>1, SubSeqOfConcat1
    <3>3. SubSeq(history, 1, Len(history)) = history
      BY <1>2, SubSeqFull
    <3>4. QED
      BY <1>2, <3>2, <3>3
  <2>3. QED
    BY <2>1, <2>2
<1>7. \A i \in DOMAIN history' : i > Len(history) => history'[i] \in Message /\ history'[i].src = s[1]
  <2>1. \A i \in DOMAIN (history \o batch) :
          \/ i \in DOMAIN history
          \/ i - Len(history) \in DOMAIN batch /\ (history \o batch)[i] = batch[i - Len(history)]
    BY <1>2, ConcatElements
  <2>2. QED
    BY <1>2, <1>3, <1>4, <2>1
<1>8. Room!Numbered(history')
  BY DEF RelayInv, Room!Numbered
<1>9. \A h \in DOMAIN history : h \in DOMAIN history' /\ history'[h] = history[h]
  BY <1>2, ConcatElements
<1>10. \A c \in Client : AcceptedNow(c)' = AcceptedNow(c)
  BY <1>2 DEF AcceptedNow, Current
<1>11. ASSUME NEW c \in Client, AcceptedNow(c)
       PROVE  LastHeard(c)' = LastHeard(c)
  <2> DEFINE t == Current(c)
  <2>1. t \in Session /\ t' = t /\ heard'[t] = heard[t] /\ join'[t] = join[t]
    BY <1>2, <1>11, CurrentIsSession DEF AcceptedNow, Current
  <2>2. CASE heard[t] = 0
    BY <2>1, <2>2 DEF LastHeard
  <2>3. CASE heard[t] # 0
    <3>1. heard[t] \in Nat /\ heard[t] <= Len(down[t])
      BY <2>1 DEF SessionInv, TypeOK, TcpTypeOK
    <3> HIDE DEF t
    <3>2. heard[t] \in DOMAIN down[t] /\ down'[t][heard[t]] = down[t][heard[t]]
      <4>1. /\ DOMAIN down[t] = 1 .. Len(down[t]) /\ Len(down[t]) \in Nat
            /\ \A i \in DOMAIN down[t] : down'[t][i] = down[t][i]
        BY <1>1, <2>1, DownElements
      <4>2. heard[t] \in DOMAIN down[t]
        BY <2>3, <3>1, <4>1
      <4>3. QED
        BY <4>1, <4>2
    <3>3. PICK h \in DOMAIN history : history[h] = down[t][heard[t]]
      BY <2>1, <3>2 DEF DownInv
    <3>4. PlaceIn(history, history[h]) = h
      BY <1>2, PlaceOf DEF RelayInv
    <3>5. PlaceIn(history', history'[h]) = h
      <4>1. h \in DOMAIN history'
        BY <1>9
      <4>2. \A i, j \in DOMAIN history' :
              i < j /\ history'[i].src = history'[j].src => history'[i].seq < history'[j].seq
        BY DEF RelayInv
      <4>3. QED
        BY <1>2, <4>1, <4>2, PlaceOf
    <3>6. history'[h] = down'[t][heard[t]]
      BY <1>9, <3>2, <3>3
    <3>7. LastHeard(c) = h
      BY <2>3, <3>3, <3>4 DEF LastHeard, t
    <3>8. LastHeard(c)' = h
      BY <2>1, <2>3, <3>5, <3>6 DEF LastHeard, t
    <3>9. QED
      BY <3>7, <3>8
  <2>4. QED
    BY <2>2, <2>3
<1>12. Members' = Members
  BY <1>10 DEF Members
<1>13. Cursors' = Cursors
  BY <1>10, <1>11 DEF Cursors
<1>14. Room!Post(s[1])
  BY <1>2, <1>5, <1>6, <1>7, <1>8, <1>12, <1>13 DEF Room!Post
<1>15. QED
  BY <1>2, <1>14 DEF Room!RoomNext

(* OnRecvMessage: the client reads on.                                     *)
LEMMA RecvIsReading ==
  ASSUME TypeOK, ConnInv, SessionInv, RelayInv, ReadInv,
         NEW c \in Client, OnRecvMessage(c), UNCHANGED serverVars
  PROVE  Room!RoomNext
<1> DEFINE s == Current(c)
<1>1. PICK n \in Nat, news \in Seq(Message) :
        /\ n > 0 /\ heard[s] + n <= Len(down[s])
        /\ heard' = [heard EXCEPT ![s] = @ + n]
        /\ shown' = [shown EXCEPT ![c] = @ \o news]
        /\ DOMAIN news = 1 .. n
        /\ \A k \in 1 .. n : heard[s] + k \in DOMAIN down[s] /\ news[k] = down[s][heard[s] + k]
  BY RecvReads
<1>2. /\ s \in Session /\ epoch[c] > 0
      /\ UNCHANGED << history, epoch, sess, down, join >>
  <2>1. s \in Session
    BY ConnectedHasSession DEF OnRecvMessage, Attached
  <2>2. epoch[c] > 0
    BY <2>1, MaxFaultsAssumption DEF Session, Current
  <2>3. QED
    BY <2>1, <2>2 DEF OnRecvMessage, serverVars
<1>3. /\ heard \in [Session -> Nat] /\ down[s] \in Seq(Message) /\ shown \in [Client -> Seq(Message)]
      /\ sess[s] \in SessState /\ join[s] \in Nat /\ Len(history) \in Nat
  BY <1>2, LenProperties DEF TypeOK, TcpTypeOK, ClientTypeOK, ServerTypeOK
<1>4. AcceptedNow(c)
  <2>1. 1 \in 1 .. n
    BY <1>1
  <2>2. down[s] # << >>
    BY <1>1, <2>1
  <2>3. sess[s] \notin {"free", "syn", "acked"}
    BY <1>2, <2>2 DEF ReadInv, Served
  <2>4. QED
    BY <1>2, <1>3, <2>3 DEF AcceptedNow, SessState
<1>5. PICK e \in join[s] .. Len(history) : \E at : Places(at, down[s], history, c, join[s], e)
  <2>1. s[1] = c /\ \E e \in join[s] .. Len(history) : Delivered(s, e)
    BY <1>4, AcceptedSession
  <2>2. QED
    BY <2>1, ReadsPlaces DEF Delivered
<1>6. PICK at : Places(at, down[s], history, c, join[s], e)
  BY <1>5
<1>7. e \in Nat /\ e <= Len(history)
  BY <1>3
<1> HIDE DEF s
<1> DEFINE start == IF heard[s] = 0 THEN join[s] ELSE at[heard[s]]
           last == at[heard[s] + n]
<1>8. last \in start + 1 .. e /\ Reads(news, history, c, start, last)
  <2>1. PICK a, q, from : a = heard[s] /\ q = down[s] /\ from = start
    OBVIOUS
  <2>2. /\ q \in Seq(Message) /\ a \in Nat /\ join[s] \in Nat
        /\ n > 0 /\ a + n <= Len(q) /\ DOMAIN news = 1 .. n
        /\ \A k \in 1 .. n : news[k] = q[a + k]
        /\ Places(at, q, history, c, join[s], e)
    BY <1>1, <1>2, <1>3, <1>6, <2>1
  <2>3. from = IF a = 0 THEN join[s] ELSE at[a]
    BY <2>1
  <2>4. Reads(news, history, c, from, at[a + n])
    BY <1>7, <2>2, <2>3, ReadsSlice
  <2>5. at[a + n] \in from + 1 .. e
    <3>1. /\ a + n \in DOMAIN q
          /\ a # 0 => a \in DOMAIN q /\ a < a + n
      BY <2>2, LenProperties
    <3>2. at[a + n] \in join[s] + 1 .. e
      BY <2>2, <3>1 DEF Places
    <3>3. a # 0 => at[a] \in join[s] + 1 .. e /\ at[a] < at[a + n]
      BY <2>2, <3>1 DEF Places
    <3>4. QED
      BY <1>7, <2>2, <2>3, <3>2, <3>3
  <2>6. QED
    BY <2>1, <2>4, <2>5
<1>9. LastHeard(c) = start
  <2>1. CASE heard[s] = 0
    BY <2>1 DEF LastHeard, s
  <2>2. CASE heard[s] # 0
    <3>1. heard[s] \in DOMAIN down[s]
      <4>1. heard[s] \in Nat /\ heard[s] <= Len(down[s]) /\ DOMAIN down[s] = 1 .. Len(down[s])
        BY <1>2, <1>3, LenProperties DEF SessionInv
      <4>2. QED
        BY <2>2, <4>1
    <3>2. PlaceIn(history, down[s][heard[s]]) = at[heard[s]]
      BY <1>2, <1>6, <1>7, <3>1, CursorIs
    <3>3. QED
      BY <2>2, <3>2 DEF LastHeard, s
  <2>3. QED
    BY <2>1, <2>2
<1>10. LastHeard(c)' = last
  <2>1. heard[s] + n \in DOMAIN down[s] /\ heard'[s] = heard[s] + n /\ heard'[s] # 0
    <3>1. n \in 1 .. n
      BY <1>1
    <3>2. heard'[s] = heard[s] + n
      BY <1>1, <1>2, <1>3
    <3>3. QED
      BY SMTT(30), <1>1, <1>2, <1>3, <3>1, <3>2
  <2>2. PlaceIn(history, down[s][heard[s] + n]) = last
    BY ZenonT(30), <1>2, <1>6, <1>7, <2>1, CursorIs
  <2>3. s' = s
    BY <1>2 DEF s, Current
  <2>4. QED
    BY <1>2, <2>1, <2>2, <2>3 DEF LastHeard, s
<1> HIDE DEF start, last
<1>11. \A d \in Client : AcceptedNow(d)' = AcceptedNow(d)
  BY <1>2 DEF AcceptedNow, Current
<1>12. \A d \in Client : d # c => LastHeard(d)' = LastHeard(d)
  <2>1. ASSUME NEW d \in Client, d # c
        PROVE  LastHeard(d)' = LastHeard(d)
    <3>1. Current(d)' = Current(d) /\ Current(d) # s
      BY <1>2, <2>1 DEF s, Current
    <3>2. heard'[Current(d)] = heard[Current(d)]
      BY <1>1, <1>3, <3>1
    <3>3. QED
      BY <1>2, <3>1, <3>2 DEF LastHeard
  <2>2. QED
    BY <2>1
<1>13. Members' = Members
  BY <1>11 DEF Members
<1>14. Cursors' = [Cursors EXCEPT ![c] = last] /\ Cursors[c] = start
  BY <1>4, <1>9, <1>10, <1>11, <1>12 DEF Cursors
<1>15. /\ shown'[c] = shown[c] \o news
       /\ SubSeq(shown'[c], Len(shown[c]) + 1, Len(shown'[c])) = news
  <2>1. shown'[c] = shown[c] \o news /\ shown[c] \in Seq(Message)
    BY <1>1, <1>3
  <2>2. Len(news) = n /\ Len(shown[c]) \in Nat /\ Len(shown[c] \o news) = Len(shown[c]) + Len(news)
    BY <1>1, <2>1, ConcatElements, LenProperties
  <2>3. /\ Len(shown[c]) + 1 \in Len(shown[c]) + 1 .. Len(shown[c]) + Len(news)
        /\ Len(shown[c]) + Len(news) \in Len(shown[c]) + 1 .. Len(shown[c]) + Len(news)
        /\ (Len(shown[c]) + 1) - Len(shown[c]) = 1
        /\ (Len(shown[c]) + Len(news)) - Len(shown[c]) = Len(news)
    BY <1>1, <2>2
  <2>4. SubSeq(shown[c] \o news, Len(shown[c]) + 1, Len(shown[c]) + Len(news)) =
          SubSeq(news, (Len(shown[c]) + 1) - Len(shown[c]), (Len(shown[c]) + Len(news)) - Len(shown[c]))
    BY <2>1, <2>3, SubSeqOfConcat2
  <2>5. SubSeq(news, 1, Len(news)) = news
    BY SubSeqFull
  <2>6. QED
    BY <2>1, <2>2, <2>3, <2>4, <2>5
<1>16. last \in Cursors[c] + 1 .. Len(history)
  <2>1. start \in Nat
    <3>1. heard[s] # 0 => start \in join[s] + 1 .. e
      <4>1. heard[s] # 0 => heard[s] \in DOMAIN down[s]
        <5>1. heard[s] \in Nat /\ heard[s] <= Len(down[s]) /\ DOMAIN down[s] = 1 .. Len(down[s])
          BY <1>2, <1>3, LenProperties DEF SessionInv
        <5>2. QED
          BY <5>1
      <4>2. QED
        BY <1>6, <4>1 DEF start, Places
    <3>2. QED
      BY <1>3, <3>1 DEF start
  <2>2. QED
    BY <1>3, <1>7, <1>8, <1>14, <2>1
<1>17. Room!Reads(news, history, c, Cursors[c], last)
  BY <1>8, <1>14 DEF Reads, Room!Reads
<1>18. shown' = [shown EXCEPT ![c] = @ \o SubSeq(shown'[c], Len(shown[c]) + 1, Len(shown'[c]))]
  BY <1>1, <1>15
<1>19. Members[c]
  BY <1>4 DEF Members
<1>20. Room!Read(c)
  BY <1>2, <1>13, <1>14, <1>15, <1>16, <1>17, <1>18, <1>19 DEF Room!Read
<1>21. QED
  BY <1>20 DEF Room!RoomNext

LEMMA RoomStep ==
  ASSUME IInv, IInv', Next
  PROVE  Room!RoomNext \/ UNCHANGED Room!roomVars
<1>0. /\ TypeOK /\ ConnInv /\ SessionInv /\ SentInv /\ RelayInv /\ DownInv
      /\ HandshakeInv /\ ReadInv
      /\ TypeOK' /\ RelayInv'
  BY DEF IInv, CoreInv, RoomInv
<1>1. ASSUME NEW c \in Client, OnConnectionRequest(c), UNCHANGED clientVars
      PROVE  Room!RoomNext \/ UNCHANGED Room!roomVars
  BY <1>0, <1>1, RequestLeaves
<1>2. ASSUME NEW s \in Session, OnConnectionAccept(s), UNCHANGED clientVars
      PROVE  Room!RoomNext
  BY <1>0, <1>2, AcceptJoins
<1>3. ASSUME NEW s \in Session, RebroadcastIncomingMsg(s), UNCHANGED clientVars
      PROVE  Room!RoomNext
  BY <1>0, <1>3, RebroadcastPosts
<1>4. ASSUME ServerStart \/ ServerStop \/ (\E s \in Session : ServerOnError(s)),
             UNCHANGED clientVars
      PROVE  UNCHANGED Room!roomVars
  <2>1. UNCHANGED << history, shown, epoch, heard, down, join >>
    BY <1>4 DEF ServerStart, ServerStop, ServerOnError, serverVars, clientVars
  <2>2. \A t \in Session : \/ sess'[t] = sess[t]
                           \/ sess[t] \in {"open", "closed"} /\ sess'[t] \in {"closed", "dead"}
    <3>1. sess \in [Session -> SessState]
      BY <1>0 DEF TypeOK, TcpTypeOK
    <3>2. QED
      BY <1>4, <3>1 DEF ServerStart, ServerStop, ServerOnError
  <2>3. ASSUME NEW c \in Client
        PROVE  AcceptedNow(c)' <=> AcceptedNow(c)
    BY <1>0, <2>1, <2>2, CurrentIsSession, SessOnlyEnds
  <2>4. QED
    BY <2>1, <2>3, RoomStutters
<1>5. ASSUME NEW c \in Client, OnRecvMessage(c), UNCHANGED serverVars
      PROVE  Room!RoomNext
  BY <1>0, <1>5, RecvIsReading
<1>6. ASSUME NEW c \in Client, OnConnectSucceed(c), UNCHANGED serverVars
      PROVE  UNCHANGED Room!roomVars
  <2>1. UNCHANGED << history, shown, epoch, heard, down, join >>
    BY <1>6 DEF OnConnectSucceed, serverVars
  <2>2. \A t \in Session : \/ sess'[t] = sess[t]
                           \/ sess[t] = "syn" /\ sess'[t] = "acked"
    <3>1. sess \in [Session -> SessState] /\ sess[Current(c)] = "syn"
      BY <1>0, <1>6 DEF TypeOK, TcpTypeOK, OnConnectSucceed, HandshakeInv
    <3>2. QED
      BY <1>6, <3>1 DEF OnConnectSucceed
  <2>3. ASSUME NEW d \in Client
        PROVE  AcceptedNow(d)' <=> AcceptedNow(d)
    BY <1>0, <2>1, <2>2, CurrentIsSession, SessOnlyEnds
  <2>4. QED
    BY <2>1, <2>3, RoomStutters
<1>7. ASSUME NEW c \in Client, ClientNext(c), ~OnRecvMessage(c), ~OnConnectSucceed(c),
             UNCHANGED serverVars
      PROVE  UNCHANGED Room!roomVars
  <2>1. UNCHANGED << history, shown, epoch, heard, down, join, sess >>
    BY <1>7
    DEF ClientNext, StartApplication, RetryConnect, OnConnectFailed, OnShutdown, OnError,
        StopApplication, SendMessage, clientVars, serverVars
  <2>2. \A d \in Client : AcceptedNow(d)' <=> AcceptedNow(d)
    BY <2>1 DEF AcceptedNow, Current
  <2>3. QED
    BY <2>1, <2>2, RoomStutters
<1>8. QED
  BY <1>1, <1>2, <1>3, <1>4, <1>5, <1>6, <1>7 DEF Next, ServerRuns, ClientRuns, ServerNext

(* The chat is a chat room: each member reads the relayed messages in      *)
(* relay order from the moment it was accepted, without gaps, without its  *)
(* own and none of them twice, whatever breaks (OnConnectionAccept,        *)
(* RebroadcastIncomingMsg, OnRecvMessage and all that comes between).      *)
THEOREM ImplementsChatRoom == Spec => ChatRoomImplemented
<1>1. Init => Room!RoomInit
  <2> SUFFICES ASSUME Init PROVE Room!RoomInit
    OBVIOUS
  <2>1. \A c \in Client : AcceptedNow(c) = FALSE
    BY DEF Init, TcpInit, AcceptedNow
  <2>2. Members = [c \in Client |-> FALSE]
    BY <2>1 DEF Members
  <2>3. Cursors = [c \in Client |-> 0]
    BY <2>1 DEF Cursors
  <2>4. QED
    BY <2>2, <2>3 DEF Init, ServerInit, ClientInit, Room!RoomInit
<1>2. IInv /\ IInv' /\ [Next]_vars => [Room!RoomNext]_(Room!roomVars)
  <2>1. UNCHANGED vars => UNCHANGED Room!roomVars
    <3> SUFFICES ASSUME UNCHANGED vars PROVE UNCHANGED Room!roomVars
      OBVIOUS
    <3>1. UNCHANGED << history, shown, epoch, heard, down, join, sess >>
      BY DEF vars, tcpVars, serverVars, clientVars
    <3>2. \A d \in Client : AcceptedNow(d)' <=> AcceptedNow(d)
      BY <3>1 DEF AcceptedNow, Current
    <3>3. QED
      BY <3>1, <3>2, RoomStutters
  <2>2. QED
    BY <2>1, RoomStep
<1>3. QED
  BY <1>1, <1>2, InvariantHolds, PTL DEF Spec, ChatRoomImplemented, Room!RoomSpec
-----------------------------------------------------------------------------
(* Among some places of a sequence there is a last one.                    *)
LEMMA LastPlace ==
  ASSUME NEW n \in Nat, NEW X, X \subseteq 1 .. n, X # {}
  PROVE  \E i \in X : \A j \in X : j <= i
<1> DEFINE below == { n - i : i \in X }
<1>1. below \subseteq Nat /\ below # {}
  <2>1. \A i \in X : i \in Nat /\ i <= n
    OBVIOUS
  <2>2. \A i \in X : n - i \in Nat
    BY <2>1
  <2>3. PICK i \in X : TRUE
    OBVIOUS
  <2>4. n - i \in below
    OBVIOUS
  <2>5. QED
    BY <2>2, <2>4
<1>2. PICK b \in below : \A a \in below : ~(<< a, b >> \in OpToRel(<, Nat))
  <2>1. IsWellFoundedOn(OpToRel(<, Nat), Nat)
    BY NatLessThanWellFounded
  <2>2. QED
    BY <1>1, <2>1, WFMin
<1>3. \A a \in below : ~(a < b)
  BY <1>1, <1>2 DEF OpToRel
<1>4. PICK i \in X : b = n - i
  OBVIOUS
<1>5. ASSUME NEW j \in X
      PROVE  j <= i
  <2>1. ~(n - j < n - i)
    BY <1>3, <1>4
  <2>2. i \in Nat /\ j \in Nat
    OBVIOUS
  <2>3. QED
    BY <2>1, <2>2
<1>6. QED
  BY <1>5

(* What the listeners were last told is the last that was read.            *)
LEMMA LastFiredIs ==
  ASSUME NEW q \in Seq(Message), NEW p
  PROVE  \/ (\A i \in DOMAIN q : q[i].src # p) /\ LastFired(q, p) = 0
         \/ \E i \in DOMAIN q : /\ q[i].src = p /\ LastFired(q, p) = q[i].seq + 1
                                /\ \A j \in DOMAIN q : q[j].src = p => j <= i
<1>1. CASE ReadOf(q, p) = {}
  BY <1>1 DEF ReadOf, LastFired
<1>2. CASE ReadOf(q, p) # {}
  <2> DEFINE i == CHOOSE i \in ReadOf(q, p) : \A j \in ReadOf(q, p) : j <= i
  <2>1. ReadOf(q, p) \subseteq 1 .. Len(q) /\ Len(q) \in Nat
    BY MessageElements DEF ReadOf
  <2>2. \E k \in ReadOf(q, p) : \A j \in ReadOf(q, p) : j <= k
    BY <1>2, <2>1, LastPlace
  <2>3. i \in ReadOf(q, p) /\ \A j \in ReadOf(q, p) : j <= i
    BY <2>2
  <2>4. LastFired(q, p) = q[i].seq + 1
    BY <1>2 DEF LastFired
  <2> HIDE DEF i
  <2>5. QED
    BY <2>3, <2>4 DEF ReadOf
<1>3. QED
  BY <1>1, <1>2

(* OnRecvMessage: the numbers of a sender only go up, and they do not run  *)
(* ahead of the sender.                                                    *)
LEMMA RecvReceives ==
  ASSUME TypeOK, ConnInv, TypeOK', ShownInv', RelayInv',
         NEW c \in Client, OnRecvMessage(c), UNCHANGED serverVars
  PROVE  Traces!Receive(c)
<1>1. PICK n \in Nat, news \in Seq(Message) : shown' = [shown EXCEPT ![c] = @ \o news]
  BY RecvReads
<1>2. /\ shown \in [Client -> Seq(Message)] /\ shown'[c] = shown[c] \o news
      /\ shown'[c] \in Seq(Message) /\ UNCHANGED << curMsgId, history >>
      /\ curMsgId \in [Client -> Nat] /\ history \in Seq(Message)
  BY <1>1 DEF TypeOK, ClientTypeOK, ServerTypeOK, OnRecvMessage, serverVars
<1>3. \A m \in Client \ {c} : Fired'[m] = Fired[m]
  BY <1>1, <1>2 DEF Fired
<1>4. Fired[c][c] = curMsgId[c] /\ Fired'[c][c] = curMsgId[c]
  BY <1>2 DEF Fired
<1>5. ASSUME NEW p \in Client
      PROVE  Fired[c][p] <= Fired'[c][p] /\ Fired'[c][p] <= curMsgId[p]
  <2>1. CASE p = c
    BY <1>2, <1>4, <2>1
  <2>2. CASE p # c
    <3>1. /\ Fired[c][p] = LastFired(shown[c], p)
          /\ Fired'[c][p] = LastFired(shown'[c], p)
      BY <2>2 DEF Fired
    <3>2. /\ \A i \in DOMAIN shown[c] : i \in DOMAIN shown'[c] /\ shown'[c][i] = shown[c][i]
          /\ \A i \in DOMAIN shown'[c] : i \in Nat /\ shown'[c][i].seq \in Nat
      <4>1. shown[c] \in Seq(Message) /\ news \in Seq(Message)
        BY <1>2
      <4>2. \A i \in DOMAIN shown[c] : /\ i \in DOMAIN (shown[c] \o news)
                                       /\ (shown[c] \o news)[i] = shown[c][i]
        BY <4>1, ConcatElements
      <4>3. \A i \in DOMAIN shown'[c] : i \in Nat /\ shown'[c][i].seq \in Nat
        BY <1>2, MessageElements
      <4>4. QED
        BY <1>2, <4>2, <4>3
    <3>3. CASE \A i \in DOMAIN shown'[c] : shown'[c][i].src # p
      <4>1. LastFired(shown'[c], p) = 0
        BY <1>2, <3>3, LastFiredIs
      <4>2. LastFired(shown[c], p) = 0
        BY <1>2, <3>2, <3>3, LastFiredIs
      <4>3. QED
        BY <1>2, <3>1, <4>1, <4>2
    <3>4. CASE \E i \in DOMAIN shown'[c] : shown'[c][i].src = p
      <4>1. PICK j \in DOMAIN shown'[c] :
              /\ shown'[c][j].src = p /\ LastFired(shown'[c], p) = shown'[c][j].seq + 1
              /\ \A i \in DOMAIN shown'[c] : shown'[c][i].src = p => i <= j
        <5>1. PICK q \in Seq(Message) : q = shown'[c]
          BY <1>2
        <5>2. \/ (\A i \in DOMAIN q : q[i].src # p) /\ LastFired(q, p) = 0
              \/ \E i \in DOMAIN q : /\ q[i].src = p /\ LastFired(q, p) = q[i].seq + 1
                                     /\ \A j \in DOMAIN q : q[j].src = p => j <= i
          BY LastFiredIs
        <5>3. QED
          BY <3>4, <5>1, <5>2
      <4>2. LastFired(shown[c], p) <= LastFired(shown'[c], p)
        <5>1. CASE LastFired(shown[c], p) = 0
          BY <3>2, <4>1, <5>1
        <5>2. CASE LastFired(shown[c], p) # 0
          <6>1. PICK i \in DOMAIN shown[c] :
                  shown[c][i].src = p /\ LastFired(shown[c], p) = shown[c][i].seq + 1
            BY <1>2, <5>2, LastFiredIs
          <6>2. i \in DOMAIN shown'[c] /\ shown'[c][i] = shown[c][i] /\ i <= j
            BY <3>2, <4>1, <6>1
          <6>3. i < j => shown'[c][i].seq < shown'[c][j].seq
            BY <4>1, <6>1, <6>2 DEF ShownInv, ShownTo
          <6>4. shown'[c][i].seq \in Nat /\ shown'[c][j].seq \in Nat /\ i \in Nat /\ j \in Nat
            BY <3>2, <6>2
          <6>5. shown'[c][i].seq <= shown'[c][j].seq
            BY <6>2, <6>3, <6>4
          <6>6. QED
            BY <4>1, <6>1, <6>2, <6>4, <6>5
        <5>3. QED
          BY <5>1, <5>2
      <4>3. LastFired(shown'[c], p) <= curMsgId[p]
        <5>1. PICK h \in DOMAIN history' : history'[h] = shown'[c][j]
          BY DEF ShownInv, ShownTo
        <5>2. history'[h].seq < curMsgId'[p]
          BY <4>1, <5>1 DEF RelayInv
        <5>3. QED
          BY <1>2, <3>2, <4>1, <5>1, <5>2
      <4>4. QED
        BY <3>1, <4>2, <4>3
    <3>5. QED
      BY <3>3, <3>4
  <2>3. QED
    BY <2>1, <2>2
<1>6. QED
  BY <1>2, <1>3, <1>4, <1>5 DEF Traces!Receive

LEMMA TracesStep ==
  ASSUME IInv, IInv', Next
  PROVE  Traces!TracesNext \/ UNCHANGED Traces!traceVars
<1>0. TypeOK /\ ConnInv /\ TypeOK' /\ RelayInv' /\ ShownInv'
  BY DEF IInv, CoreInv, RoomInv
<1>1. ASSUME NEW c \in Client, OnRecvMessage(c), UNCHANGED serverVars
      PROVE  Traces!TracesNext
  BY <1>0, <1>1, RecvReceives DEF Traces!TracesNext
<1>2. CASE UNCHANGED << curMsgId, shown >>
  BY <1>2 DEF Fired, Traces!traceVars
<1>3. ASSUME NEW c \in Client, UNCHANGED shown, curMsgId' = [curMsgId EXCEPT ![c] = @ + 1]
      PROVE  Traces!TracesNext
  <2>1. curMsgId \in [Client -> Nat]
    BY <1>0 DEF TypeOK, ClientTypeOK
  <2>2. Fired' = [Fired EXCEPT ![c][c] = curMsgId[c] + 1]
    <3>1. ASSUME NEW n \in Client, NEW p \in Client
          PROVE  Fired'[n][p] = [Fired EXCEPT ![c][c] = curMsgId[c] + 1][n][p]
      BY <1>3, <2>1 DEF Fired
    <3>2. QED
      BY <3>1 DEF Fired
  <2>3. QED
    BY <1>3, <2>2 DEF Traces!TracesNext, Traces!Generate
<1>4. CASE ServerRuns(ServerNext)
  BY <1>2, <1>4 DEF ServerRuns, clientVars
<1>5. ASSUME NEW c \in Client, ClientRuns(ClientNext(c))
      PROVE  Traces!TracesNext \/ UNCHANGED Traces!traceVars
  <2>1. CASE OnRecvMessage(c)
    BY <1>1, <1>5, <2>1 DEF ClientRuns
  <2>2. CASE SendMessage(c)
    BY <1>2, <1>3, <2>2 DEF SendMessage
  <2>3. CASE ~OnRecvMessage(c) /\ ~SendMessage(c)
    BY <1>2, <1>5, <2>3
    DEF ClientRuns, ClientNext, StartApplication, RetryConnect, OnConnectSucceed,
        OnConnectFailed, OnShutdown, OnError, StopApplication, clientVars
  <2>4. QED
    BY <2>1, <2>2, <2>3
<1>6. QED
  BY <1>4, <1>5 DEF Next

(* No listener is ever told of a number that was not generated or that is  *)
(* older than the last one of the same sender (SendMessage,                *)
(* OnRecvMessage).                                                         *)
THEOREM ImplementsTraces == Spec => TracesImplemented
<1>1. Init => Traces!TracesInit
  <2> SUFFICES ASSUME Init PROVE Traces!TracesInit
    OBVIOUS
  <2>1. << >> \in Seq(Message) /\ DOMAIN << >> = {}
    OBVIOUS
  <2>2. \A p \in Client : LastFired(<< >>, p) = 0
    BY <2>1, LastFiredIs
  <2>3. Fired = [n \in Client |-> [p \in Client |-> 0]]
    BY <2>2 DEF Init, ClientInit, Fired
  <2>4. QED
    BY <2>3 DEF Init, ClientInit, Traces!TracesInit
<1>2. IInv /\ IInv' /\ [Next]_vars => [Traces!TracesNext]_(Traces!traceVars)
  <2>1. UNCHANGED vars => UNCHANGED Traces!traceVars
    BY DEF vars, clientVars, Fired, Traces!traceVars
  <2>2. QED
    BY <2>1, TracesStep
<1>3. QED
  BY <1>1, <1>2, InvariantHolds, PTL DEF Spec, TracesImplemented, Traces!TracesSpec
=============================================================================
