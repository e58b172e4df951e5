----------------------------- MODULE MucFraming -----------------------------
(***************************************************************************)
(* How messages are cut out of TCP streams on the way from the senders     *)
(* over the server to a listener.  A message on the wire is a header of    *)
(* three words (client id, sequence number, body length) and a body of     *)
(* zeros; a stream has no message boundaries, so every reader counts the   *)
(* body words that are still to be skipped in m_bodyToRead.  The server    *)
(* keeps one counter per socket, a client has a single one.                *)
(*                                                                         *)
(* Abstraction: the unit of the streams is the 32-bit word; a delivery may *)
(* end after any word.  Senders do not read and there is one listener,     *)
(* because what a client reads is its own.  Connections are replaced, with *)
(* the loss of whatever was not delivered.  The send buffer of a socket    *)
(* (external) takes a packet as a whole or, when it is full, not at all;   *)
(* nobody looks at what Send returns.                                      *)
(***************************************************************************)
EXTENDS Integers, Sequences, FiniteSets, Functions, SequencesExt

CONSTANTS
  Sender,              \* the client ids of the senders
  BodyLengths,         \* the message sizes of the input file
  MaxMessages,         \* bound: messages of all senders
  SenderReconnects,    \* bound: how often a sender's connection is replaced
  ListenerReconnects,  \* bound: how often the listener's connection breaks
  MaxDrops             \* bound: packets that a full buffer does not take

ASSUME FramingAssumption ==
  /\ Sender \subseteq Nat /\ IsFiniteSet(Sender)
  /\ BodyLengths \subseteq Nat
  /\ {MaxMessages, SenderReconnects, ListenerReconnects, MaxDrops} \subseteq Nat

VARIABLES
  curMsgId,   \* curMsgId[c]: m_curMsgId of a sender
  upStream,   \* upStream[c]: words that c wrote on its present connection
  upRead,     \* upRead[c]: how many of them the server has consumed
  srvBody,    \* srvBody[c]: m_bodyToRead of the server, for the present socket of c
  attached,   \* the listener has a connection, and the server has accepted it
  downStream, \* words that the server wrote on it
  downRead,   \* how many of them the listener has consumed
  cliBody,    \* m_bodyToRead of the listener
  reported,   \* what the listener reported to SeqNoTrace on its present connection
  reconnects, \* counts the connections that broke
  drops,      \* counts the packets that were not taken
  written,    \* history variable: written[c]: the headers in upStream[c]
  relayed,    \* history variable: relayed[c]: the headers relayed of these
  log,        \* history variable: all headers ever relayed
  passedOn,   \* history variable: the headers in downStream
  since,      \* history variable: cliBody and Len(log) when the present connection began
  earlier     \* history variable: what was shown on earlier connections

upVars == << curMsgId, upStream, upRead, srvBody, written, relayed >>
listenerVars == << attached, downRead, cliBody, reported, since, earlier >>
downVars == << downStream, passedOn >>
vars == << upVars, listenerVars, downVars, log, reconnects, drops >>

HeaderSize == 3   \* GetSerializedSize, in words

(* A message as it is on the wire; Create<Packet> makes a body of zeros.   *)
Serialize(h) == << h.id, h.seq, h.length >> \o [i \in 1 .. h.length |-> 0]

(* The header in the words behind position p.                              *)
Deserialize(stream, p) ==
  [id |-> stream[p + 1], seq |-> stream[p + 2], length |-> stream[p + 3]]

(* ReadBody takes what it can of the body, up to the end of what arrived.  *)
Skipped(p, arrived, body) == IF body <= arrived - p THEN body ELSE arrived - p

(* A reader that is behind position p with body words to skip.             *)
ReadBody(p, arrived, body) ==
  [pos  |-> p + Skipped(p, arrived, body),
   body |-> body - Skipped(p, arrived, body)]

(* Mutant: a header that ends with the last word that is here is left.     *)
OneHeader_Greater(stream, arrived, reader) ==
  IF arrived - reader.pos <= HeaderSize THEN reader
  ELSE LET h == Deserialize(stream, reader.pos)
           r == ReadBody(reader.pos + HeaderSize, arrived, reader.body + h.length)
       IN  [pos |-> r.pos, body |-> r.body, headers |-> Append(reader.headers, h)]

(* The loop over the headers that are there completely: a reader that is   *)
(* behind position pos with body words to skip has decoded some headers.   *)
(* Each turn takes the words of a header, which bounds the turns.          *)
OneHeader(stream, arrived, reader) ==
  IF arrived - reader.pos < HeaderSize THEN reader
  ELSE LET h == Deserialize(stream, reader.pos)
           r == ReadBody(reader.pos + HeaderSize, arrived, reader.body + h.length)
       IN  [pos |-> r.pos, body |-> r.body, headers |-> Append(reader.headers, h)]

ReadHeaders(stream, arrived, p, body) ==
  LET Loop[turn \in Nat] ==
        IF turn = 0 THEN [pos |-> p, body |-> body, headers |-> << >>]
        ELSE OneHeader(stream, arrived, Loop[turn - 1])
  IN  Loop[arrived \div HeaderSize]

(* Mutant: the loop runs although the rest of a body is still to come.     *)
Receive_NoReadBody(stream, p, arrived, body) ==
  ReadHeaders(stream, arrived, p, body)

(* A receive callback when the first arrived words of the stream are here. *)
Receive(stream, p, arrived, body) ==
  LET r == ReadBody(p, arrived, body)
  IN  ReadHeaders(stream, arrived, r.pos, r.body)

Init ==
  /\ curMsgId = [c \in Sender |-> 0]
  /\ upStream = [c \in Sender |-> << >>]
  /\ upRead = [c \in Sender |-> 0]
  /\ srvBody = [c \in Sender |-> 0]
  /\ attached = FALSE
  /\ downStream = << >>
  /\ downRead = 0
  /\ cliBody = 0
  /\ reported = << >>
  /\ reconnects = [senders |-> 0, listener |-> 0]
  /\ drops = 0
  /\ written = [c \in Sender |-> << >>]
  /\ relayed = [c \in Sender |-> << >>]
  /\ log = << >>
  /\ passedOn = << >>
  /\ since = [body |-> 0, log |-> 0]
  /\ earlier = << >>

(* Of the packets that are sent one after the other the buffer takes some. *)
Taken(headers) ==
  { taken \in SUBSET DOMAIN headers :
      drops + Cardinality(DOMAIN headers \ taken) <= MaxDrops }

Drop(headers, taken) == drops' = drops + Cardinality(DOMAIN headers \ taken)

Kept(headers, taken) ==
  FlattenSeq([i \in DOMAIN headers |-> IF i \in taken THEN << headers[i] >> ELSE << >>])

OnTheWire(headers) == FlattenSeq([i \in DOMAIN headers |-> Serialize(headers[i])])

(* The message counts as sent and its number is used up, taken or not;     *)
(* m_curMsgId survives a reconnection.                                     *)
SendMessage(c) ==
  \E length \in BodyLengths :
    LET packet == << [id |-> c, seq |-> curMsgId[c], length |-> length] >> IN
    \E taken \in Taken(packet) :
      /\ SumFunction(curMsgId) < MaxMessages
      /\ Drop(packet, taken)
      /\ curMsgId' = [curMsgId EXCEPT ![c] = @ + 1]
      /\ written' = [written EXCEPT ![c] = @ \o Kept(packet, taken)]
      /\ upStream' = [upStream EXCEPT ![c] = @ \o OnTheWire(Kept(packet, taken))]
      /\ UNCHANGED << upRead, srvBody, relayed, listenerVars, downVars, log, reconnects >>

(* Mutant: when the buffer does not take all, everything is sent again.    *)
PassOn_SendsAgain(headers) ==
  \E taken \in Taken(headers) :
    LET again == IF taken = DOMAIN headers THEN << >> ELSE headers
    IN  /\ Drop(headers, taken)
        /\ passedOn' = passedOn \o Kept(headers, taken) \o again
        /\ downStream' = downStream \o OnTheWire(Kept(headers, taken) \o again)

(* The listener is written a message with a body of the length that the    *)
(* header names.                                                           *)
PassOn(headers) ==
  \E taken \in Taken(headers) :
    /\ Drop(headers, taken)
    /\ passedOn' = passedOn \o Kept(headers, taken)
    /\ downStream' = downStream \o OnTheWire(Kept(headers, taken))

(* Mutant: the server, too, has a single counter.                          *)
CountBody_Single(c, body) == srvBody' = [d \in Sender |-> body]

CountBody(c, body) == srvBody' = [srvBody EXCEPT ![c] = body]

(* The server relays a message as soon as its header is there.             *)
RebroadcastIncomingMsg(c) ==
  \E arrived \in upRead[c] + 1 .. Len(upStream[c]) :
    LET r == Receive(upStream[c], upRead[c], arrived, srvBody[c]) IN
    /\ upRead' = [upRead EXCEPT ![c] = r.pos]
    /\ CountBody(c, r.body)
    /\ relayed' = [relayed EXCEPT ![c] = @ \o r.headers]
    /\ log' = log \o r.headers
    /\ IF attached THEN PassOn(r.headers) ELSE UNCHANGED << downVars, drops >>
    /\ UNCHANGED << curMsgId, upStream, written, listenerVars, reconnects >>

(* SeqNoTrace is fired with the id and the number.                         *)
Pairs(headers) == [i \in DOMAIN headers |-> [src |-> headers[i].id, seq |-> headers[i].seq]]

OnRecvMessage ==
  \E arrived \in downRead + 1 .. Len(downStream) :
    LET r == Receive(downStream, downRead, arrived, cliBody) IN
    /\ attached
    /\ downRead' = r.pos
    /\ cliBody' = r.body
    /\ reported' = reported \o Pairs(r.headers)
    /\ UNCHANGED << upVars, attached, since, earlier, downVars, log, reconnects, drops >>

(* A sender's connection breaks and is replaced.  The server reads the new *)
(* one through a new socket, for which its map m_bodyToRead has no entry   *)
(* yet, so the count begins at 0.                                          *)
ReconnectSender(c) ==
  /\ reconnects.senders < SenderReconnects
  /\ reconnects' = [reconnects EXCEPT !.senders = @ + 1]
  /\ upStream' = [upStream EXCEPT ![c] = << >>]
  /\ upRead' = [upRead EXCEPT ![c] = 0]
  /\ srvBody' = [srvBody EXCEPT ![c] = 0]
  /\ written' = [written EXCEPT ![c] = << >>]
  /\ relayed' = [relayed EXCEPT ![c] = << >>]
  /\ UNCHANGED << curMsgId, listenerVars, downVars, log, drops >>

Aligned == since.body = 0

(* How many of the headers relayed since the connection began were passed  *)
(* on before the first that was dropped.                                   *)
Complete ==
  Cardinality({ i \in DOMAIN passedOn :
     /\ since.log + i <= Len(log)
     /\ SubSeq(passedOn, 1, i) = SubSeq(log, since.log + 1, since.log + i) })

(* What a listener reported of these.                                      *)
Shown == IF Aligned THEN SubSeq(reported, 1, Min({ Len(reported), Complete })) ELSE << >>

(* The listener's connection breaks.                                       *)
OnError ==
  /\ attached
  /\ reconnects.listener < ListenerReconnects
  /\ reconnects' = [reconnects EXCEPT !.listener = @ + 1]
  /\ attached' = FALSE
  /\ earlier' = earlier \o Shown
  /\ reported' = << >>
  /\ UNCHANGED << upVars, downRead, cliBody, since, downVars, log, drops >>

(* TryConnect and OnConnectSucceed, none of which touches m_bodyToRead,    *)
(* and OnConnectionAccept of the server.                                   *)
Connect ==
  /\ ~ attached
  /\ attached' = TRUE
  /\ since' = [body |-> cliBody, log |-> Len(log)]
  /\ downStream' = << >>
  /\ passedOn' = << >>
  /\ downRead' = 0
  /\ UNCHANGED << upVars, cliBody, reported, earlier, log, reconnects, drops >>

Next ==
  \/ \E c \in Sender : SendMessage(c)
  \/ \E c \in Sender : RebroadcastIncomingMsg(c)
  \/ OnRecvMessage
  \/ \E c \in Sender : ReconnectSender(c)
  \/ OnError
  \/ Connect

Spec == Init /\ [][Next]_vars
-----------------------------------------------------------------------------
(* What the server relays of a connection is what its sender wrote on it,  *)
(* from the beginning and in order, wherever the deliveries end, with the  *)
(* callbacks of several senders in between, and although connections are   *)
(* replaced in the middle of a body (RebroadcastIncomingMsg,               *)
(* MucServer::ReadBody).                                                   *)
RelaysWhatWasSent == \A c \in Sender : IsPrefix(relayed[c], written[c])

(* A listener reports exactly what was written for it on its connection,   *)
(* in order, unless the one before broke in the middle of a body           *)
(* (OnRecvMessage, MucClient::ReadBody).                                   *)
ReportsWhatWasRelayed == Aligned => IsPrefix(reported, Pairs(passedOn))

(* The headers of hs that lie completely in the first n words on the wire. *)
HeadersIn(hs, n) ==
  { k \in DOMAIN hs : Len(OnTheWire(SubSeq(hs, 1, k - 1))) + HeaderSize <= n }

(* A receive callback leaves no message behind.  Wherever a reader stands  *)
(* and wherever the delivery ends, in a header, at its end or in a body,   *)
(* the callback has decoded all messages of the connection whose header is *)
(* there, so that none waits for the next delivery, which may never come   *)
(* (RebroadcastIncomingMsg, OnRecvMessage, both ReadBody).                 *)
NothingLeftBehind ==
  /\ \A c \in Sender : \A arrived \in upRead[c] .. Len(upStream[c]) :
       LET r == Receive(upStream[c], upRead[c], arrived, srvBody[c])
       IN  Len(relayed[c]) + Len(r.headers) = Cardinality(HeadersIn(written[c], arrived))
  /\ attached /\ Aligned => \A arrived \in downRead .. Len(downStream) :
       LET r == Receive(downStream, downRead, arrived, cliBody)
       IN  Len(reported) + Len(r.headers) = Cardinality(HeadersIn(passedOn, arrived))

(* A full buffer leaves gaps in the numbers and nothing worse: on a        *)
(* connection that began at a header, the numbers reported of a sender go  *)
(* up, whatever was dropped on the way up and down.                        *)
OnlyGaps ==
  Aligned => \A i, j \in DOMAIN reported :
    i < j /\ reported[i].src = reported[j].src => reported[i].seq < reported[j].seq

(* Whatever a listener reports to SeqNoTrace is the id of a client and the *)
(* number of a message that this client sent.                              *)
TraceNamesMessages ==
  \A i \in DOMAIN reported :
    reported[i].src \in Sender /\ reported[i].seq < curMsgId[reported[i].src]
=============================================================================
