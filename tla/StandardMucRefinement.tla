------------------------ MODULE StandardMucRefinement ------------------------
(***************************************************************************)
(* The centralised chat of StandardMuc implements the ChatRoom.            *)
(*                                                                         *)
(*   log      what the server has relayed                                  *)
(*   member   the server has accepted the latest session of the client     *)
(*   cursor   the place in the relay order of the last message the client  *)
(*            has heard on that session, or where the session began        *)
(*   view     what the client has read on all of its sessions              *)
(***************************************************************************)
EXTENDS StandardMuc

AcceptedNow(c) == epoch[c] > 0 /\ sess[Current(c)] \in {"open", "closed", "dead"}

PlaceIn(log, m) == CHOOSE i \in DOMAIN log : log[i] = m

LastHeard(c) ==
  LET s == Current(c) IN
  IF heard[s] = 0 THEN join[s] ELSE PlaceIn(history, down[s][heard[s]])

Members == [c \in Client |-> AcceptedNow(c)]

Cursors == [c \in Client |-> IF AcceptedNow(c) THEN LastHeard(c) ELSE 0]

Room == INSTANCE ChatRoom WITH
  log    <- history,
  member <- Members,
  cursor <- Cursors,
  view   <- shown

(* The chat is a chat room: each step of the applications and the sockets  *)
(* posts a batch, lets one client join, leave or read on, or leaves the    *)
(* room as it is.                                                          *)
ChatRoomImplemented == Room!RoomSpec

(* The messages of p among those that were read, by place.                 *)
ReadOf(q, p) == { i \in DOMAIN q : q[i].src = p }

(* The last number of p that was read, plus one.                           *)
LastFired(q, p) ==
  IF ReadOf(q, p) = {} THEN 0
  ELSE LET last == CHOOSE i \in ReadOf(q, p) : \A j \in ReadOf(q, p) : j <= i
       IN  q[last].seq + 1

Fired == [n \in Client |-> [p \in Client |->
            IF p = n THEN curMsgId[n] ELSE LastFired(shown[n], p)]]

Traces == INSTANCE SeqNoTraces WITH
  App    <- Client,
  latest <- curMsgId,
  seen   <- Fired

(* StandardMuc fires its traces as SeqNoTraces says: no listener is ever   *)
(* told of a number that was not generated or that is older than the last, *)
(* whatever breaks in between (SendMessage, OnRecvMessage).                *)
TracesImplemented == Traces!TracesSpec
=============================================================================
