------------------------ MODULE MucFramingRefinement ------------------------
(***************************************************************************)
(* The chat on the level of words implements the ChatRoom, as StandardMuc  *)
(* does on the level of messages: StandardMuc may take messages out of its *)
(* streams whole.  A full buffer makes a gap, which the room does not      *)
(* know, so a connection counts up to its first gap.                       *)
(*                                                                         *)
(*   log      the headers that the server has relayed                      *)
(*   member   the listener, on a connection that began at a header         *)
(*   cursor   where that connection began, and what was shown on it        *)
(*   view     what was shown on all connections                            *)
(***************************************************************************)
EXTENDS MucFraming

CONSTANT Listener

ASSUME ListenerAssumption == Listener \notin Sender

Everyone == Sender \union {Listener}

Member == attached /\ Aligned

Members == [c \in Everyone |-> c = Listener /\ Member]

Cursors == [c \in Everyone |-> IF c = Listener /\ Member THEN since.log + Len(Shown) ELSE 0]

Views ==
  [c \in Everyone |->
     IF c # Listener THEN << >> ELSE IF Member THEN earlier \o Shown ELSE earlier]

Room == INSTANCE ChatRoom WITH
  Client  <- Everyone,
  Message <- [src : Sender, seq : 0 .. MaxMessages - 1],
  log     <- Pairs(log),
  member  <- Members,
  cursor  <- Cursors,
  view    <- Views

(* Wherever deliveries end and whichever connection breaks, each callback  *)
(* posts the messages whose headers came with it, or shows the listener    *)
(* the next ones of the log, or does nothing; behind a message that was    *)
(* dropped, or on a connection that began in the middle of a body, nothing *)
(* counts, and the next connection that began at a header is exact again   *)
(* (RebroadcastIncomingMsg, OnRecvMessage).                                *)
RoomImplemented == Room!RoomSpec
=============================================================================
