----------------------------- MODULE TcpSockets -----------------------------
(***************************************************************************)
(* What standard-muc.cc relies on of the TCP sockets of the simulator.     *)
(* The sockets are library code: only what the two applications can        *)
(* observe through the callbacks they register is modelled.                *)
(*                                                                         *)
(*  - A connection is a session <<c, k>>: the k-th connection of client c. *)
(*    The client side of all sessions of c is one socket object (it is     *)
(*    handed to TryConnect again and again); on the server every session   *)
(*    has a fresh accepted socket.                                         *)
(*  - Both directions are FIFO streams.  A stream is the sequence of all   *)
(*    messages ever written to it, and the reader has a cursor, so that    *)
(*    what was read remains visible to the properties.  A stream that      *)
(*    breaks delivers a prefix.                                            *)
(*  - Links are FIFO: the SYN of a new session is not overtaken by         *)
(*    segments of the previous session of the same client, so the server   *)
(*    reads from the latest session of a client only.                      *)
(*  - A connection reports its end at most once, through the normal-close  *)
(*    or through the error callback.                                       *)
(*  - faults counts the events that the network or a peer may cause at     *)
(*    any time; MaxFaults bounds them.                                     *)
(***************************************************************************)
EXTENDS MessageInput

CONSTANT MaxFaults   \* bound: network faults in one behaviour

ASSUME MaxFaultsAssumption == MaxFaults \in Nat

VARIABLES
  conn,     \* conn[c]: state of the client's socket
  epoch,    \* epoch[c]: number of the latest session of c that reached the server
  sess,     \* sess[s]: state of the server's socket of session s
  errCb,    \* errCb[s]: the server's socket of s carries MucServer::OnError
  up,       \* up[s]: all messages written by the client on s
  taken,    \* taken[s]: how many of up[s] the server has read
  down,     \* down[s]: all messages written by the server on s
  heard,    \* heard[s]: how many of down[s] the client has read
  listening, \* the server's port has a listening socket
  faults    \* faults so far

tcpVars == << listening, conn, epoch, sess, errCb, up, taken, down, heard, faults >>

Session == Client \X (1 .. MaxFaults + 1)

Message == [src : Client, seq : Nat, line : Line]

ConnState == {"idle", "connecting", "handshake", "up", "closing", "waiting", "down"}
SessState == {"free", "syn", "acked", "open", "closed", "dead"}

TcpTypeOK ==
  /\ listening \in BOOLEAN
  /\ conn \in [Client -> ConnState]
  /\ epoch \in [Client -> 0 .. MaxFaults + 1]
  /\ sess \in [Session -> SessState]
  /\ errCb \in [Session -> BOOLEAN]
  /\ up \in [Session -> Seq(Message)]
  /\ taken \in [Session -> Nat]
  /\ down \in [Session -> Seq(Message)]
  /\ heard \in [Session -> Nat]
  /\ faults \in 0 .. MaxFaults

TcpInit ==
  /\ listening = FALSE
  /\ conn = [c \in Client |-> "idle"]
  /\ epoch = [c \in Client |-> 0]
  /\ sess = [s \in Session |-> "free"]
  /\ errCb = [s \in Session |-> FALSE]
  /\ up = [s \in Session |-> << >>]
  /\ taken = [s \in Session |-> 0]
  /\ down = [s \in Session |-> << >>]
  /\ heard = [s \in Session |-> 0]
  /\ faults = 0

(* The latest session of c: the one its socket object is, or was last, on. *)
Current(c) == << c, epoch[c] >>

(* The client's socket still exchanges data: a locally closed socket keeps *)
(* its receive callback until the close completes.                         *)
Attached(c) == conn[c] \in {"up", "closing"}

(* Something goes wrong that the applications did not cause.               *)
Fault ==
  /\ faults < MaxFaults
  /\ faults' = faults + 1

NoFault == UNCHANGED faults
=============================================================================
