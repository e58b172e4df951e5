------------------------------ MODULE ChatRoom ------------------------------
(***************************************************************************)
(* What the centralised chat promises, without sockets: one shared log,    *)
(* and members that read it.  A member sees the log from the moment it     *)
(* joined, in log order, without gaps and without its own messages.  It    *)
(* may leave at any time and join again later; it then misses what was     *)
(* posted while it was away, and nothing is shown to it twice.             *)
(***************************************************************************)
EXTENDS Naturals, Sequences, LogReader

CONSTANTS Client, Message

VARIABLES
  log,      \* the messages posted so far, each with an author and a number
  member,   \* member[c]: c has joined
  cursor,   \* cursor[c]: how much of the log c has gone through
  view      \* view[c]: everything that was ever shown to c

roomVars == << log, member, cursor, view >>

RoomInit ==
  /\ log = << >>
  /\ member = [c \in Client |-> FALSE]
  /\ cursor = [c \in Client |-> 0]
  /\ view = [c \in Client |-> << >>]

(* An author numbers its messages upwards.                                 *)
Numbered(posts) ==
  \A i, j \in DOMAIN posts :
    i < j /\ posts[i].src = posts[j].src => posts[i].seq < posts[j].seq

(* c posts one or more messages.                                           *)
Post(c) ==
  /\ Len(log') > Len(log)
  /\ SubSeq(log', 1, Len(log)) = log
  /\ \A i \in DOMAIN log' : i > Len(log) => log'[i] \in Message /\ log'[i].src = c
  /\ Numbered(log')
  /\ UNCHANGED << member, cursor, view >>

Join(c) ==
  /\ ~member[c]
  /\ member' = [member EXCEPT ![c] = TRUE]
  /\ cursor' = [cursor EXCEPT ![c] = Len(log)]
  /\ UNCHANGED << log, view >>

Leave(c) ==
  /\ member[c]
  /\ member' = [member EXCEPT ![c] = FALSE]
  /\ cursor' = [cursor EXCEPT ![c] = 0]
  /\ UNCHANGED << log, view >>

(* c goes on reading, up to log position p.                                *)
Read(c) ==
  LET news == SubSeq(view'[c], Len(view[c]) + 1, Len(view'[c])) IN
  \E p \in cursor[c] + 1 .. Len(log) :
    /\ member[c]
    /\ cursor' = [cursor EXCEPT ![c] = p]
    /\ Reads(news, log, c, cursor[c], p)
    /\ view' = [view EXCEPT ![c] = @ \o news]
    /\ UNCHANGED << log, member >>

RoomNext == \E c \in Client : Post(c) \/ Join(c) \/ Leave(c) \/ Read(c)

RoomSpec == RoomInit /\ [][RoomNext]_roomVars
=============================================================================
