---------------------------- MODULE MessageInput ----------------------------
(***************************************************************************)
(* The message schedule that every chat application of a run reads.  The   *)
(* input file lists, after a header and a line count, one line per message *)
(* of the whole experiment: the id of the client that must send it, the    *)
(* absolute time, the size.  Each application walks through the whole file *)
(* with a private file position and picks the lines that carry its own id. *)
(*                                                                         *)
(* Abstraction: a line is its index; only its id is kept.  The times only  *)
(* order the lines, and the file is written in time order, so the index    *)
(* stands for the time; the size is the business of module MucFraming.     *)
(***************************************************************************)
EXTENDS Naturals, Sequences, FiniteSets

CONSTANTS
  Client,   \* ids of the chat applications (m_id)
  Input     \* the lines after the header: Input[i] is the id on line i

ASSUME InputAssumption == Input \in Seq(Client)

Line == 1 .. Len(Input)

(* The own lines of c behind file position p: those its next scans will    *)
(* still find.                                                             *)
OwnLinesAfter(c, p) == { i \in Line : i > p /\ Input[i] = c }

OwnLinesUpTo(c, p) == { i \in Line : i <= p /\ Input[i] = c }

(* i is the line at which the do-while scan of ScheduleNextMessage stops   *)
(* when it starts behind position p.                                       *)
IsNextOwnLine(c, p, i) ==
  /\ i \in OwnLinesAfter(c, p)
  /\ \A j \in OwnLinesAfter(c, p) : i <= j
=============================================================================
