--------------------------- MODULE ChannelTracer ----------------------------
(***************************************************************************)
(* P2pChannelTracer (p2p-channel-tracer.h) in a run of sync-eval: packets  *)
(* and drops are counted per channel, PrintTraces writes a row for every   *)
(* channel with a count and clears the counters, every Period seconds,     *)
(* until the simulation stops and the destructor runs.                     *)
(*                                                                         *)
(* Abstraction: the columns that are the same in all rows of a run, and    *)
(* the two nodes of a channel, are left out.                               *)
(***************************************************************************)
EXTENDS Naturals, Sequences, FiniteSets, Functions, SequencesExt

CONSTANTS
  Channel,
  Period,       \* between two PrintTraces, 1000 s in sync-eval.cc
  SimTimes,     \* values of --simTime
  MaxPackets    \* bound: packets and drops of a run

ASSUME TracerAssumption ==
  Period \in Nat \ {0} /\ SimTimes \subseteq Nat \ {0} /\ MaxPackets \in Nat

Pkt == {"OK", "Drop"}            \* the column that tells the two maps apart

VARIABLES
  simTime,
  now,
  phase,          \* "run", "stopped", "destroyed"
  inChannels,     \* inChannels["OK"] is m_packetsInChannels, inChannels["Drop"] m_dropsInChannels:
                  \* a map from the channels with an entry to the counters get<2>, get<3>
  rows,           \* the rows of m_trace
  printAt,        \* when the scheduled PrintTraces is due
  traffic         \* history variable: what the channels reported, in order

vars == << simTime, now, phase, inChannels, rows, printAt, traffic >>

NoEntries == [c \in {} |-> [data |-> 0, interests |-> 0]]

(* The traces are connected, PrintTraces and the stop are scheduled.       *)
Init ==
  /\ simTime \in SimTimes
  /\ now = 0
  /\ phase = "run"
  /\ inChannels = [k \in Pkt |-> NoEntries]
  /\ rows = << >>
  /\ printAt = Period
  /\ traffic = << >>

(* Time passes up to the next event of the two below.                      *)
Tick ==
  /\ phase = "run"
  /\ now < simTime /\ now < printAt
  /\ now' = now + 1
  /\ UNCHANGED << simTime, phase, inChannels, rows, printAt, traffic >>

(* operator[] makes an entry of zeros.  Only get<2> is ever counted up, so *)
(* Interests are counted in the column of the Data.                        *)
CountPacket(k, c) ==
  inChannels' = [inChannels EXCEPT ![k] =
    [d \in DOMAIN @ \union {c} |->
       LET old == IF d \in DOMAIN @ THEN @[d] ELSE [data |-> 0, interests |-> 0]
       IN  IF d = c THEN [old EXCEPT !.data = @ + 1] ELSE old]]

(* P2pChannelTrace and DropChannelTrace, which differ in their map.        *)
ChannelTrace(k, c) ==
  /\ phase = "run"
  /\ Len(traffic) < MaxPackets
  /\ CountPacket(k, c)
  /\ traffic' = Append(traffic, [pkt |-> k, channel |-> c, at |-> now])
  /\ UNCHANGED << simTime, now, phase, rows, printAt >>

(* One row per entry of the map, in the order of the channel numbers,      *)
(* which is any order here.                                                *)
RowOf(k, c) ==
  [at |-> now, pkt |-> k, channel |-> c,
   countData |-> inChannels[k][c].data, countInterests |-> inChannels[k][c].interests]

RowsOf(k) == SetToSeq({ RowOf(k, c) : c \in DOMAIN inChannels[k] })

(* Mutant: the counters are set to 0 and the entries stay.                 *)
Clear_Zero ==
  inChannels' = [k \in Pkt |-> [c \in DOMAIN inChannels[k] |-> [data |-> 0, interests |-> 0]]]

(* Mutant: the drops are not cleared.                                      *)
Clear_PacketsOnly == inChannels' = [inChannels EXCEPT !["OK"] = NoEntries]

Clear == inChannels' = [k \in Pkt |-> NoEntries]

(* Mutant: the first period is skipped over.                               *)
ScheduleNext_Twice(period) == printAt' = now + 2 * period

ScheduleNext(period) == printAt' = now + period

(* The stop was scheduled before: at the same time it comes first.         *)
PrintTraces ==
  /\ phase = "run"
  /\ now = printAt /\ now < simTime
  /\ rows' = rows \o RowsOf("OK") \o RowsOf("Drop")
  /\ Clear
  /\ ScheduleNext(Period)
  /\ UNCHANGED << simTime, now, phase, traffic >>

Stop ==
  /\ phase = "run"
  /\ now = simTime
  /\ phase' = "stopped"
  /\ UNCHANGED << simTime, now, inChannels, rows, printAt, traffic >>

(* The destructor closes the file and then prints: the rows go nowhere,    *)
(* and what it schedules is never run.                                     *)
Destroy ==
  /\ phase = "stopped"
  /\ phase' = "destroyed"
  /\ Clear
  /\ UNCHANGED << simTime, now, rows, printAt, traffic >>

Next ==
  \/ Tick
  \/ \E k \in Pkt, c \in Channel : ChannelTrace(k, c)
  \/ PrintTraces
  \/ Stop
  \/ Destroy

Spec == Init /\ [][Next]_vars

-----------------------------------------------------------------------------
(* Properties.                                                             *)

(* What the rows of a channel add up to, in both columns, as the scripts   *)
(* read them (figure-8, line 59: CountData + CountInterests).              *)
Count(row) == row.countData + row.countInterests

RowsAbout(k, c) == { i \in DOMAIN rows : rows[i].pkt = k /\ rows[i].channel = c }

Printed(k, c) == SumFunction([i \in RowsAbout(k, c) |-> Count(rows[i])])

Counted(k, c) ==
  IF c \in DOMAIN inChannels[k] THEN inChannels[k][c].data + inChannels[k][c].interests ELSE 0

Happened(k, c) == { i \in DOMAIN traffic : traffic[i].pkt = k /\ traffic[i].channel = c }

(* While the tracer lives, what a channel reported is either in the file   *)
(* or still in the counters, every packet and every drop exactly once,     *)
(* however reports and prints interleave.                                  *)
EverythingAccountedFor ==
  phase # "destroyed" =>
    \A k \in Pkt, c \in Channel : Printed(k, c) + Counted(k, c) = Cardinality(Happened(k, c))

(* The scripts take a row for a channel that carried something: there is   *)
(* no row of zeros, and one row at most per channel and period.            *)
OneRowPerPeriod ==
  \A i \in DOMAIN rows :
    /\ Count(rows[i]) > 0
    /\ \A j \in DOMAIN rows \ {i} :
         << rows[i].at, rows[i].pkt, rows[i].channel >> # << rows[j].at, rows[j].pkt, rows[j].channel >>

(* The last multiple of the period before the stop; a print that is due at *)
(* the stop itself does not happen.                                        *)
LastPrint == Period * ((simTime - 1) \div Period)

(* What never reaches the file is at most what happened from the last      *)
(* print on: all that happened before it is there, nothing that happened   *)
(* later.                                                                  *)
OnlyLastPeriodIsLost ==
  phase = "destroyed" =>
    \A k \in Pkt, c \in Channel :
      /\ Printed(k, c) >= Cardinality({ i \in Happened(k, c) : traffic[i].at < LastPrint })
      /\ Printed(k, c) <= Cardinality({ i \in Happened(k, c) : traffic[i].at <= LastPrint })
=============================================================================
