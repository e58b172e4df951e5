------------------------- MODULE ChannelTracerProofs -------------------------
(***************************************************************************)
(* The channel tracer loses nothing but the last period, and writes one    *)
(* row per channel and period, for any channels, any period, and runs of   *)
(* any length and traffic.                                                 *)
(*                                                                         *)
(* The invariant relates the three places a report can be in: all that     *)
(* happened is in the rows or in the counters, and the rows hold all from  *)
(* before the last print and nothing from after it.  Times and counters    *)
(* make it inductive: the rows that exist are older than the next print,   *)
(* and an entry of the map counts something.                               *)
(***************************************************************************)
EXTENDS ChannelTracer, SequenceLemmas

Row == [at : Nat, pkt : Pkt, channel : Channel, countData : Nat, countInterests : Nat]
Report == [pkt : Pkt, channel : Channel, at : Nat]

TypeOK ==
  /\ simTime \in Nat \ {0}
  /\ now \in Nat
  /\ phase \in {"run", "stopped", "destroyed"}
  /\ DOMAIN inChannels = Pkt
  /\ \A k \in Pkt : DOMAIN inChannels[k] \subseteq Channel /\ IsFiniteSet(DOMAIN inChannels[k])
  /\ rows \in Seq(Row)
  /\ traffic \in Seq(Report)

(* Prints are due at the multiples of the period.  lastPrint is 0 before   *)
(* the first one.                                                          *)
lastPrint == printAt - Period

TimeInv ==
  /\ \E n \in Nat : printAt = Period * n + Period
  /\ lastPrint <= now /\ lastPrint < simTime
  /\ now <= printAt /\ now <= simTime
  /\ phase # "run" => now = simTime

(* An entry counts something, Interests included, in the column of Data.   *)
EntryInv ==
  \A k \in Pkt : \A c \in DOMAIN inChannels[k] :
    inChannels[k][c] \in [data : Nat \ {0}, interests : {0}]

(* A row is from an earlier print and counts something.                    *)
RowInv ==
  /\ \A i \in DOMAIN rows : rows[i].at <= lastPrint
  /\ OneRowPerPeriod

(* The rows hold what happened before the last print, and perhaps some of  *)
(* what happened at the time of that print.                                *)
Before(k, c) == { i \in Happened(k, c) : traffic[i].at < lastPrint }
UpTo(k, c) == { i \in Happened(k, c) : traffic[i].at <= lastPrint }

TrafficInv ==
  /\ \A i \in DOMAIN traffic : traffic[i].at <= now
  /\ \A k \in Pkt, c \in Channel :
       /\ Printed(k, c) \in Nat
       /\ Printed(k, c) >= Cardinality(Before(k, c))
       /\ Printed(k, c) <= Cardinality(UpTo(k, c))

TracerInv ==
  TypeOK /\ TimeInv /\ EntryInv /\ RowInv /\ TrafficInv /\ EverythingAccountedFor
-----------------------------------------------------------------------------
(* Sets of reports are finite, and so are sets of rows.                    *)
LEMMA HappenedFinite ==
  ASSUME NEW q, NEW T, q \in Seq(T), NEW S \in SUBSET DOMAIN q
  PROVE  IsFiniteSet(S) /\ Cardinality(S) \in Nat
<1>1. Len(q) \in Nat /\ DOMAIN q = 1 .. Len(q)
  OBVIOUS
<1>2. IsFiniteSet(1 .. Len(q))
  BY <1>1, FS_Interval
<1>3. IsFiniteSet(S)
  BY <1>1, <1>2, FS_Subset
<1>4. QED
  BY <1>3, FS_CardinalityType

LEMMA InitHolds == Init => TracerInv
<1> SUFFICES ASSUME Init PROVE TracerInv
  OBVIOUS
<1> USE TracerAssumption DEF Init
<1>1. /\ rows = << >> /\ traffic = << >> /\ DOMAIN rows = {} /\ DOMAIN traffic = {}
      /\ DOMAIN inChannels = Pkt
      /\ \A k \in Pkt : inChannels[k] = NoEntries /\ DOMAIN inChannels[k] = {}
  BY DEF NoEntries
<1>2. TypeOK
  BY <1>1, FS_EmptySet DEF TypeOK
<1>3. TimeInv
  <2>1. printAt = Period * 0 + Period /\ lastPrint = 0
    BY DEF lastPrint
  <2>2. simTime \in Nat /\ simTime > 0
    OBVIOUS
  <2>3. QED
    BY <2>1, <2>2 DEF TimeInv
<1>4. EntryInv /\ RowInv
  BY <1>1 DEF EntryInv, RowInv, OneRowPerPeriod
<1>5. ASSUME NEW k \in Pkt, NEW c \in Channel
      PROVE  Printed(k, c) = 0 /\ Counted(k, c) = 0 /\ Happened(k, c) = {}
  <2>1. RowsAbout(k, c) = {}
    BY <1>1 DEF RowsAbout
  <2>2. [i \in RowsAbout(k, c) |-> Count(rows[i])] \in [{} -> Nat]
    BY <2>1
  <2>3. Printed(k, c) = 0
    BY <2>2, SumOfNone DEF Printed
  <2>4. QED
    BY <1>1, <2>3 DEF Counted, Happened
<1>6. Cardinality({}) = 0
  BY FS_EmptySet
<1>7. ASSUME NEW k \in Pkt, NEW c \in Channel
      PROVE  /\ Cardinality(Happened(k, c)) = 0
             /\ Cardinality(Before(k, c)) = 0 /\ Cardinality(UpTo(k, c)) = 0
  <2>1. Happened(k, c) = {} /\ Before(k, c) = {} /\ UpTo(k, c) = {}
    BY <1>5 DEF Before, UpTo
  <2>2. QED
    BY <1>6, <2>1
<1>8. EverythingAccountedFor
  BY <1>5, <1>7 DEF EverythingAccountedFor
<1>10. TrafficInv
  BY <1>1, <1>5, <1>7 DEF TrafficInv
<1>9. QED
  BY <1>2, <1>3, <1>4, <1>8, <1>10 DEF TracerInv

(* What a step that leaves the rows alone leaves alone.                    *)
LEMMA SameRows ==
  ASSUME rows' = rows
  PROVE  /\ \A k \in Pkt, c \in Channel : Printed(k, c)' = Printed(k, c)
         /\ OneRowPerPeriod' <=> OneRowPerPeriod
  BY DEF Printed, RowsAbout, Count, OneRowPerPeriod

LEMMA TickStep ==
  ASSUME TracerInv, Tick
  PROVE  TracerInv'
<1>1. /\ TypeOK /\ TimeInv /\ EntryInv /\ RowInv /\ TrafficInv /\ EverythingAccountedFor
      /\ phase = "run" /\ now < simTime /\ now < printAt /\ now' = now + 1
      /\ UNCHANGED << simTime, phase, inChannels, rows, printAt, traffic >>
  BY DEF TracerInv, Tick
<1>2. lastPrint' = lastPrint /\ lastPrint \in Int /\ printAt \in Nat /\ simTime \in Nat /\ now \in Nat
  BY <1>1, TracerAssumption DEF lastPrint, TypeOK, TimeInv
<1>3. TypeOK' /\ TimeInv' /\ EntryInv'
  BY <1>1, <1>2 DEF TypeOK, TimeInv, EntryInv
<1>4. RowInv'
  BY <1>1, <1>2, SameRows DEF RowInv
<1>5. \A k \in Pkt, c \in Channel :
        /\ Printed(k, c)' = Printed(k, c) /\ Counted(k, c)' = Counted(k, c)
        /\ Happened(k, c)' = Happened(k, c)
        /\ Before(k, c)' = Before(k, c) /\ UpTo(k, c)' = UpTo(k, c)
  BY <1>1, <1>2, SameRows DEF Counted, Happened, Before, UpTo
<1>6. EverythingAccountedFor'
  BY <1>1, <1>5 DEF EverythingAccountedFor
<1>7. TrafficInv'
  <2>1. \A i \in DOMAIN traffic : traffic[i].at \in Nat /\ traffic[i].at <= now
    <3>1. \A i \in DOMAIN traffic : traffic[i] \in Report
      BY <1>1 DEF TypeOK
    <3>2. QED
      BY <1>1, <3>1 DEF TrafficInv, Report
  <2>2. \A i \in DOMAIN traffic' : traffic'[i].at <= now'
    BY <1>1, <1>2, <2>1
  <2>3. QED
    BY <1>1, <1>2, <1>5, <2>2 DEF TrafficInv
<1>8. QED
  BY <1>3, <1>4, <1>6, <1>7 DEF TracerInv

(* A report makes or finds the entry of its channel, and counts there.     *)
LEMMA EntryStep ==
  ASSUME TypeOK, EntryInv, NEW k \in Pkt, NEW c \in Channel, CountPacket(k, c)
  PROVE  /\ DOMAIN inChannels' = Pkt
         /\ \A m \in Pkt : DOMAIN inChannels'[m] \subseteq Channel /\ IsFiniteSet(DOMAIN inChannels'[m])
         /\ EntryInv'
         /\ \A m \in Pkt, d \in Channel :
              /\ Counted(m, d) \in Nat
              /\ Counted(m, d)' = IF m = k /\ d = c THEN Counted(m, d) + 1 ELSE Counted(m, d)
<1> DEFINE old(d) == IF d \in DOMAIN inChannels[k] THEN inChannels[k][d] ELSE [data |-> 0, interests |-> 0]
           entry(d) == IF d = c THEN [old(d) EXCEPT !.data = @ + 1] ELSE old(d)
<1>1. /\ DOMAIN inChannels = Pkt
      /\ inChannels' = [inChannels EXCEPT ![k] = [d \in DOMAIN inChannels[k] \union {c} |-> entry(d)]]
  BY DEF CountPacket, TypeOK
<1>2. /\ DOMAIN inChannels' = Pkt
      /\ inChannels'[k] = [d \in DOMAIN inChannels[k] \union {c} |-> entry(d)]
      /\ \A m \in Pkt \ {k} : inChannels'[m] = inChannels[m]
  BY <1>1
<1>3. DOMAIN inChannels'[k] = DOMAIN inChannels[k] \union {c}
  BY <1>2
<1>4. /\ DOMAIN inChannels[k] \subseteq Channel
      /\ IsFiniteSet(DOMAIN inChannels[k]) /\ IsFiniteSet(DOMAIN inChannels[k] \union {c})
  BY FS_AddElement DEF TypeOK
<1>5. \A d \in DOMAIN inChannels[k] : inChannels[k][d] \in [data : Nat \ {0}, interests : {0}]
  BY DEF EntryInv
<1>6. \A d \in DOMAIN inChannels'[k] :
        /\ inChannels'[k][d] \in [data : Nat \ {0}, interests : {0}]
        /\ d # c => d \in DOMAIN inChannels[k] /\ inChannels'[k][d] = inChannels[k][d]
  <2>1. \A d \in DOMAIN inChannels'[k] : inChannels'[k][d] = entry(d)
    BY <1>2, <1>3
  <2>2. ASSUME NEW d \in DOMAIN inChannels'[k], d # c
        PROVE  d \in DOMAIN inChannels[k] /\ inChannels'[k][d] = inChannels[k][d]
    BY <1>3, <2>1, <2>2
  <2>3. entry(c) \in [data : Nat \ {0}, interests : {0}]
    BY <1>5
  <2>4. QED
    BY <1>5, <2>1, <2>2, <2>3
<1>7. inChannels'[k][c].data + inChannels'[k][c].interests = Counted(k, c) + 1
  <2>1. inChannels'[k][c] = [old(c) EXCEPT !.data = @ + 1]
    BY <1>2
  <2>2. old(c) \in [data : Nat, interests : {0}]
    BY <1>5
  <2>3. Counted(k, c) = old(c).data + old(c).interests
    BY DEF Counted
  <2> HIDE DEF old
  <2>4. QED
    BY <2>1, <2>2, <2>3
<1>8. EntryInv'
  BY <1>2, <1>6 DEF EntryInv
<1>9. ASSUME NEW m \in Pkt, NEW d \in Channel
      PROVE  /\ Counted(m, d) \in Nat
             /\ Counted(m, d)' = IF m = k /\ d = c THEN Counted(m, d) + 1 ELSE Counted(m, d)
  <2>1. Counted(m, d) \in Nat
    BY DEF Counted, EntryInv
  <2>2. CASE m = k /\ d = c
    <3>1. Counted(k, c)' = inChannels'[k][c].data + inChannels'[k][c].interests
      BY <1>3 DEF Counted
    <3>2. QED
      BY <1>7, <2>1, <2>2, <3>1
  <2>3. CASE m = k /\ d # c
    <3>1. d \in DOMAIN inChannels'[k] <=> d \in DOMAIN inChannels[k]
      BY <1>3, <2>3
    <3>2. Counted(k, d)' = Counted(k, d)
      BY <1>6, <2>3, <3>1 DEF Counted
    <3>3. QED
      BY <2>1, <2>3, <3>2
  <2>4. CASE m # k
    <3>1. Counted(m, d)' = Counted(m, d)
      BY <1>2, <2>4 DEF Counted
    <3>2. QED
      BY <2>1, <2>4, <3>1
  <2>5. QED
    BY <2>1, <2>2, <2>3, <2>4
<1>10. QED
  BY <1>2, <1>3, <1>4, <1>8, <1>9 DEF TypeOK

(* Such a report is one more that happened, and it happened after the last *)
(* print or at its time.                                                   *)
LEMMA ReportStep ==
  ASSUME TracerInv, NEW k \in Pkt, NEW c \in Channel, ChannelTrace(k, c)
  PROVE  TracerInv'
<1> DEFINE new == Len(traffic) + 1
           report == [pkt |-> k, channel |-> c, at |-> now]
<1>1. /\ TypeOK /\ TimeInv /\ EntryInv /\ RowInv /\ TrafficInv /\ EverythingAccountedFor
      /\ phase = "run" /\ CountPacket(k, c)
      /\ traffic' = Append(traffic, report)
      /\ UNCHANGED << simTime, now, phase, rows, printAt >>
  BY DEF TracerInv, ChannelTrace
<1>2. /\ lastPrint' = lastPrint /\ lastPrint \in Int /\ lastPrint <= now /\ now \in Nat
      /\ report \in Report
  BY <1>1, TracerAssumption DEF lastPrint, TypeOK, TimeInv, Report
<1>3. /\ traffic' \in Seq(Report) /\ Len(traffic) \in Nat
      /\ DOMAIN traffic = 1 .. Len(traffic)
      /\ DOMAIN traffic' = DOMAIN traffic \union {new} /\ new \notin DOMAIN traffic
      /\ traffic'[new] = report
      /\ \A i \in DOMAIN traffic : traffic'[i] = traffic[i] /\ traffic[i] \in Report
  BY <1>1, <1>2 DEF TypeOK
<1> HIDE DEF new
<1>4. /\ TypeOK' /\ EntryInv'
      /\ \A m \in Pkt, d \in Channel :
           /\ Counted(m, d) \in Nat
           /\ Counted(m, d)' = IF m = k /\ d = c THEN Counted(m, d) + 1 ELSE Counted(m, d)
  <2>1. EntryInv' /\ DOMAIN inChannels' = Pkt
        /\ \A m \in Pkt : DOMAIN inChannels'[m] \subseteq Channel /\ IsFiniteSet(DOMAIN inChannels'[m])
    BY <1>1, EntryStep
  <2>2. TypeOK'
    BY <1>1, <1>3, <2>1 DEF TypeOK
  <2>3. QED
    BY <1>1, <2>1, <2>2, EntryStep
<1>5. TimeInv' /\ RowInv'
  BY <1>1, <1>2, SameRows DEF TimeInv, RowInv
<1>6. ASSUME NEW m \in Pkt, NEW d \in Channel
      PROVE  /\ Printed(m, d)' = Printed(m, d)
             /\ Happened(m, d)' = IF m = k /\ d = c THEN Happened(m, d) \union {new} ELSE Happened(m, d)
             /\ Before(m, d)' = Before(m, d)
             /\ UpTo(m, d) \subseteq UpTo(m, d)'
  <2>1. Printed(m, d)' = Printed(m, d)
    BY <1>1, SameRows
  <2>2. Happened(m, d)' = IF m = k /\ d = c THEN Happened(m, d) \union {new} ELSE Happened(m, d)
    BY <1>3 DEF Happened
  <2>3. ~ (traffic'[new].at < lastPrint)
    BY <1>2, <1>3
  <2>4. new \notin Before(m, d)
    BY <1>3 DEF Before, Happened
  <2>5. \A i \in Happened(m, d) : i \in Happened(m, d)' /\ traffic'[i].at = traffic[i].at
    BY <1>3, <2>2 DEF Happened
  <2>6. \A i \in Happened(m, d)' : i # new => i \in Happened(m, d)
    BY <2>2
  <2>7. Before(m, d)' = Before(m, d)
    BY <1>2, <2>3, <2>4, <2>5, <2>6 DEF Before
  <2>8. UpTo(m, d) \subseteq UpTo(m, d)'
    BY <1>2, <2>5 DEF UpTo
  <2>9. QED
    BY <2>1, <2>2, <2>7, <2>8
<1>7. EverythingAccountedFor'
  <2>1. ASSUME NEW m \in Pkt, NEW d \in Channel
        PROVE  Printed(m, d)' + Counted(m, d)' = Cardinality(Happened(m, d)')
    <3>1. /\ Printed(m, d) + Counted(m, d) = Cardinality(Happened(m, d))
          /\ Printed(m, d) \in Nat /\ Counted(m, d) \in Nat
      BY <1>1, <1>4 DEF EverythingAccountedFor, TrafficInv
    <3>2. Happened(m, d) \in SUBSET DOMAIN traffic /\ new \notin Happened(m, d)
      BY <1>3 DEF Happened
    <3>3. IsFiniteSet(Happened(m, d))
      BY <1>1, <3>2, HappenedFinite DEF TypeOK
    <3>4. Cardinality(Happened(m, d) \union {new}) = Cardinality(Happened(m, d)) + 1
      BY <3>2, <3>3, FS_AddElement
    <3>5. CASE m = k /\ d = c
      <4>1. Counted(m, d)' = Counted(m, d) + 1 /\ Happened(m, d)' = Happened(m, d) \union {new}
        BY <1>4, <1>6, <3>5
      <4>2. QED
        BY <1>6, <3>1, <3>4, <4>1
    <3>6. CASE ~ (m = k /\ d = c)
      <4>1. Counted(m, d)' = Counted(m, d) /\ Happened(m, d)' = Happened(m, d)
        BY <1>4, <1>6, <3>6
      <4>2. QED
        BY <1>6, <3>1, <4>1
    <3>7. QED
      BY <3>5, <3>6
  <2>2. QED
    BY <2>1 DEF EverythingAccountedFor
<1>8. TrafficInv'
  <2>1. \A i \in DOMAIN traffic' : traffic'[i].at <= now'
    BY <1>1, <1>2, <1>3 DEF TrafficInv
  <2>2. ASSUME NEW m \in Pkt, NEW d \in Channel
        PROVE  /\ Printed(m, d)' \in Nat
               /\ Printed(m, d)' >= Cardinality(Before(m, d)')
               /\ Printed(m, d)' <= Cardinality(UpTo(m, d)')
    <3>1. /\ Printed(m, d) \in Nat
          /\ Printed(m, d) >= Cardinality(Before(m, d))
          /\ Printed(m, d) <= Cardinality(UpTo(m, d))
      BY <1>1 DEF TrafficInv
    <3>2. UpTo(m, d)' \in SUBSET DOMAIN traffic' /\ UpTo(m, d) \in SUBSET DOMAIN traffic
      BY DEF UpTo, Happened
    <3>3. IsFiniteSet(UpTo(m, d)') /\ Cardinality(UpTo(m, d)') \in Nat
      BY <1>3, <3>2, HappenedFinite
    <3>4. Cardinality(UpTo(m, d)) \in Nat
      BY <1>1, <3>2, HappenedFinite DEF TypeOK
    <3>5. Cardinality(UpTo(m, d)) <= Cardinality(UpTo(m, d)')
      BY <1>6, <3>3, FS_Subset
    <3>6. QED
      BY <1>6, <3>1, <3>3, <3>4, <3>5
  <2>3. QED
    BY <2>1, <2>2 DEF TrafficInv
<1>9. QED
  BY <1>4, <1>5, <1>7, <1>8 DEF TracerInv

LEMMA EndStep ==
  ASSUME TracerInv, Stop \/ Destroy
  PROVE  TracerInv'
<1>1. /\ TypeOK /\ TimeInv /\ EntryInv /\ RowInv /\ TrafficInv /\ EverythingAccountedFor
      /\ UNCHANGED << simTime, now, rows, printAt, traffic >>
  BY DEF TracerInv, Stop, Destroy
<1>2. /\ phase' \in {"stopped", "destroyed"} /\ now = simTime
      /\ \/ UNCHANGED inChannels
         \/ phase' = "destroyed" /\ inChannels' = [k \in Pkt |-> NoEntries]
  BY <1>1 DEF Stop, Destroy, Clear, TimeInv
<1>3. TypeOK' /\ EntryInv'
  <2>1. CASE UNCHANGED inChannels
    BY <1>1, <1>2, <2>1 DEF TypeOK, EntryInv
  <2>2. CASE inChannels' = [k \in Pkt |-> NoEntries]
    <3>1. DOMAIN inChannels' = Pkt /\ \A k \in Pkt : DOMAIN inChannels'[k] = {}
      BY <2>2 DEF NoEntries
    <3>2. QED
      BY <1>1, <1>2, <3>1, FS_EmptySet DEF TypeOK, EntryInv
  <2>3. QED
    BY <1>2, <2>1, <2>2
<1>4. lastPrint' = lastPrint
  BY <1>1 DEF lastPrint
<1>5. TimeInv'
  BY <1>1, <1>2, <1>4 DEF TimeInv
<1>6. RowInv'
  BY <1>1, <1>4, SameRows DEF RowInv
<1>7. \A k \in Pkt, c \in Channel :
        /\ Printed(k, c)' = Printed(k, c)
        /\ Happened(k, c)' = Happened(k, c)
        /\ Before(k, c)' = Before(k, c) /\ UpTo(k, c)' = UpTo(k, c)
  BY <1>1, <1>4, SameRows DEF Happened, Before, UpTo
<1>8. TrafficInv'
  BY <1>1, <1>7 DEF TrafficInv
<1>9. EverythingAccountedFor'
  <2>1. CASE phase' = "destroyed"
    BY <2>1 DEF EverythingAccountedFor
  <2>2. CASE phase' # "destroyed"
    <3>1. Stop /\ UNCHANGED inChannels /\ phase # "destroyed"
      BY <2>2, <1>2 DEF Stop, Destroy
    <3>2. \A k \in Pkt, c \in Channel : Counted(k, c)' = Counted(k, c)
      BY <3>1 DEF Counted
    <3>3. QED
      BY <1>1, <1>7, <3>1, <3>2 DEF EverythingAccountedFor
  <2>3. QED
    BY <2>1, <2>2
<1>10. QED
  BY <1>3, <1>5, <1>6, <1>8, <1>9 DEF TracerInv
-----------------------------------------------------------------------------
(* What one print writes: a row for each entry of the two maps, once.      *)
OneForEachEntry(new) ==
  /\ \A i \in DOMAIN new : \E k \in Pkt : \E c \in DOMAIN inChannels[k] : new[i] = RowOf(k, c)
  /\ \A k \in Pkt : \A c \in DOMAIN inChannels[k] : \E i \in DOMAIN new : new[i] = RowOf(k, c)
  /\ \A i, j \in DOMAIN new : new[i] = new[j] => i = j

LEMMA NewRows ==
  ASSUME TypeOK, EntryInv
  PROVE  LET new == RowsOf("OK") \o RowsOf("Drop") IN
         /\ rows \o RowsOf("OK") \o RowsOf("Drop") = rows \o new
         /\ new \in Seq(Row)
         /\ OneForEachEntry(new)
<1> DEFINE Table(k) == { RowOf(k, c) : c \in DOMAIN inChannels[k] }
<1>1. ASSUME NEW k \in Pkt
      PROVE  /\ RowsOf(k) \in Seq(Row)
             /\ \A i \in DOMAIN RowsOf(k) : \E c \in DOMAIN inChannels[k] : RowsOf(k)[i] = RowOf(k, c)
             /\ \A c \in DOMAIN inChannels[k] : \E i \in DOMAIN RowsOf(k) : RowsOf(k)[i] = RowOf(k, c)
             /\ \A i, j \in DOMAIN RowsOf(k) : RowsOf(k)[i] = RowsOf(k)[j] => i = j
  <2>1. IsFiniteSet(DOMAIN inChannels[k]) /\ DOMAIN inChannels[k] \subseteq Channel
    BY DEF TypeOK
  <2> DEFINE rowAt == [c \in DOMAIN inChannels[k] |-> RowOf(k, c)]
  <2>2. rowAt \in Surjection(DOMAIN inChannels[k], Table(k))
    BY DEF Surjection
  <2>3. IsFiniteSet(Table(k))
    BY <2>1, <2>2, FS_Surjection
  <2>4. Table(k) \subseteq Row
    <3>1. ASSUME NEW c \in DOMAIN inChannels[k] PROVE RowOf(k, c) \in Row
      <4>1. inChannels[k][c] \in [data : Nat \ {0}, interests : {0}]
        BY DEF EntryInv
      <4>2. now \in Nat /\ c \in Channel
        BY <2>1 DEF TypeOK
      <4>3. QED
        BY <4>1, <4>2 DEF RowOf, Row
    <3>2. QED
      BY <3>1
  <2> DEFINE S == Table(k)
             q == SetToSeq(S)
  <2>5. IsFiniteSet(S) /\ S \subseteq Row
    BY <2>3, <2>4
  <2>6. \A x : x \in S <=> \E c \in DOMAIN inChannels[k] : x = RowOf(k, c)
    OBVIOUS
  <2> HIDE DEF S
  <2>7. /\ q \in [1 .. Cardinality(S) -> S] /\ Cardinality(S) \in Nat
        /\ \A i \in DOMAIN q : q[i] \in S
        /\ \A x \in S : \E i \in DOMAIN q : q[i] = x
        /\ \A i, j \in DOMAIN q : q[i] = q[j] => i = j
    BY <2>5, SetToSeqElements, FS_CardinalityType
  <2> HIDE DEF q
  <2>8. q \in Seq(Row)
    BY <2>5, <2>7
  <2>9. RowsOf(k) = q
    BY DEF RowsOf, q, S
  <2>10. QED
    BY <2>6, <2>7, <2>8, <2>9
<1> DEFINE ok == RowsOf("OK")
           drop == RowsOf("Drop")
           new == ok \o drop
<1>2. "OK" \in Pkt /\ "Drop" \in Pkt /\ \A k \in Pkt : k = "OK" \/ k = "Drop"
  BY DEF Pkt
<1>3. /\ ok \in Seq(Row)
      /\ \A i \in DOMAIN ok : \E c \in DOMAIN inChannels["OK"] : ok[i] = RowOf("OK", c)
      /\ \A c \in DOMAIN inChannels["OK"] : \E i \in DOMAIN ok : ok[i] = RowOf("OK", c)
      /\ \A i, j \in DOMAIN ok : ok[i] = ok[j] => i = j
  BY <1>1, <1>2
<1>4. /\ drop \in Seq(Row)
      /\ \A i \in DOMAIN drop : \E c \in DOMAIN inChannels["Drop"] : drop[i] = RowOf("Drop", c)
      /\ \A c \in DOMAIN inChannels["Drop"] : \E i \in DOMAIN drop : drop[i] = RowOf("Drop", c)
      /\ \A i, j \in DOMAIN drop : drop[i] = drop[j] => i = j
  BY <1>1, <1>2
<1> HIDE DEF ok, drop
<1>5. /\ Len(ok) \in Nat /\ DOMAIN ok = 1 .. Len(ok)
      /\ Len(drop) \in Nat /\ DOMAIN drop = 1 .. Len(drop)
  BY <1>3, <1>4
<1>6. /\ new \in Seq(Row) /\ Len(new) = Len(ok) + Len(drop) /\ DOMAIN new = 1 .. Len(ok) + Len(drop)
      /\ \A i \in DOMAIN ok : new[i] = ok[i]
      /\ \A i \in DOMAIN drop : new[Len(ok) + i] = drop[i]
  BY <1>3, <1>4, <1>5
<1> HIDE DEF new
<1>7. \A i \in DOMAIN new : \/ i \in DOMAIN ok /\ new[i] = ok[i]
                            \/ i - Len(ok) \in DOMAIN drop /\ new[i] = drop[i - Len(ok)]
  <2>1. ASSUME NEW i \in DOMAIN new
        PROVE  \/ i \in DOMAIN ok /\ new[i] = ok[i]
               \/ i - Len(ok) \in DOMAIN drop /\ new[i] = drop[i - Len(ok)]
    <3>1. i \in 1 .. Len(ok) + Len(drop)
      BY <1>6
    <3>2. CASE i <= Len(ok)
      BY <1>5, <1>6, <3>1, <3>2
    <3>3. CASE i > Len(ok)
      <4>1. i - Len(ok) \in DOMAIN drop /\ i = Len(ok) + (i - Len(ok))
        BY <1>5, <3>1, <3>3
      <4>2. QED
        BY <1>6, <4>1
    <3>4. QED
      BY <1>5, <3>1, <3>2, <3>3
  <2>2. QED
    BY <2>1
<1>8. \A i \in DOMAIN new : \E k \in Pkt : \E c \in DOMAIN inChannels[k] : new[i] = RowOf(k, c)
  BY <1>2, <1>3, <1>4, <1>7
<1>9. \A k \in Pkt : \A c \in DOMAIN inChannels[k] : \E i \in DOMAIN new : new[i] = RowOf(k, c)
  <2>1. \A i \in DOMAIN ok : i \in DOMAIN new
    BY <1>5, <1>6
  <2>2. \A i \in DOMAIN drop : Len(ok) + i \in DOMAIN new
    BY <1>5, <1>6
  <2>3. \A c \in DOMAIN inChannels["OK"] : \E i \in DOMAIN new : new[i] = RowOf("OK", c)
    BY <1>3, <1>6, <2>1
  <2>4. \A c \in DOMAIN inChannels["Drop"] : \E i \in DOMAIN new : new[i] = RowOf("Drop", c)
    BY <1>4, <1>6, <2>2
  <2>5. QED
    BY <1>2, <2>3, <2>4
<1>10. \A i, j \in DOMAIN new : new[i] = new[j] => i = j
  <2>1. \A i \in DOMAIN ok, j \in DOMAIN drop : ok[i] # drop[j]
    <3>1. \A c, d : RowOf("OK", c) # RowOf("Drop", d)
      BY DEF RowOf
    <3>2. QED
      BY <1>3, <1>4, <3>1
  <2>2. ASSUME NEW i \in DOMAIN new, NEW j \in DOMAIN new, new[i] = new[j]
        PROVE  i = j
    <3>1. i \in Nat /\ j \in Nat
      BY <1>5, <1>6
    <3>2. CASE i \in DOMAIN ok /\ new[i] = ok[i] /\ j \in DOMAIN ok /\ new[j] = ok[j]
      BY <1>3, <2>2, <3>2
    <3>3. CASE /\ i - Len(ok) \in DOMAIN drop /\ new[i] = drop[i - Len(ok)]
               /\ j - Len(ok) \in DOMAIN drop /\ new[j] = drop[j - Len(ok)]
      <4>1. i - Len(ok) = j - Len(ok)
        BY <1>4, <2>2, <3>3
      <4>2. QED
        BY <1>5, <3>1, <4>1
    <3>4. QED
      BY <1>7, <2>1, <2>2, <3>2, <3>3
  <2>3. QED
    BY <2>2
<1>11. rows \o ok \o drop = rows \o new
  BY SMTT(30), <1>3, <1>4 DEF TypeOK, new
<1>12. QED
  BY <1>6, <1>8, <1>9, <1>10, <1>11 DEF OneForEachEntry, new, ok, drop

(* A print moves what the counters of a channel hold to the rows.          *)
LEMMA PrintMoves ==
  ASSUME TypeOK, EntryInv, NEW new \in Seq(Row), OneForEachEntry(new), rows' = rows \o new,
         NEW k \in Pkt, NEW c \in Channel, Printed(k, c) \in Nat
  PROVE  Printed(k, c)' = Printed(k, c) + Counted(k, c)
<1> DEFINE n == Len(rows)
<1>1. /\ n \in Nat /\ DOMAIN rows = 1 .. n
      /\ Len(new) \in Nat /\ DOMAIN new = 1 .. Len(new)
      /\ rows' \in Seq(Row) /\ DOMAIN rows' = 1 .. n + Len(new)
      /\ \A i \in DOMAIN rows : rows'[i] = rows[i]
      /\ \A i \in DOMAIN new : rows'[n + i] = new[i]
  BY DEF TypeOK
<1> HIDE DEF n
<1>2. \A i \in DOMAIN rows' : i \in DOMAIN rows \/ (i - n \in DOMAIN new /\ rows'[i] = new[i - n])
  <2>1. ASSUME NEW i \in DOMAIN rows', i \notin DOMAIN rows
        PROVE  i - n \in DOMAIN new /\ rows'[i] = new[i - n]
    <3>1. i - n \in DOMAIN new /\ i = n + (i - n)
      BY <1>1, <2>1
    <3>2. QED
      BY <1>1, <3>1
  <2>2. QED
    BY <2>1
<1> DEFINE f == [i \in RowsAbout(k, c) |-> Count(rows[i])]
           g == [i \in RowsAbout(k, c)' |-> Count(rows'[i])]
<1>3. Printed(k, c) = SumFunction(f) /\ Printed(k, c)' = SumFunction(g)
  BY DEF Printed, Count
<1>4. RowsAbout(k, c) \subseteq RowsAbout(k, c)'
  <2>1. DOMAIN rows \subseteq DOMAIN rows'
    BY <1>1
  <2>2. QED
    BY <1>1, <2>1 DEF RowsAbout
<1>5. \A i \in RowsAbout(k, c) : rows'[i] = rows[i]
  BY <1>1 DEF RowsAbout
<1>6. \A i \in RowsAbout(k, c)' \ RowsAbout(k, c) :
        i - n \in DOMAIN new /\ c \in DOMAIN inChannels[k] /\ rows'[i] = RowOf(k, c) /\ new[i - n] = RowOf(k, c)
  <2>1. ASSUME NEW i \in RowsAbout(k, c)', i \notin RowsAbout(k, c)
        PROVE  /\ i - n \in DOMAIN new /\ c \in DOMAIN inChannels[k]
               /\ rows'[i] = RowOf(k, c) /\ new[i - n] = RowOf(k, c)
    <3>1. i \in DOMAIN rows' /\ rows'[i].pkt = k /\ rows'[i].channel = c
      BY DEF RowsAbout
    <3>2. i \notin DOMAIN rows
      BY <1>1, <2>1, <3>1 DEF RowsAbout
    <3>3. i - n \in DOMAIN new /\ rows'[i] = new[i - n]
      BY <1>2, <3>1, <3>2
    <3>4. PICK k1 \in Pkt : \E c1 \in DOMAIN inChannels[k1] : new[i - n] = RowOf(k1, c1)
      BY <3>3 DEF OneForEachEntry
    <3>5. PICK c1 \in DOMAIN inChannels[k1] : new[i - n] = RowOf(k1, c1)
      BY <3>4
    <3>6. k1 = k /\ c1 = c
      BY <3>1, <3>3, <3>5 DEF RowOf
    <3>7. QED
      BY <3>3, <3>5, <3>6
  <2>2. QED
    BY <2>1
<1>7. CASE c \notin DOMAIN inChannels[k]
  <2>1. RowsAbout(k, c)' = RowsAbout(k, c)
    BY <1>4, <1>6, <1>7
  <2>2. g = f
    BY <1>5, <2>1
  <2>3. Counted(k, c) = 0
    BY <1>7 DEF Counted
  <2> HIDE DEF f, g
  <2>4. Printed(k, c)' = Printed(k, c)
    BY <1>3, <2>2
  <2>5. QED
    BY <2>3, <2>4
<1>8. CASE c \in DOMAIN inChannels[k]
  <2>1. PICK a \in DOMAIN new : new[a] = RowOf(k, c)
    BY <1>8 DEF OneForEachEntry
  <2>2. PICK x \in RowsAbout(k, c)' :
          x \notin RowsAbout(k, c) /\ rows'[x] = RowOf(k, c) /\ x = n + a
    <3>1. n + a \in DOMAIN rows' /\ n + a \notin DOMAIN rows /\ rows'[n + a] = RowOf(k, c)
      BY <1>1, <2>1
    <3>2. QED
      BY <3>1 DEF RowsAbout, RowOf
  <2>3. RowsAbout(k, c)' \ {x} = RowsAbout(k, c)
    <3>1. ASSUME NEW i \in RowsAbout(k, c)', i \notin RowsAbout(k, c) PROVE i = x
      <4>1. i - n \in DOMAIN new /\ new[i - n] = RowOf(k, c)
        BY <1>6, <3>1
      <4>2. i - n = a
        BY <2>1, <4>1 DEF OneForEachEntry
      <4>3. i \in DOMAIN rows'
        BY DEF RowsAbout
      <4>4. i \in Nat
        BY <1>1, <4>3
      <4>5. QED
        BY <1>1, <2>2, <4>2, <4>4
    <3>2. QED
      BY <1>4, <2>2, <3>1
  <2>4. RowsAbout(k, c)' \in SUBSET DOMAIN rows'
    BY DEF RowsAbout
  <2>5. IsFiniteSet(RowsAbout(k, c)')
    BY <1>1, <2>4, HappenedFinite
  <2>6. ASSUME NEW i \in RowsAbout(k, c)' PROVE Count(rows'[i]) \in Nat
    <3>1. rows'[i] \in Row
      BY <1>1, <2>4
    <3>2. \A row \in Row : Count(row) \in Nat
      BY SMTT(30) DEF Count, Row
    <3>3. QED
      BY <3>1, <3>2
  <2>7. g \in [RowsAbout(k, c)' -> Nat]
    BY <2>6
  <2>8. [i \in RowsAbout(k, c)' \ {x} |-> g[i]] = f
    BY <1>5, <2>3
  <2>9. g[x] = Counted(k, c)
    <3>1. g[x] = Count(RowOf(k, c))
      BY <2>2
    <3>2. QED
      BY <1>8, <3>1 DEF Count, Counted, RowOf
  <2> HIDE DEF f, g
  <2>10. SumFunction(g) = g[x] + SumFunction(f)
    <3> DEFINE T == RowsAbout(k, c)'
    <3>1. /\ IsFiniteSet(T) /\ g \in [T -> Nat] /\ x \in T
          /\ f \in [T \ {x} -> Nat] /\ \A y \in T \ {x} : f[y] = g[y]
      BY <2>2, <2>5, <2>7, <2>8
    <3> HIDE DEF T
    <3>2. QED
      <4>1. \A h \in [T -> Nat] : \A z \in T : \A e \in [T \ {z} -> Nat] :
              (\A y \in T \ {z} : e[y] = h[y]) => SumFunction(h) = h[z] + SumFunction(e)
        BY <3>1, SumOfOthers
      <4>2. \A e \in [T \ {x} -> Nat] :
              (\A y \in T \ {x} : e[y] = g[y]) => SumFunction(g) = g[x] + SumFunction(e)
        BY <3>1, <4>1
      <4>3. QED
        BY <3>1, <4>2
  <2>11. Counted(k, c) \in Nat
    BY DEF Counted, EntryInv
  <2>12. QED
    BY <1>3, <2>9, <2>10, <2>11
<1>9. QED
  BY <1>7, <1>8

LEMMA PrintStep ==
  ASSUME TracerInv, PrintTraces
  PROVE  TracerInv'
<1> DEFINE new == RowsOf("OK") \o RowsOf("Drop")
           n == Len(rows)
<1>1. /\ TypeOK /\ TimeInv /\ EntryInv /\ RowInv /\ TrafficInv /\ EverythingAccountedFor
      /\ phase = "run" /\ now = printAt /\ now < simTime
      /\ inChannels' = [k \in Pkt |-> NoEntries]
      /\ printAt' = now + Period
      /\ UNCHANGED << simTime, now, phase, traffic >>
  BY DEF TracerInv, PrintTraces, Clear, ScheduleNext
<1>2. rows' = rows \o new /\ new \in Seq(Row) /\ OneForEachEntry(new)
  BY <1>1, NewRows DEF PrintTraces
<1> HIDE DEF new
<1>3. /\ n \in Nat /\ DOMAIN rows = 1 .. n
      /\ Len(new) \in Nat /\ DOMAIN new = 1 .. Len(new)
      /\ rows' \in Seq(Row) /\ DOMAIN rows' = 1 .. n + Len(new)
      /\ \A i \in DOMAIN rows : rows'[i] = rows[i]
      /\ \A i \in DOMAIN new : rows'[n + i] = new[i]
  BY <1>1, <1>2 DEF TypeOK
<1> HIDE DEF n
<1>4. \A i \in DOMAIN rows' : \/ i \in DOMAIN rows /\ rows'[i] = rows[i]
                              \/ i - n \in DOMAIN new /\ rows'[i] = new[i - n]
  <2>1. ASSUME NEW i \in DOMAIN rows', i \notin DOMAIN rows
        PROVE  i - n \in DOMAIN new /\ rows'[i] = new[i - n]
    <3>1. i - n \in DOMAIN new /\ i = n + (i - n)
      BY <1>3, <2>1
    <3>2. QED
      BY <1>3, <3>1
  <2>2. QED
    BY <1>3, <2>1
<1>5. DOMAIN inChannels' = Pkt /\ \A k \in Pkt : DOMAIN inChannels'[k] = {}
  BY <1>1 DEF NoEntries
<1>6. TypeOK' /\ EntryInv'
  BY <1>1, <1>3, <1>5, FS_EmptySet DEF TypeOK, EntryInv
<1>7. /\ lastPrint' = now /\ lastPrint < now /\ lastPrint \in Int /\ now \in Nat
      /\ simTime \in Nat /\ Period \in Nat /\ Period > 0
  BY <1>1, TracerAssumption DEF lastPrint, TypeOK
<1>8. TimeInv'
  <2>1. \E m \in Nat : printAt' = Period * m + Period
    <3>1. PICK m \in Nat : printAt = Period * m + Period
      BY <1>1 DEF TimeInv
    <3>2. Period * (m + 1) = Period * m + Period
      BY <1>7
    <3>3. printAt' = Period * (m + 1) + Period /\ m + 1 \in Nat
      BY <1>1, <3>1, <3>2
    <3>4. QED
      BY <3>3
  <2>2. QED
    BY <1>1, <1>7, <2>1 DEF TimeInv
<1>9. \A i \in DOMAIN new :
        /\ new[i].at = now /\ Count(new[i]) > 0
        /\ \A j \in DOMAIN new : new[i].pkt = new[j].pkt /\ new[i].channel = new[j].channel => i = j
  <2>1. ASSUME NEW i \in DOMAIN new
        PROVE  \E k \in Pkt : \E c \in DOMAIN inChannels[k] :
                 /\ new[i] = RowOf(k, c) /\ new[i].pkt = k /\ new[i].channel = c
                 /\ new[i].at = now /\ Count(new[i]) > 0
    <3>1. PICK k \in Pkt : \E c \in DOMAIN inChannels[k] : new[i] = RowOf(k, c)
      BY <1>2 DEF OneForEachEntry
    <3>2. PICK c \in DOMAIN inChannels[k] : new[i] = RowOf(k, c)
      BY <3>1
    <3>3. inChannels[k][c] \in [data : Nat \ {0}, interests : {0}]
      BY <1>1 DEF EntryInv
    <3>4. new[i].pkt = k /\ new[i].channel = c /\ new[i].at = now /\ Count(new[i]) > 0
      BY <3>2, <3>3 DEF RowOf, Count
    <3>5. QED
      BY <3>2, <3>4
  <2>2. ASSUME NEW i \in DOMAIN new, NEW j \in DOMAIN new,
               new[i].pkt = new[j].pkt, new[i].channel = new[j].channel
        PROVE  i = j
    <3>1. new[i] = RowOf(new[i].pkt, new[i].channel) /\ new[j] = RowOf(new[j].pkt, new[j].channel)
      BY <2>1
    <3>2. new[i] = new[j]
      BY <2>2, <3>1
    <3>3. QED
      BY <1>2, <3>2 DEF OneForEachEntry
  <2>3. QED
    BY <2>1, <2>2
<1>10. \A i \in DOMAIN rows : rows[i].at \in Nat /\ rows[i].at < now
  <2>1. \A i \in DOMAIN rows : rows[i] \in Row /\ rows[i].at <= lastPrint
    BY <1>1 DEF TypeOK, RowInv
  <2>2. QED
    BY <1>7, <2>1 DEF Row
<1>11. RowInv'
  <2>1. \A i \in DOMAIN rows' : rows'[i].at <= lastPrint'
    BY <1>4, <1>7, <1>9, <1>10
  <2>2. ASSUME NEW i \in DOMAIN rows' PROVE Count(rows'[i]) > 0
    BY <1>1, <1>4, <1>9 DEF RowInv, OneRowPerPeriod
  <2>3. ASSUME NEW i \in DOMAIN rows', NEW j \in DOMAIN rows' \ {i},
               << rows'[i].at, rows'[i].pkt, rows'[i].channel >>
                 = << rows'[j].at, rows'[j].pkt, rows'[j].channel >>
        PROVE  FALSE
    <3>1. rows'[i].at = rows'[j].at /\ rows'[i].pkt = rows'[j].pkt /\ rows'[i].channel = rows'[j].channel
      BY <2>3
    <3>2. CASE i \in DOMAIN rows /\ j \in DOMAIN rows
      <4>1. rows'[i] = rows[i] /\ rows'[j] = rows[j]
        BY <1>3, <3>2
      <4>2. QED
        BY <1>1, <2>3, <3>2, <4>1 DEF RowInv, OneRowPerPeriod
    <3>3. CASE i \in DOMAIN rows /\ j \notin DOMAIN rows
      <4>1. rows'[i].at < now
        BY <1>3, <1>10, <3>3
      <4>3. rows'[j].at = now
        BY <1>4, <1>9, <3>3
      <4>4. QED
        BY <1>7, <3>1, <4>1, <4>3
    <3>4. CASE i \notin DOMAIN rows /\ j \in DOMAIN rows
      <4>1. rows'[j].at < now
        BY <1>3, <1>10, <3>4
      <4>3. rows'[i].at = now
        BY <1>4, <1>9, <3>4
      <4>4. QED
        BY <1>7, <3>1, <4>1, <4>3
    <3>5. CASE i \notin DOMAIN rows /\ j \notin DOMAIN rows
      <4>1. /\ i - n \in DOMAIN new /\ rows'[i] = new[i - n]
            /\ j - n \in DOMAIN new /\ rows'[j] = new[j - n]
        BY <1>4, <3>5
      <4>2. i - n = j - n
        BY <1>9, <3>1, <4>1
      <4>3. i \in Nat /\ j \in Nat
        BY <1>3
      <4>4. QED
        BY <1>3, <2>3, <4>2, <4>3
    <3>6. QED
      BY <3>2, <3>3, <3>4, <3>5
  <2>4. OneRowPerPeriod'
    BY <2>2, <2>3 DEF OneRowPerPeriod, Count
  <2>5. QED
    BY <2>1, <2>4 DEF RowInv
<1>12. ASSUME NEW k \in Pkt, NEW c \in Channel
       PROVE  /\ Printed(k, c)' = Cardinality(Happened(k, c)) /\ Counted(k, c)' = 0
              /\ Cardinality(Happened(k, c)) \in Nat
              /\ Happened(k, c)' = Happened(k, c)
              /\ UpTo(k, c)' = Happened(k, c)
              /\ Cardinality(Before(k, c)') <= Cardinality(Happened(k, c))
  <2>1. Printed(k, c) \in Nat
    BY <1>1 DEF TrafficInv
  <2>2. Printed(k, c)' = Printed(k, c) + Counted(k, c)
    BY <1>1, <1>2, <2>1, PrintMoves
  <2>3. Counted(k, c)' = 0
    BY <1>5 DEF Counted
  <2>4. Happened(k, c)' = Happened(k, c)
    BY <1>1 DEF Happened
  <2>5. Happened(k, c) \in SUBSET DOMAIN traffic
    BY DEF Happened
  <2>6. IsFiniteSet(Happened(k, c)) /\ Cardinality(Happened(k, c)) \in Nat
    BY <1>1, <2>5, HappenedFinite DEF TypeOK
  <2>7. UpTo(k, c)' = Happened(k, c)
    BY <1>1, <1>7, <2>4, <2>5 DEF UpTo, TrafficInv
  <2>8. Before(k, c)' \in SUBSET Happened(k, c)
    BY <2>4 DEF Before
  <2>9. Cardinality(Before(k, c)') <= Cardinality(Happened(k, c))
    BY <2>6, <2>8, FS_Subset
  <2>10. Printed(k, c) + Counted(k, c) = Cardinality(Happened(k, c))
    BY <1>1 DEF EverythingAccountedFor
  <2>11. QED
    BY <2>2, <2>3, <2>4, <2>6, <2>7, <2>9, <2>10
<1>13. EverythingAccountedFor'
  BY <1>12 DEF EverythingAccountedFor
<1>14. TrafficInv'
  <2>1. ASSUME NEW k \in Pkt, NEW c \in Channel
        PROVE  /\ Printed(k, c)' \in Nat
               /\ Printed(k, c)' >= Cardinality(Before(k, c)')
               /\ Printed(k, c)' <= Cardinality(UpTo(k, c)')
    <3>1. Before(k, c)' \in SUBSET DOMAIN traffic
      BY <1>12 DEF Before, Happened
    <3>2. Cardinality(Before(k, c)') \in Nat
      BY <1>1, <3>1, HappenedFinite DEF TypeOK
    <3>3. QED
      BY <1>12, <3>2
  <2>2. QED
    BY <1>1, <2>1 DEF TrafficInv
<1>15. QED
  BY <1>6, <1>8, <1>11, <1>13, <1>14 DEF TracerInv

LEMMA NextHolds == TracerInv /\ [Next]_vars => TracerInv'
<1>1. ASSUME TracerInv, UNCHANGED vars PROVE TracerInv'
  <2>1. /\ TypeOK /\ TimeInv /\ EntryInv /\ RowInv /\ TrafficInv /\ EverythingAccountedFor
        /\ UNCHANGED << simTime, now, phase, inChannels, rows, printAt, traffic >>
    BY <1>1 DEF TracerInv, vars
  <2>2. lastPrint' = lastPrint
    BY <2>1 DEF lastPrint
  <2>3. \A k \in Pkt, c \in Channel :
          /\ Printed(k, c)' = Printed(k, c) /\ Counted(k, c)' = Counted(k, c)
          /\ Happened(k, c)' = Happened(k, c)
          /\ Before(k, c)' = Before(k, c) /\ UpTo(k, c)' = UpTo(k, c)
    BY <2>1, <2>2, SameRows DEF Counted, Happened, Before, UpTo
  <2>4. TypeOK' /\ TimeInv' /\ EntryInv'
    BY <2>1, <2>2 DEF TypeOK, TimeInv, EntryInv
  <2>5. RowInv'
    BY <2>1, <2>2, SameRows DEF RowInv
  <2>6. TrafficInv' /\ EverythingAccountedFor'
    BY <2>1, <2>3 DEF TrafficInv, EverythingAccountedFor
  <2>7. QED
    BY <2>4, <2>5, <2>6 DEF TracerInv
<1>2. QED
  BY <1>1, TickStep, ReportStep, PrintStep, EndStep DEF Next

THEOREM TracerInvariant == Spec => []TracerInv
  BY InitHolds, NextHolds, PTL DEF Spec
-----------------------------------------------------------------------------
(* What a channel reported is in the file or in the counters, every packet *)
(* and every drop exactly once, as long as the tracer lives                *)
(* (P2pChannelTrace, DropChannelTrace, PrintTraces).                       *)
THEOREM NothingIsLostOrRepeated == Spec => []EverythingAccountedFor
<1>1. TracerInv => EverythingAccountedFor
  BY DEF TracerInv
<1>2. QED
  BY <1>1, TracerInvariant, PTL

(* There is no row of zeros, and at most one row per channel and period    *)
(* (PrintTraces, which clears the counters).                               *)
THEOREM OneRowEach == Spec => []OneRowPerPeriod
<1>1. TracerInv => OneRowPerPeriod
  BY DEF TracerInv, RowInv
<1>2. QED
  BY <1>1, TracerInvariant, PTL

(* The quotient is the number of periods that fit.                         *)
LEMMA Quotient ==
  ASSUME NEW d \in Nat \ {0}, NEW q \in Nat, NEW x \in Nat,
         d * q <= x, x < d * q + d
  PROVE  x \div d = q
<1> DEFINE p == x \div d
<1>1. p \in Nat /\ d * p <= x /\ x < d * p + d
  OBVIOUS
<1> HIDE DEF p
<1>2. \A a, b \in Nat : a < b => d * a + d <= d * b
  <2>1. ASSUME NEW a \in Nat, NEW b \in Nat, a < b PROVE d * a + d <= d * b
    <3>1. PICK e \in Nat : b = a + 1 + e
      BY <2>1
    <3>2. d * b = d * a + d + d * e /\ d * e >= 0
      BY <3>1
    <3>3. QED
      BY <3>2
  <2>2. QED
    BY <2>1
<1>3. d * p \in Nat /\ d * q \in Nat
  BY <1>1
<1>4. ~ (p < q)
  BY <1>1, <1>2, <1>3
<1>5. ~ (q < p)
  BY <1>1, <1>2, <1>3
<1>6. QED
  BY <1>1, <1>4, <1>5 DEF p

(* What does not reach the file happened at the time of the last print or  *)
(* after it (the destructor, which closes the file before it prints).      *)
THEOREM OnlyTheTailIsLost == Spec => []OnlyLastPeriodIsLost
<1>1. ASSUME TracerInv, phase = "destroyed" PROVE lastPrint = LastPrint
  <2>1. /\ simTime \in Nat /\ simTime > 0 /\ now = simTime
        /\ lastPrint < simTime /\ simTime <= printAt
    BY <1>1 DEF TracerInv, TypeOK, TimeInv
  <2>2. PICK n \in Nat : printAt = Period * n + Period
    BY <1>1 DEF TracerInv, TimeInv
  <2>3. Period \in Nat \ {0} /\ Period * n \in Nat
    BY TracerAssumption
  <2>4. lastPrint = Period * n
    BY <2>2, <2>3 DEF lastPrint
  <2>5. Period * n <= simTime - 1 /\ simTime - 1 < Period * n + Period /\ simTime - 1 \in Nat
    BY <2>1, <2>2, <2>3, <2>4
  <2>6. (simTime - 1) \div Period = n
    BY <2>3, <2>5, Quotient
  <2>7. QED
    BY <2>4, <2>6 DEF LastPrint
<1>2. ASSUME TracerInv, phase = "destroyed", NEW k \in Pkt, NEW c \in Channel
      PROVE  /\ Printed(k, c) >= Cardinality({ i \in Happened(k, c) : traffic[i].at < LastPrint })
             /\ Printed(k, c) <= Cardinality({ i \in Happened(k, c) : traffic[i].at <= LastPrint })
  <2>1. /\ Before(k, c) = { i \in Happened(k, c) : traffic[i].at < LastPrint }
        /\ UpTo(k, c) = { i \in Happened(k, c) : traffic[i].at <= LastPrint }
    BY <1>1, <1>2 DEF Before, UpTo
  <2>2. Printed(k, c) >= Cardinality(Before(k, c)) /\ Printed(k, c) <= Cardinality(UpTo(k, c))
    BY <1>2 DEF TracerInv, TrafficInv
  <2>3. QED
    BY <2>1, <2>2
<1>3. TracerInv => OnlyLastPeriodIsLost
  BY <1>2 DEF OnlyLastPeriodIsLost
<1>4. QED
  BY <1>3, TracerInvariant, PTL
=============================================================================
