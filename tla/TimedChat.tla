----------------------------- MODULE TimedChat ------------------------------
(***************************************************************************)
(* The clock that the other modules leave out: the generator of the        *)
(* message schedule (sync-eval.cc), the applications that schedule         *)
(* SendMessage at the times of its lines, and the rows that SeqNoTracer    *)
(* writes, from which the scripts compute delays.                          *)
(*                                                                         *)
(* Abstraction: a unit of time is the shortest distance of two lines; what *)
(* takes less happens at one value of now.  Of the two applications only   *)
(* what bears on the times is here: a MucClient waits for its connection,  *)
(* may lose it and retries, a SyncMuc sends at once.  Messages reach the   *)
(* others in order, those of a MucClient possibly with gaps.               *)
(***************************************************************************)
EXTENDS SeqNoTraces, Sequences, FiniteSets, SequencesExt, FiniteSetsExt

CONSTANTS
  NLines,     \* totalNumberOfMessages
  Delays,     \* values of interMessageDelay
  MaxBreaks,  \* bound: connections of MucClients that break
  Retry,      \* from OnError to TryConnect
  MaxTime     \* bound: the clock stops here

ASSUME TimedAssumption ==
  /\ IsFiniteSet(App)
  /\ NLines \in Nat \ {0}
  /\ Delays \subseteq Nat \ {0}
  /\ MaxBreaks \in Nat
  /\ Retry \in Nat \ {0} /\ MaxTime \in Nat

StartTime == 1   \* "clients should start at the same time !"

Kind == {"SyncMuc", "MucClient"}

VARIABLES
  kind,       \* which application the scenario installs
  phase,      \* "generate", "run"
  absTime,    \* of the generator
  file,       \* the input file: file[i] is a row of it
  now,
  left,       \* left[c]: m_inputLen
  link,       \* link[c]: "off", "connecting", "up", "retry"
  retryAt,    \* retryAt[c]: when m_retryEvent is due
  events,     \* the scheduled SendMessage, in the order of scheduling
  rows,       \* what the SeqNoTracers wrote
  breaks,     \* counts the connections that broke
  sent        \* history variable: sent[c][k] is the line sent as number k - 1, and when

setUp == << kind, phase, absTime, file >>
appVars == << left, link, retryAt >>
vars == << traceVars, setUp, now, appVars, events, rows, breaks, sent >>

(* Rows of the file: the ids of the clients, an empty one, the count, and  *)
(* the lines.                                                              *)
IdRow(c) == [row |-> "id", client |-> c, value |-> 0]
Separator == [row |-> "empty", client |-> "", value |-> 0]
CountRow(n) == [row |-> "count", client |-> "", value |-> n]
LineRow(c, time) == [row |-> "line", client |-> c, value |-> time]

Init ==
  /\ TracesInit
  /\ kind \in Kind
  /\ phase = "generate"
  /\ absTime = 0
  /\ file = SetToSeq({ IdRow(c) : c \in App }) \o << Separator, CountRow(NLines) >>
  /\ now = 0
  /\ left = [c \in App |-> 0]
  /\ link = [c \in App |-> "off"]
  /\ retryAt = [c \in App |-> 0]
  /\ events = << >>
  /\ rows = << >>
  /\ breaks = 0
  /\ sent = [c \in App |-> << >>]

Written == Len(file) - (Cardinality(App) + 2)

(* absTime += interMessageDelay.GetValue ()                                *)
AdvanceAbsTime(delay) == absTime' = absTime + delay

GenerateLine(c) ==
  /\ phase = "generate"
  /\ Written < NLines
  /\ \E delay \in Delays : AdvanceAbsTime(delay)
  /\ file' = Append(file, LineRow(c, absTime'))
  /\ UNCHANGED << traceVars, kind, phase, now, appVars, events, rows, breaks, sent >>

(* The row at which an application stands after its constructor has        *)
(* skipped everything up to the first empty row.                           *)
CountRowIndex == 1 + Min({ i \in DOMAIN file : file[i].row = "empty" })

(* The ids that main reads: as many rows as there are clients.             *)
clientIds == { file[i].client : i \in 1 .. Cardinality(App) }

(* An application per id; its constructor reads the count and stays behind *)
(* it.                                                                     *)
CreateApps ==
  /\ phase = "generate"
  /\ Written = NLines
  /\ phase' = "run"
  /\ left' = [c \in App |-> IF c \in clientIds THEN file[CountRowIndex].value ELSE 0]
  /\ UNCHANGED << traceVars, kind, absTime, file, now, link, retryAt, events, rows, breaks, sent >>

-----------------------------------------------------------------------------
(* Sending.                                                                *)

(* Line i of the file, and the lines that c still finds.                   *)
LineAt(i) == file[CountRowIndex + i]
OwnLines(c) == { i \in 1 .. NLines : LineAt(i).client = c }

(* Mutant: the line behind the position is skipped.                        *)
Ahead_SkipsOne(c, n) == { i \in OwnLines(c) : i > NLines - n + 1 }

Ahead(c, n) == { i \in OwnLines(c) : i > NLines - n }

(* The do-while scan of ScheduleNextMessage ends at line i.                *)
IsNextLine(c, i) == i \in Ahead(c, left[c]) /\ \A j \in Ahead(c, left[c]) : i <= j

(* Mutant: a MucClient schedules as a SyncMuc does.                        *)
DueTime_NoGuard(time) == time

(* Mutant: one unit too early.                                             *)
DueTime_Early(time) == IF time > now THEN time - 1 ELSE now

(* MucClient schedules a line whose time has passed for now; SyncMuc       *)
(* computes a negative delay.                                              *)
DueTime(time) == IF kind = "MucClient" /\ now > time THEN now ELSE time

(* The last lines are read, or one event is added to others.               *)
ScheduleNextMessage(c, others) ==
  \/ /\ Ahead(c, left[c]) = {}
     /\ left' = [left EXCEPT ![c] = 0]
     /\ events' = others
  \/ \E i \in 1 .. NLines :
       /\ IsNextLine(c, i)
       /\ left' = [left EXCEPT ![c] = NLines - i]
       /\ events' = Append(others, [at |-> DueTime(LineAt(i).value), client |-> c, line |-> i])

(* Of the earliest events the first scheduled; an event in the past would  *)
(* run now.                                                                *)
IsDue(k) ==
  /\ k \in DOMAIN events
  /\ events[k].at <= now
  /\ \A j \in DOMAIN events : events[k].at < events[j].at \/ (events[k].at = events[j].at /\ k <= j)

Row(n, p, seqNo) == [time |-> now, node |-> n, from |-> p, seqNo |-> seqNo]

(* Mutant: the row of the own message is not written.                      *)
TraceOwn_Silent(c) == rows' = rows

(* SeqNoTrace of c fires for its own message: OnNewSeqNo writes a row.     *)
TraceOwn(c) == rows' = Append(rows, Row(c, c, latest[c]))

(* Without a connection the event does nothing, not even schedule.         *)
SendMessage(k) ==
  /\ IsDue(k)
  /\ LET c == events[k].client
         others == RemoveAt(events, k)
     IN  \/ /\ link[c] = "up"
            /\ Generate(c)
            /\ TraceOwn(c)
            /\ sent' = [sent EXCEPT ![c] = Append(@, [line |-> events[k].line, time |-> now])]
            /\ ScheduleNextMessage(c, others)
         \/ /\ link[c] # "up"
            /\ events' = others
            /\ UNCHANGED << traceVars, rows, sent, left >>
  /\ UNCHANGED << setUp, now, link, retryAt, breaks >>

-----------------------------------------------------------------------------
(* Life of an application.                                                 *)

(* SyncMuc needs no connection; MucClient calls TryConnect.                *)
StartApplication(c) ==
  /\ phase = "run"
  /\ c \in clientIds /\ now = StartTime /\ link[c] = "off"
  /\ \/ /\ kind = "SyncMuc"
        /\ link' = [link EXCEPT ![c] = "up"]
        /\ ScheduleNextMessage(c, events)
     \/ /\ kind = "MucClient"
        /\ link' = [link EXCEPT ![c] = "connecting"]
        /\ UNCHANGED << left, events >>
  /\ UNCHANGED << traceVars, setUp, now, retryAt, rows, breaks, sent >>

(* The handshake takes any time, failed attempts included.                 *)
OnConnectSucceed(c) ==
  /\ link[c] = "connecting"
  /\ link' = [link EXCEPT ![c] = "up"]
  /\ ScheduleNextMessage(c, events)
  /\ UNCHANGED << traceVars, setUp, now, retryAt, rows, breaks, sent >>

OnError(c) ==
  /\ kind = "MucClient"
  /\ link[c] = "up"
  /\ breaks < MaxBreaks
  /\ breaks' = breaks + 1
  /\ link' = [link EXCEPT ![c] = "retry"]
  /\ retryAt' = [retryAt EXCEPT ![c] = now + Retry]
  /\ UNCHANGED << traceVars, setUp, now, left, events, rows, sent >>

TryConnect(c) ==
  /\ link[c] = "retry" /\ retryAt[c] = now
  /\ link' = [link EXCEPT ![c] = "connecting"]
  /\ UNCHANGED << traceVars, setUp, now, left, retryAt, events, rows, breaks, sent >>

(* Messages of p that n has not been told of: for a SyncMuc the next one,  *)
(* a MucClient misses what was sent before it was connected.               *)
IsNews(n, p, seqNo) ==
  /\ seen[n][p] <= seqNo /\ seqNo < latest[p]
  /\ kind = "SyncMuc" => seqNo = seen[n][p]

(* SeqNoTrace of n fires for a message of p: OnNewSeqNo writes a row.      *)
ReceiveMessage(n, p) ==
  /\ n # p /\ link[n] = "up"
  /\ \E seqNo \in 0 .. NLines :
       /\ IsNews(n, p, seqNo)
       /\ seen' = [seen EXCEPT ![n][p] = seqNo + 1]
       /\ rows' = Append(rows, Row(n, p, seqNo))
  /\ UNCHANGED << latest, setUp, now, appVars, events, breaks, sent >>

(* Time passes when nothing is left to do now.                             *)
Tick ==
  /\ phase = "run"
  /\ now < MaxTime
  /\ now = StartTime => \A c \in App : link[c] # "off"
  /\ \A k \in DOMAIN events : events[k].at > now
  /\ \A c \in App : link[c] = "retry" => retryAt[c] > now
  /\ now' = now + 1
  /\ UNCHANGED << traceVars, setUp, appVars, events, rows, breaks, sent >>

Next ==
  \/ \E c \in App : GenerateLine(c)
  \/ CreateApps
  \/ \E c \in App : StartApplication(c)
  \/ \E c \in App : OnConnectSucceed(c)
  \/ \E c \in App : OnError(c)
  \/ \E c \in App : TryConnect(c)
  \/ \E k \in DOMAIN events : SendMessage(k)
  \/ \E n, p \in App : ReceiveMessage(n, p)
  \/ Tick

Spec == Init /\ [][Next]_vars

-----------------------------------------------------------------------------
(* Properties.                                                             *)

(* No SendMessage is ever scheduled for a time that has passed.  SyncMuc   *)
(* (sync-muc.cc:203) does not look; it owes this to the generator, whose   *)
(* times grow by at least what an application waits before its start.      *)
NeverInThePast == \A k \in DOMAIN events : events[k].at >= now

(* Messages leave in the order of their lines even when the chain of an    *)
(* old connection runs beside that of a new one, never before their time,  *)
(* and those of SyncMuc exactly at it.                                     *)
SentInLineOrder ==
  \A c \in App : \A k \in DOMAIN sent[c] :
    /\ sent[c][k].line \in OwnLines(c)
    /\ sent[c][k].time >= LineAt(sent[c][k].line).value
    /\ kind = "SyncMuc" => sent[c][k].time = LineAt(sent[c][k].line).value
    /\ \A m \in DOMAIN sent[c] : m < k => sent[c][m].line < sent[c][k].line

(* What the scripts join on when they take a message's delay from the row  *)
(* of its sender (figure 14): no row is written twice, and a row of a      *)
(* receiver comes after the row of the sender, not earlier in time.        *)
DelaysAreDefined ==
  \A i \in DOMAIN rows :
    /\ \A j \in DOMAIN rows \ {i} :
         << rows[i].node, rows[i].from, rows[i].seqNo >> # << rows[j].node, rows[j].from, rows[j].seqNo >>
    /\ \E j \in 1 .. i : /\ rows[j].node = rows[i].from /\ rows[j].from = rows[i].from
                         /\ rows[j].seqNo = rows[i].seqNo
                         /\ rows[j].time <= rows[i].time

(* What the scripts join on when they take the delay from the input file   *)
(* (figure 10, "Assign sequence numbers to input"): the message with       *)
(* number k is the one of the sender's line k, counted from 0, as long as  *)
(* no connection has broken.  (After a break, a line whose event ran in    *)
(* between is lost without taking a number, standard-muc.cc:364.)          *)
NumberIsLine ==
  breaks = 0 => \A c \in App : \A k \in DOMAIN sent[c] :
    Cardinality({ i \in OwnLines(c) : i < sent[c][k].line }) = k - 1
=============================================================================
