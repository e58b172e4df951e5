-------------------------- MODULE TimedChatProofs ---------------------------
(***************************************************************************)
(* The clock of a run, for any number of applications and lines: nothing   *)
(* is scheduled for the past, messages leave in the order of their lines,  *)
(* the rows of the tracers can be joined, and the numbers are the lines.   *)
(*                                                                         *)
(* The invariant describes the file that the generator has written, the    *)
(* queue of events, in which the chains of one application run beside each *)
(* other in the order of their lines, and what has been sent: lines before *)
(* those in the queue, which come before those still to be scanned.        *)
(***************************************************************************)
EXTENDS TimedChat, SequenceLemmas

Lines == 1 .. NLines
Header == Cardinality(App) + 2

FileRow == [row : {"id", "empty", "count", "line"}, client : App \union {""}, value : Nat]
Event == [at : Nat, client : App, line : Lines]
Sending == [line : Lines, time : Nat]
TraceRow == [time : Nat, node : App, from : App, seqNo : Nat]

TypeOK ==
  /\ kind \in Kind /\ phase \in {"generate", "run"}
  /\ absTime \in Nat /\ now \in Nat /\ breaks \in Nat
  /\ file \in Seq(FileRow)
  /\ left \in [App -> 0 .. NLines]
  /\ link \in [App -> {"off", "connecting", "up", "retry"}]
  /\ events \in Seq(Event)
  /\ rows \in Seq(TraceRow)
  /\ sent \in [App -> Seq(Sending)]
  /\ latest \in [App -> Nat] /\ seen \in [App -> [App -> Nat]]

(* The file that has been written so far, whose times grow.                *)
FileInv ==
  /\ Len(file) \in Header .. Header + NLines
  /\ phase = "run" => Len(file) = Header + NLines
  /\ clientIds = App
  /\ { i \in DOMAIN file : file[i].row = "empty" } = { Header - 1 }
  /\ file[Header].value = NLines
  /\ \A i \in DOMAIN file : i > Header =>
       /\ StartTime <= file[i].value /\ file[i].value <= absTime
       /\ \A j \in DOMAIN file : Header < j /\ j < i => file[j].value < file[i].value

(* Nothing runs before the file is complete, and a SyncMuc never waits for *)
(* a connection.                                                           *)
StartInv ==
  /\ phase = "generate" => \A c \in App : link[c] = "off" /\ sent[c] = << >>
  /\ phase = "generate" => events = << >>
  /\ kind = "SyncMuc" => \A c \in App : link[c] \in {"off", "up"}

(* Who is scheduled for what: an own line before the ones still to be      *)
(* scanned, not before its time, and later only if that had passed.        *)
Queued(queue) ==
  \A k \in DOMAIN queue :
    LET e == queue[k] IN
    /\ e.line \in OwnLines(e.client) /\ e.line <= NLines - left[e.client]
    /\ e.at >= now /\ e.at >= LineAt(e.line).value
    /\ e.at <= now \/ e.at = LineAt(e.line).value
    /\ kind = "SyncMuc" => e.at = LineAt(e.line).value

(* The chains of one application run beside each other in order.           *)
Chained(queue) ==
  \A j, k \in DOMAIN queue :
    j < k /\ queue[j].client = queue[k].client =>
      queue[j].line < queue[k].line /\ queue[j].at <= queue[k].at

(* What c has sent comes before what it is scheduled for.                  *)
SentBefore(done, queue) ==
  \A c \in App : \A k \in DOMAIN done[c] : \A j \in DOMAIN queue :
    queue[j].client = c => done[c][k].line < queue[j].line

SentInOrder(done) ==
  \A c \in App : \A k \in DOMAIN done[c] :
    LET s == done[c][k] IN
    /\ s.line \in OwnLines(c) /\ s.line <= NLines - left[c]
    /\ s.time >= LineAt(s.line).value
    /\ kind = "SyncMuc" => s.time = LineAt(s.line).value
    /\ \A m \in DOMAIN done[c] : m < k => done[c][m].line < s.line

Before(c, i) == { x \in OwnLines(c) : x < i }
Scanned(c) == { x \in OwnLines(c) : x <= NLines - left[c] }

NoneOf(c, queue) == \A k \in DOMAIN queue : queue[k].client # c

(* While no connection has broken there is one chain at most, which starts *)
(* with the connection and leaves no line out.                             *)
Single(done, queue) ==
  breaks = 0 =>
    \A k \in DOMAIN queue :
      LET e == queue[k] IN
      /\ left[e.client] = NLines - e.line
      /\ Cardinality(Before(e.client, e.line)) = Len(done[e.client])
      /\ \A j \in DOMAIN queue : queue[j].client = e.client => j = k

Numbered(done) ==
  breaks = 0 => \A c \in App : \A k \in DOMAIN done[c] :
    Cardinality(Before(c, done[c][k].line)) = k - 1

LinkInv ==
  /\ kind = "SyncMuc" => breaks = 0
  /\ breaks = 0 =>
       \A c \in App :
         /\ link[c] # "retry"
         /\ link[c] # "up" => sent[c] = << >> /\ NoneOf(c, events)
         /\ link[c] # "up" /\ phase = "run" => left[c] = NLines

ChainInv ==
  /\ Queued(events) /\ Chained(events)
  /\ SentBefore(sent, events) /\ SentInOrder(sent)
  /\ Single(sent, events) /\ Numbered(sent) /\ LinkInv

(* A number that was reported has its row, and its sender has one before.  *)
RowInv ==
  /\ \A p \in App : seen[p][p] = latest[p]
  /\ \A i \in DOMAIN rows :
       /\ rows[i].time <= now
       /\ rows[i].seqNo < seen[rows[i].node][rows[i].from]
       /\ rows[i].seqNo < latest[rows[i].from]
  /\ \A p \in App : \A q \in Nat : q < latest[p] =>
       \E i \in DOMAIN rows : rows[i].node = p /\ rows[i].from = p /\ rows[i].seqNo = q

TimedInv == TypeOK /\ FileInv /\ StartInv /\ ChainInv /\ RowInv /\ DelaysAreDefined
-----------------------------------------------------------------------------
(* The file.                                                               *)

LEMMA HeaderLength == Cardinality(App) \in Nat /\ Header \in Nat /\ Header - 1 \in Nat
<1>1. Cardinality(App) \in Nat
  BY TimedAssumption, FS_CardinalityType
<1>2. QED
  BY <1>1 DEF Header

LEMMA CountRowIs ==
  ASSUME FileInv
  PROVE  CountRowIndex = Header
<1>1. Min({Header - 1}) = Header - 1
  BY HeaderLength DEF Min
<1>2. { i \in DOMAIN file : file[i].row = "empty" } = { Header - 1 }
  BY DEF FileInv
<1>3. CountRowIndex = 1 + (Header - 1)
  BY <1>1, <1>2 DEF CountRowIndex
<1>4. QED
  BY <1>3, HeaderLength

LEMMA LinesAreRows ==
  ASSUME TypeOK, FileInv, phase = "run"
  PROVE  /\ \A i \in Lines : LineAt(i) \in FileRow /\ StartTime <= LineAt(i).value
         /\ \A i, j \in Lines : j < i => LineAt(j).value < LineAt(i).value
<1>1. NLines \in Nat /\ Header \in Nat
  BY TimedAssumption, HeaderLength
<1>2. Len(file) = Header + NLines /\ file \in Seq(FileRow)
  BY DEF FileInv, TypeOK
<1>3. \A i \in Lines : /\ LineAt(i) = file[Header + i]
                       /\ Header + i \in DOMAIN file /\ Header + i > Header
  BY <1>1, <1>2, CountRowIs DEF LineAt, Lines
<1>4. \A i, j \in Lines : j < i => Header + j < Header + i
  BY <1>1 DEF Lines
<1>5. QED
  BY <1>2, <1>3, <1>4 DEF FileInv

(* The rows before the lines: an id for each application, the empty row,   *)
(* the count.                                                              *)
LEMMA InitFile == Init => FileInv /\ file \in Seq(FileRow)
<1> SUFFICES ASSUME Init PROVE FileInv /\ file \in Seq(FileRow)
  OBVIOUS
<1> DEFINE ids == { IdRow(c) : c \in App }
           front == SetToSeq(ids)
           back == << Separator, CountRow(NLines) >>
           apps == Cardinality(App)
<1>1. apps \in Nat /\ NLines \in Nat
  BY HeaderLength, TimedAssumption
<1>2. IsFiniteSet(ids) /\ Cardinality(ids) = apps
  <2> DEFINE f == [c \in App |-> IdRow(c)]
  <2>1. f \in Bijection(App, ids)
    BY DEF Bijection, Injection, Surjection, IsInjective, IdRow
  <2>2. ExistsBijection(App, ids)
    BY <2>1 DEF ExistsBijection
  <2>3. QED
    BY <2>2, TimedAssumption, FS_Bijection
<1>3. /\ front \in [1 .. apps -> ids]
      /\ \A i \in 1 .. apps : front[i] \in ids
      /\ \A x \in ids : \E i \in 1 .. apps : front[i] = x
  BY <1>2, SetToSeqElements
<1> HIDE DEF front, ids
<1>4. ids \subseteq FileRow
  <2>1. \A c \in App : IdRow(c) \in FileRow
    BY DEF FileRow, IdRow
  <2>2. QED
    BY <2>1 DEF ids
<1>5. front \in Seq(FileRow) /\ Len(front) = apps
  BY <1>1, <1>3, <1>4
<1>6. /\ back \in Seq(FileRow) /\ Len(back) = 2
      /\ back[1] = Separator /\ back[2] = CountRow(NLines)
  BY <1>1 DEF FileRow, Separator, CountRow
<1> HIDE DEF back
<1>7. /\ file = front \o back
      /\ absTime = 0 /\ phase = "generate"
  BY DEF Init, front, ids, back
<1>8. /\ front \o back \in Seq(FileRow)
      /\ Len(front \o back) = Len(front) + Len(back)
      /\ \A i \in 1 .. Len(front) + Len(back) :
           (front \o back)[i] = IF i <= Len(front) THEN front[i] ELSE back[i - Len(front)]
  BY <1>5, <1>6, ConcatProperties
<1>9. /\ file \in Seq(FileRow) /\ Len(file) = apps + 2
      /\ \A i \in 1 .. apps + 2 : file[i] = IF i <= apps THEN front[i] ELSE back[i - apps]
  BY <1>8, <1>1, <1>5, <1>6, <1>7
<1>10. \A i \in 1 .. apps : file[i] \in ids /\ file[i] = front[i]
  BY <1>1, <1>3, <1>9
<1>11. file[apps + 1] = Separator /\ file[apps + 2] = CountRow(NLines)
  BY <1>1, <1>6, <1>9
<1>12. /\ Separator.row = "empty"
       /\ CountRow(NLines).row = "count" /\ CountRow(NLines).value = NLines
  BY DEF Separator, CountRow
<1>13. clientIds = App
  <2>1. \A i \in 1 .. apps : file[i].client \in App
    BY <1>10 DEF ids, IdRow
  <2>2. ASSUME NEW c \in App
        PROVE  \E i \in 1 .. apps : file[i].client = c
    <3>1. IdRow(c) \in ids
      BY DEF ids
    <3>2. PICK i \in 1 .. apps : front[i] = IdRow(c)
      BY <1>3, <3>1
    <3>3. QED
      BY <1>10, <3>2 DEF IdRow
  <2>3. QED
    BY <2>1, <2>2 DEF clientIds
<1>14. { i \in DOMAIN file : file[i].row = "empty" } = { Header - 1 }
  <2>1. Header - 1 = apps + 1 /\ Header - 1 \in DOMAIN file
    BY <1>1, <1>9 DEF Header
  <2>2. \A i \in DOMAIN file : i \in 1 .. apps \/ i = apps + 1 \/ i = apps + 2
    BY <1>1, <1>9
  <2>3. \A i \in 1 .. apps : file[i].row = "id"
    BY <1>10 DEF ids, IdRow
  <2>4. file[apps + 1].row = "empty" /\ file[apps + 2].row = "count"
    BY <1>11, <1>12
  <2>5. QED
    BY <2>1, <2>2, <2>3, <2>4
<1>15. file[Header].value = NLines /\ Len(file) = Header
  BY <1>9, <1>11, <1>12 DEF Header
<1>16. \A i \in DOMAIN file : ~ (i > Header)
  BY <1>9, <1>15, HeaderLength
<1>17. Len(file) \in Header .. Header + NLines
  BY <1>1, <1>15, HeaderLength
<1>18. QED
  BY <1>7, <1>9, <1>13, <1>14, <1>15, <1>16, <1>17 DEF FileInv

LEMMA GenerateKeepsFile ==
  ASSUME TypeOK, FileInv, NEW c \in App, GenerateLine(c)
  PROVE  FileInv' /\ file' \in Seq(FileRow) /\ absTime' \in Nat
<1>1. PICK delay \in Delays : absTime' = absTime + delay
  BY DEF GenerateLine, AdvanceAbsTime
<1>2. /\ delay \in Nat /\ delay > 0 /\ absTime \in Nat /\ NLines \in Nat
      /\ absTime' \in Nat /\ absTime < absTime'
  BY <1>1, TimedAssumption DEF TypeOK
<1>3. /\ file' = Append(file, LineRow(c, absTime')) /\ file \in Seq(FileRow)
      /\ Len(file) - Header < NLines /\ phase' = "generate"
      /\ Header \in Nat /\ Header - 1 \in Nat /\ Len(file) >= Header
  BY HeaderLength DEF GenerateLine, TypeOK, Written, Header, FileInv
<1>4. LineRow(c, absTime') \in FileRow
  BY <1>2 DEF FileRow, LineRow
<1>5. /\ file' \in Seq(FileRow) /\ Len(file') = Len(file) + 1
      /\ \A i \in DOMAIN file : i \in DOMAIN file' /\ file'[i] = file[i]
      /\ file'[Len(file) + 1] = LineRow(c, absTime')
      /\ \A i \in DOMAIN file' : i \in DOMAIN file \/ i = Len(file) + 1
      /\ DOMAIN file = 1 .. Len(file) /\ Len(file) \in Nat
  BY <1>3, <1>4
<1>6. clientIds' = App
  <2>1. \A i \in 1 .. Cardinality(App) : file'[i] = file[i]
    BY <1>3, <1>5, HeaderLength DEF Header
  <2>2. QED
    BY <2>1 DEF FileInv, clientIds
<1>7. { i \in DOMAIN file' : file'[i].row = "empty" } = { Header - 1 }
  <2>1. file'[Len(file) + 1].row = "line"
    BY <1>5 DEF LineRow
  <2>2. \A i : i \in DOMAIN file /\ file[i].row = "empty" <=> i = Header - 1
    BY DEF FileInv
  <2>3. \A i : i \in DOMAIN file' /\ file'[i].row = "empty" <=> i = Header - 1
    BY <1>5, <2>1, <2>2
  <2>4. QED
    BY <2>3
<1>8. file'[Header].value = NLines
  <2>1. Header \in DOMAIN file
    BY <1>3, <1>5, HeaderLength
  <2>2. QED
    BY <1>5, <2>1 DEF FileInv
<1>9. ASSUME NEW i \in DOMAIN file', i > Header
      PROVE  /\ StartTime <= file'[i].value /\ file'[i].value <= absTime'
             /\ \A j \in DOMAIN file' : Header < j /\ j < i => file'[j].value < file'[i].value
  <2>1. \A j \in DOMAIN file : j > Header =>
          file[j].value \in Nat /\ StartTime <= file[j].value /\ file[j].value <= absTime
    <3>1. \A j \in DOMAIN file : file[j] \in FileRow
      BY <1>3
    <3>2. \A j \in DOMAIN file : file[j].value \in Nat
      BY <3>1 DEF FileRow
    <3>3. QED
      BY <3>2 DEF FileInv
  <2>2. CASE i \in DOMAIN file
    <3>1. \A j \in DOMAIN file' : j < i => j \in DOMAIN file
      BY <1>5, <2>2
    <3>2. QED
      BY <1>2, <1>5, <1>9, <2>1, <2>2, <3>1 DEF FileInv
  <2>3. CASE i = Len(file) + 1
    <3>1. file'[i].value = absTime' /\ StartTime <= absTime'
      BY <1>2, <1>5, <2>3 DEF LineRow, StartTime
    <3>2. \A j \in DOMAIN file' : j < i => j \in DOMAIN file /\ file'[j] = file[j]
      BY <1>5, <2>3
    <3>3. QED
      BY <1>2, <2>1, <3>1, <3>2
  <2>4. QED
    BY <1>5, <2>2, <2>3
<1>10. Len(file') \in Header .. Header + NLines
  BY <1>2, <1>3, <1>5
<1>11. QED
  BY <1>2, <1>3, <1>5, <1>6, <1>7, <1>8, <1>9, <1>10 DEF FileInv
-----------------------------------------------------------------------------
(* The queue.                                                              *)

LEMMA LinesKept ==
  ASSUME file' = file
  PROVE  /\ \A i \in Lines : LineAt(i)' = LineAt(i)
         /\ \A c \in App : OwnLines(c)' = OwnLines(c)
         /\ \A c \in App, i \in Lines : Before(c, i)' = Before(c, i)
<1>1. CountRowIndex' = CountRowIndex
  BY DEF CountRowIndex
<1>2. \A i \in Lines : LineAt(i)' = LineAt(i)
  BY <1>1 DEF LineAt
<1>3. \A c \in App : OwnLines(c)' = OwnLines(c)
  BY <1>2 DEF OwnLines, Lines
<1>4. QED
  BY <1>2, <1>3 DEF Before

(* Where the event at j of the shorter queue has been.                     *)
Moved(k, j) == IF j < k THEN j ELSE j + 1

LEMMA EventRemoved ==
  ASSUME NEW queue \in Seq(Event), NEW k \in DOMAIN queue
  PROVE  /\ RemoveAt(queue, k) \in Seq(Event)
         /\ \A j \in DOMAIN RemoveAt(queue, k) :
              /\ RemoveAt(queue, k)[j] = queue[Moved(k, j)]
              /\ Moved(k, j) \in DOMAIN queue /\ Moved(k, j) # k
         /\ \A i, j \in DOMAIN RemoveAt(queue, k) :
              /\ i < j => Moved(k, i) < Moved(k, j)
              /\ Moved(k, i) = Moved(k, j) => i = j
<1> DEFINE others == RemoveAt(queue, k)
<1>1. /\ others \in Seq(Event) /\ Len(others) = Len(queue) - 1
      /\ \A j \in DOMAIN others : others[j] = IF j < k THEN queue[j] ELSE queue[j + 1]
  BY RemoveAtElements
<1> HIDE DEF others
<1>2. /\ Len(queue) \in Nat /\ DOMAIN queue = 1 .. Len(queue) /\ k \in 1 .. Len(queue)
      /\ DOMAIN others = 1 .. Len(queue) - 1
  BY <1>1
<1>3. \A j \in DOMAIN others : others[j] = queue[Moved(k, j)]
  BY <1>1 DEF Moved
<1>4. \A j \in DOMAIN others : Moved(k, j) \in DOMAIN queue /\ Moved(k, j) # k
  BY <1>2 DEF Moved
<1>5. \A i, j \in DOMAIN others :
        /\ i < j => Moved(k, i) < Moved(k, j)
        /\ Moved(k, i) = Moved(k, j) => i = j
  BY <1>2 DEF Moved
<1>6. QED
  BY <1>1, <1>3, <1>4, <1>5 DEF others

(* What holds of a queue still holds when an event has left it.            *)
LEMMA RemoveKeeps ==
  ASSUME NEW queue \in Seq(Event), NEW k \in DOMAIN queue, NEW done,
         Queued(queue), Chained(queue)
  PROVE  /\ Queued(RemoveAt(queue, k)) /\ Chained(RemoveAt(queue, k))
         /\ SentBefore(done, queue) => SentBefore(done, RemoveAt(queue, k))
         /\ Single(done, queue) => Single(done, RemoveAt(queue, k))
         /\ \A c \in App : NoneOf(c, queue) => NoneOf(c, RemoveAt(queue, k))
<1> DEFINE others == RemoveAt(queue, k)
<1>1. /\ others \in Seq(Event)
      /\ \A j \in DOMAIN others :
           others[j] = queue[Moved(k, j)] /\ Moved(k, j) \in DOMAIN queue /\ Moved(k, j) # k
  BY EventRemoved
<1>2. \A i, j \in DOMAIN others :
        /\ i < j => Moved(k, i) < Moved(k, j)
        /\ Moved(k, i) = Moved(k, j) => i = j
  BY EventRemoved
<1> HIDE DEF others
<1>3. Queued(others)
  BY <1>1 DEF Queued
<1>4. Chained(others)
  BY <1>1, <1>2 DEF Chained
<1>5. SentBefore(done, queue) => SentBefore(done, others)
  BY <1>1 DEF SentBefore
<1>6. Single(done, queue) => Single(done, others)
  BY <1>1, <1>2 DEF Single
<1>7. \A c \in App : NoneOf(c, queue) => NoneOf(c, others)
  BY <1>1 DEF NoneOf
<1>8. QED
  BY <1>3, <1>4, <1>5, <1>6, <1>7 DEF others

(* ScheduleNextMessage either has nothing left to read or reads up to the  *)
(* next own line and schedules it.                                         *)
LEMMA ScheduleEffect ==
  ASSUME TypeOK, FileInv, phase = "run",
         NEW c \in App, NEW others \in Seq(Event), ScheduleNextMessage(c, others)
  PROVE  /\ left' \in [App -> 0 .. NLines]
         /\ left'[c] <= left[c]
         /\ \A d \in App : d # c => left'[d] = left[d]
         /\ events' \in Seq(Event)
         /\ \/ events' = others
            \/ \E i \in Lines :
                 /\ IsNextLine(c, i) /\ left'[c] = NLines - i
                 /\ events' = Append(others, [at |-> DueTime(LineAt(i).value), client |-> c, line |-> i])
<1>1. /\ NLines \in Nat /\ now \in Nat /\ left \in [App -> 0 .. NLines]
      /\ left[c] \in Nat /\ left[c] <= NLines
  BY TimedAssumption DEF TypeOK
<1>2. CASE Ahead(c, left[c]) = {} /\ left' = [left EXCEPT ![c] = 0] /\ events' = others
  <2>1. left' \in [App -> 0 .. NLines] /\ left'[c] = 0 /\ \A d \in App : d # c => left'[d] = left[d]
    BY <1>1, <1>2
  <2>2. QED
    BY <1>1, <1>2, <2>1
<1>3. ASSUME NEW i \in 1 .. NLines, IsNextLine(c, i),
             left' = [left EXCEPT ![c] = NLines - i],
             events' = Append(others, [at |-> DueTime(LineAt(i).value), client |-> c, line |-> i])
      PROVE  /\ left' \in [App -> 0 .. NLines]
             /\ left'[c] <= left[c] /\ left'[c] = NLines - i
             /\ \A d \in App : d # c => left'[d] = left[d]
             /\ events' \in Seq(Event)
  <2>1. i > NLines - left[c]
    BY <1>3 DEF IsNextLine, Ahead
  <2>2. NLines - i \in 0 .. NLines /\ NLines - i <= left[c]
    BY <1>1, <2>1
  <2>3. /\ left' \in [App -> 0 .. NLines] /\ left'[c] = NLines - i
        /\ \A d \in App : d # c => left'[d] = left[d]
    BY <1>1, <1>3, <2>2
  <2>4. LineAt(i) \in FileRow
    BY <1>3, LinesAreRows DEF Lines
  <2>5. DueTime(LineAt(i).value) \in Nat
    BY <1>1, <2>4 DEF DueTime, FileRow
  <2>6. [at |-> DueTime(LineAt(i).value), client |-> c, line |-> i] \in Event
    BY <1>3, <2>5 DEF Event, Lines
  <2>7. events' \in Seq(Event)
    BY <1>3, <2>6
  <2>8. QED
    BY <2>2, <2>3, <2>7
<1>4. QED
  BY <1>2, <1>3 DEF ScheduleNextMessage, Lines

(* What holds of the queue when c starts to scan holds of it afterwards.   *)
LEMMA ScheduleKeeps ==
  ASSUME TypeOK, FileInv, phase = "run",
         NEW c \in App, NEW others \in Seq(Event), NEW done \in [App -> Seq(Sending)],
         ScheduleNextMessage(c, others), file' = file, UNCHANGED << kind, now, breaks >>,
         Queued(others), Chained(others), SentBefore(done, others), SentInOrder(done),
         Single(done, others), Numbered(done), sent' = done,
         kind = "SyncMuc" => \A i \in Ahead(c, left[c]) : LineAt(i).value >= now,
         breaks = 0 => NoneOf(c, others) /\ Cardinality(Scanned(c)) = Len(done[c])
  PROVE  /\ left' \in [App -> 0 .. NLines] /\ events' \in Seq(Event)
         /\ Queued(events)' /\ Chained(events)'
         /\ SentBefore(sent, events)' /\ SentInOrder(sent)'
         /\ Single(sent, events)' /\ Numbered(sent)'
<1>1. /\ left' \in [App -> 0 .. NLines] /\ events' \in Seq(Event)
      /\ left \in [App -> 0 .. NLines] /\ NLines \in Nat /\ now \in Nat
      /\ left'[c] <= left[c]
      /\ \A d \in App : d # c => left'[d] = left[d]
  BY ScheduleEffect, TimedAssumption DEF TypeOK
<1>2. \A d \in App : left[d] \in Nat /\ left'[d] \in Nat /\ left'[d] <= left[d]
  <2>1. ASSUME NEW d \in App
        PROVE  left[d] \in Nat /\ left'[d] \in Nat /\ left'[d] <= left[d]
    <3>1. left[d] \in 0 .. NLines /\ left'[d] \in 0 .. NLines
      BY <1>1
    <3>2. CASE d = c
      BY <1>1, <3>1, <3>2
    <3>3. CASE d # c
      BY <1>1, <3>1, <3>3
    <3>4. QED
      BY <3>2, <3>3
  <2>2. QED
    BY <2>1
<1>3. /\ \A i \in Lines : LineAt(i)' = LineAt(i)
      /\ \A d \in App : OwnLines(d)' = OwnLines(d)
      /\ \A d \in App, i \in Lines : Before(d, i)' = Before(d, i)
  BY LinesKept
<1>4. \A d \in App : \A k \in DOMAIN done[d] : done[d][k] \in Sending /\ done[d][k].line \in Lines
  <2>1. \A d \in App : done[d] \in Seq(Sending)
    OBVIOUS
  <2>2. \A d \in App : \A k \in DOMAIN done[d] : done[d][k] \in Sending
    BY <2>1
  <2>3. QED
    BY <2>2 DEF Sending
<1>5. Lines \subseteq Nat
  BY DEF Lines
<1>6. \A k \in DOMAIN others : others[k] \in Event
  OBVIOUS
<1>7. \A k \in DOMAIN others :
        others[k].client \in App /\ others[k].line \in Lines /\ others[k].at \in Nat
  BY <1>6 DEF Event
<1>8. SentInOrder(sent)'
  <2>1. ASSUME NEW d \in App, NEW k \in DOMAIN done[d]
        PROVE  /\ done[d][k].line \in OwnLines(d)' /\ done[d][k].line <= NLines - left'[d]
               /\ done[d][k].time >= LineAt(done[d][k].line)'.value
               /\ kind = "SyncMuc" => done[d][k].time = LineAt(done[d][k].line)'.value
               /\ \A m \in DOMAIN done[d] : m < k => done[d][m].line < done[d][k].line
    <3>1. /\ done[d][k].line \in OwnLines(d) /\ done[d][k].line <= NLines - left[d]
          /\ done[d][k].time >= LineAt(done[d][k].line).value
          /\ kind = "SyncMuc" => done[d][k].time = LineAt(done[d][k].line).value
          /\ \A m \in DOMAIN done[d] : m < k => done[d][m].line < done[d][k].line
      BY DEF SentInOrder
    <3>2. done[d][k].line \in Lines /\ done[d][k].line \in Nat
      BY <1>4, <1>5
    <3>3. QED
      BY <1>1, <1>2, <1>3, <3>1, <3>2
  <2>2. QED
    BY <2>1 DEF SentInOrder
<1>9. Numbered(sent)'
  BY <1>3, <1>4 DEF Numbered
<1>10. ASSUME NEW k \in DOMAIN others
       PROVE  LET e == others[k] IN
              /\ e.line \in OwnLines(e.client)' /\ e.line <= NLines - left'[e.client]
              /\ e.at >= now /\ e.at >= LineAt(e.line)'.value
              /\ e.at <= now \/ e.at = LineAt(e.line)'.value
              /\ kind = "SyncMuc" => e.at = LineAt(e.line)'.value
  <2> DEFINE e == others[k]
  <2>1. /\ e.line \in OwnLines(e.client) /\ e.line <= NLines - left[e.client]
        /\ e.at >= now /\ e.at >= LineAt(e.line).value
        /\ e.at <= now \/ e.at = LineAt(e.line).value
        /\ kind = "SyncMuc" => e.at = LineAt(e.line).value
    BY DEF Queued
  <2>2. e.client \in App /\ e.line \in Lines /\ e.line \in Nat
    BY <1>5, <1>7
  <2> HIDE DEF e
  <2>3. e.line <= NLines - left'[e.client]
    BY SMTT(30), <1>1, <1>2, <2>1, <2>2
  <2>4. QED
    BY <1>3, <2>1, <2>2, <2>3 DEF e
<1>11. ASSUME breaks = 0, NEW k \in DOMAIN others
       PROVE  /\ left'[others[k].client] = NLines - others[k].line
              /\ Cardinality(Before(others[k].client, others[k].line)') = Len(done[others[k].client])
              /\ others[k].client # c
              /\ \A j \in DOMAIN others : others[j].client = others[k].client => j = k
  <2>1. others[k].client # c
    BY <1>11 DEF NoneOf
  <2>2. QED
    BY <1>1, <1>3, <1>7, <1>11, <2>1 DEF Single
<1>12. CASE events' = others
  <2>1. Queued(events)'
    BY <1>10, <1>12 DEF Queued
  <2>2. Chained(events)' /\ SentBefore(sent, events)'
    BY <1>12 DEF Chained, SentBefore
  <2>3. Single(sent, events)'
    BY <1>11, <1>12 DEF Single
  <2>4. QED
    BY <1>1, <1>8, <1>9, <2>1, <2>2, <2>3
<1>13. ASSUME NEW i \in Lines, IsNextLine(c, i), left'[c] = NLines - i,
              events' = Append(others, [at |-> DueTime(LineAt(i).value), client |-> c, line |-> i])
       PROVE  /\ Queued(events)' /\ Chained(events)'
              /\ SentBefore(sent, events)' /\ Single(sent, events)'
  <2> DEFINE at == DueTime(LineAt(i).value)
             last == Len(others) + 1
  <2>1. /\ i \in OwnLines(c) /\ i > NLines - left[c] /\ i \in Nat /\ i \in Ahead(c, left[c])
        /\ \A j \in OwnLines(c) : j > NLines - left[c] => i <= j
    BY <1>5, <1>13 DEF IsNextLine, Ahead
  <2>2. LineAt(i).value \in Nat
    <3>1. LineAt(i) \in FileRow
      BY LinesAreRows
    <3>2. QED
      BY <3>1 DEF FileRow
  <2>3. /\ at \in Nat /\ at >= now /\ at >= LineAt(i).value
        /\ at <= now \/ at = LineAt(i).value
        /\ kind = "SyncMuc" => at = LineAt(i).value
    <3>1. kind = "SyncMuc" \/ kind = "MucClient"
      BY DEF TypeOK, Kind
    <3>2. CASE kind = "SyncMuc"
      <4>1. LineAt(i).value >= now
        BY <2>1, <3>2
      <4>2. at = LineAt(i).value
        BY <3>2 DEF DueTime
      <4>3. QED
        BY <2>2, <4>1, <4>2
    <3>3. CASE kind = "MucClient"
      <4>1. at = IF now > LineAt(i).value THEN now ELSE LineAt(i).value
        BY <3>3 DEF DueTime
      <4>2. QED
        BY <1>1, <2>2, <3>3, <4>1
    <3>4. QED
      BY <3>1, <3>2, <3>3
  <2> HIDE DEF at
  <2>4. /\ \A k \in DOMAIN others : events'[k] = others[k] /\ k \in Nat /\ k < last
        /\ events'[last] = [at |-> at, client |-> c, line |-> i]
        /\ DOMAIN events' = DOMAIN others \union {last}
        /\ last \in Nat /\ last \notin DOMAIN others
    BY <1>13 DEF at
  <2>5. events'[last].at = at /\ events'[last].client = c /\ events'[last].line = i
    BY <2>4
  <2> HIDE DEF last
  <2>6. ASSUME NEW k \in DOMAIN others, others[k].client = c
        PROVE  others[k].line < i /\ others[k].at <= at
    <3> DEFINE e == others[k]
    <3>1. /\ e.line <= NLines - left[c]
          /\ e.at <= now \/ e.at = LineAt(e.line).value
          /\ e.line \in Lines /\ e.line \in Nat /\ e.at \in Nat
      BY <1>5, <1>7, <2>6 DEF Queued
    <3> HIDE DEF e
    <3>2. e.line < i
      <4>1. left[c] \in Nat
        BY <1>2
      <4>2. QED
        BY <1>1, <2>1, <3>1, <4>1
    <3>3. LineAt(e.line).value < LineAt(i).value
      BY <3>1, <3>2, LinesAreRows
    <3>4. LineAt(e.line).value \in Nat
      <4>1. LineAt(e.line) \in FileRow
        BY <3>1, LinesAreRows
      <4>2. QED
        BY <4>1 DEF FileRow
    <3>5. QED
      BY SMTT(30), <1>1, <2>2, <2>3, <3>1, <3>2, <3>3, <3>4 DEF e
  <2>7. Queued(events)'
    <3>1. /\ i \in OwnLines(c)' /\ i <= NLines - left'[c]
          /\ at >= now /\ at >= LineAt(i)'.value
          /\ at <= now \/ at = LineAt(i)'.value
          /\ kind = "SyncMuc" => at = LineAt(i)'.value
      BY <1>1, <1>3, <1>13, <2>1, <2>3
    <3>2. QED
      BY <1>10, <2>4, <2>5, <3>1 DEF Queued
  <2>8. Chained(events)'
    <3>1. ASSUME NEW j \in DOMAIN events', NEW k \in DOMAIN events', j < k,
                 events'[j].client = events'[k].client
          PROVE  events'[j].line < events'[k].line /\ events'[j].at <= events'[k].at
      <4>1. j \in DOMAIN others
        BY <2>4, <3>1
      <4>2. CASE k \in DOMAIN others
        BY <2>4, <3>1, <4>1, <4>2 DEF Chained
      <4>3. CASE k = last
        BY <2>4, <2>5, <2>6, <3>1, <4>1, <4>3
      <4>4. QED
        BY <2>4, <4>2, <4>3
    <3>2. QED
      BY <3>1 DEF Chained
  <2>9. SentBefore(sent, events)'
    <3>1. ASSUME NEW d \in App, NEW k \in DOMAIN done[d], NEW j \in DOMAIN events',
                 events'[j].client = d
          PROVE  done[d][k].line < events'[j].line
      <4>1. CASE j \in DOMAIN others
        BY <2>4, <3>1, <4>1 DEF SentBefore
      <4>2. CASE j = last
        <5>1. d = c /\ done[c][k].line <= NLines - left[c] /\ done[c][k].line \in Nat
          BY <1>4, <1>5, <2>5, <3>1, <4>2 DEF SentInOrder
        <5>2. QED
          BY <1>1, <1>2, <2>1, <2>5, <4>2, <5>1
      <4>3. QED
        BY <2>4, <4>1, <4>2
    <3>2. QED
      BY <3>1 DEF SentBefore
  <2>10. Single(sent, events)'
    <3>0. SUFFICES ASSUME breaks = 0, NEW k \in DOMAIN events'
                   PROVE  /\ left'[events'[k].client] = NLines - events'[k].line
                          /\ Cardinality(Before(events[k].client, events[k].line)')
                               = Len(done[events'[k].client])
                          /\ \A j \in DOMAIN events' : events'[j].client = events'[k].client => j = k
      BY DEF Single
    <3>1. CASE k \in DOMAIN others
      <4>1. events'[k] = others[k]
        BY <2>4, <3>1
      <4>2. /\ left'[others[k].client] = NLines - others[k].line
            /\ Cardinality(Before(others[k].client, others[k].line)') = Len(done[others[k].client])
            /\ others[k].client # c
            /\ \A j \in DOMAIN others : others[j].client = others[k].client => j = k
        BY <1>11, <3>0, <3>1
      <4>3. \A j \in DOMAIN events' : events'[j].client = others[k].client => j = k
        BY <2>4, <2>5, <4>2
      <4>4. Before(events[k].client, events[k].line)'
              = Before(others[k].client, others[k].line)'
        BY <4>1 DEF Before, OwnLines
      <4>5. QED
        BY <4>1, <4>2, <4>3, <4>4
    <3>2. CASE k = last
      <4>1. Before(c, i) = Scanned(c)
        <5>1. \A x \in OwnLines(c) : x < i <=> x <= NLines - left[c]
          BY <1>1, <1>2, <2>1 DEF OwnLines
        <5>2. QED
          BY <5>1 DEF Before, Scanned
      <4>2. Cardinality(Before(c, i)') = Len(done[c])
        BY <1>3, <3>0, <4>1
      <4>3. \A j \in DOMAIN others : events'[j].client # c
        BY <1>11, <2>4, <3>0
      <4>4. Before(events[k].client, events[k].line)' = Before(c, i)'
        BY <2>5, <3>2 DEF Before, OwnLines
      <4>5. QED
        BY <1>13, <2>4, <2>5, <3>2, <4>2, <4>3, <4>4
    <3>3. QED
      BY <2>4, <3>1, <3>2
  <2>11. QED
    BY <2>7, <2>8, <2>9, <2>10
<1>14. \/ events' = others
       \/ \E i \in Lines :
            /\ IsNextLine(c, i) /\ left'[c] = NLines - i
            /\ events' = Append(others, [at |-> DueTime(LineAt(i).value), client |-> c, line |-> i])
  BY ScheduleEffect
<1>15. QED
  BY <1>1, <1>8, <1>9, <1>12, <1>13, <1>14
-----------------------------------------------------------------------------
(* The steps.  First what they do to the queue and to what was sent.       *)

(* Nothing is scheduled and nothing has been sent.                         *)
IdleState ==
  /\ events = << >>
  /\ \A c \in App : link[c] = "off" /\ sent[c] = << >>
  /\ phase = "run" => \A c \in App : left[c] = NLines
  /\ kind = "SyncMuc" => breaks = 0

LEMMA NothingToDo == IdleState => ChainInv
<1> SUFFICES ASSUME IdleState PROVE ChainInv
  OBVIOUS
<1>1. /\ events = << >> /\ \A c \in App : link[c] = "off" /\ sent[c] = << >>
      /\ phase = "run" => \A c \in App : left[c] = NLines
      /\ kind = "SyncMuc" => breaks = 0
  BY DEF IdleState
<1>2. Queued(events) /\ Chained(events) /\ Single(sent, events) /\ SentBefore(sent, events)
  BY <1>1 DEF Queued, Chained, Single, SentBefore
<1>3. SentInOrder(sent) /\ Numbered(sent)
  BY <1>1 DEF SentInOrder, Numbered
<1>4. LinkInv
  BY <1>1 DEF LinkInv, NoneOf
<1>5. QED
  BY <1>2, <1>3, <1>4 DEF ChainInv

LEMMA QueueFrame ==
  ASSUME NEW queue, Queued(queue), Chained(queue), SentBefore(sent, queue),
         SentInOrder(sent), Single(sent, queue), Numbered(sent),
         UNCHANGED << kind, file, now, left, breaks, sent >>, events' = queue
  PROVE  /\ Queued(events)' /\ Chained(events)'
         /\ SentBefore(sent, events)' /\ SentInOrder(sent)'
         /\ Single(sent, events)' /\ Numbered(sent)'
<1>1. CountRowIndex' = CountRowIndex
  BY DEF CountRowIndex
<1>2. \A i : LineAt(i)' = LineAt(i)
  BY <1>1 DEF LineAt
<1>3. \A c : OwnLines(c)' = OwnLines(c)
  BY <1>2 DEF OwnLines
<1>4. Queued(events)'
  BY <1>2, <1>3 DEF Queued
<1>5. Chained(events)' /\ SentBefore(sent, events)'
  BY DEF Chained, SentBefore
<1>6. SentInOrder(sent)'
  BY <1>2, <1>3 DEF SentInOrder
<1>7. Single(sent, events)'
  BY <1>3 DEF Single, Before
<1>8. Numbered(sent)'
  BY <1>3 DEF Numbered, Before
<1>9. QED
  BY <1>4, <1>5, <1>6, <1>7, <1>8

(* An application that gets its connection starts a chain.                 *)
LEMMA StartKeepsChains ==
  ASSUME TypeOK, FileInv, StartInv, ChainInv, phase = "run",
         NEW c \in App, link[c] # "up", link' = [link EXCEPT ![c] = "up"],
         kind = "SyncMuc" => now = StartTime,
         ScheduleNextMessage(c, events), UNCHANGED << setUp, now, breaks, sent >>
  PROVE  ChainInv' /\ left' \in [App -> 0 .. NLines] /\ events' \in Seq(Event)
<1>1. /\ kind' = kind /\ phase' = phase /\ file' = file /\ now' = now /\ breaks' = breaks
      /\ sent' = sent /\ events \in Seq(Event) /\ sent \in [App -> Seq(Sending)]
      /\ left \in [App -> 0 .. NLines] /\ NLines \in Nat
  BY TimedAssumption DEF setUp, TypeOK
<1>2. /\ Queued(events) /\ Chained(events) /\ SentBefore(sent, events) /\ SentInOrder(sent)
      /\ Single(sent, events) /\ Numbered(sent) /\ LinkInv
  BY DEF ChainInv
<1>3. kind = "SyncMuc" => \A i \in Ahead(c, left[c]) : LineAt(i).value >= now
  <2>1. \A i \in Lines : LineAt(i).value \in Nat
    <3>1. \A i \in Lines : LineAt(i) \in FileRow
      BY LinesAreRows
    <3>2. QED
      BY <3>1 DEF FileRow
  <2>2. \A i \in Lines : LineAt(i).value >= StartTime
    BY <2>1, LinesAreRows DEF StartTime
  <2>3. Ahead(c, left[c]) \subseteq Lines
    BY DEF Ahead, OwnLines, Lines
  <2>4. QED
    BY <2>2, <2>3
<1>4. breaks = 0 => NoneOf(c, events) /\ Cardinality(Scanned(c)) = Len(sent[c])
  <2> SUFFICES ASSUME breaks = 0
               PROVE  NoneOf(c, events) /\ Cardinality(Scanned(c)) = Len(sent[c])
    OBVIOUS
  <2>1. NoneOf(c, events) /\ sent[c] = << >> /\ left[c] = NLines
    BY <1>2 DEF LinkInv
  <2>2. \A x \in OwnLines(c) : ~ (x <= NLines - left[c])
    BY <1>1, <2>1 DEF OwnLines
  <2>3. Scanned(c) = {}
    BY <2>2 DEF Scanned
  <2>4. QED
    BY <2>1, <2>3, FS_EmptySet
<1>5. /\ left' \in [App -> 0 .. NLines] /\ events' \in Seq(Event)
      /\ Queued(events)' /\ Chained(events)'
      /\ SentBefore(sent, events)' /\ SentInOrder(sent)'
      /\ Single(sent, events)' /\ Numbered(sent)'
  BY <1>1, <1>2, <1>3, <1>4, ScheduleKeeps
<1>6. LinkInv'
  <2>1. ASSUME NEW d \in App, link'[d] # "up"
        PROVE  d # c /\ link'[d] = link[d] /\ left'[d] = left[d]
    <3>1. d # c /\ link'[d] = link[d]
      BY <2>1 DEF TypeOK
    <3>2. QED
      BY <1>1, <3>1, ScheduleEffect
  <2>2. ASSUME NEW d \in App, d # c, NoneOf(d, events)
        PROVE  NoneOf(d, events')
    <3>1. CASE events' = events
      BY <2>2, <3>1
    <3>2. ASSUME NEW e, e.client = c, events' = Append(events, e)
          PROVE  NoneOf(d, events')
      BY <1>1, <2>2, <3>2 DEF NoneOf
    <3>3. QED
      BY <3>1, <3>2 DEF ScheduleNextMessage
  <2>3. QED
    BY <1>1, <1>2, <2>1, <2>2 DEF LinkInv
<1>7. QED
  BY <1>5, <1>6 DEF ChainInv

(* The event that runs is the oldest of its application.                   *)
LEMMA DueIsFirst ==
  ASSUME TypeOK, ChainInv, NEW k, IsDue(k), NEW j \in DOMAIN events,
         j # k, events[j].client = events[k].client
  PROVE  events[k].line < events[j].line
<1>1. /\ k \in DOMAIN events /\ k \in Nat /\ j \in Nat
      /\ events[k].at < events[j].at \/ (events[k].at = events[j].at /\ k <= j)
  BY DEF IsDue, TypeOK
<1>2. events[k].at \in Nat /\ events[j].at \in Nat
  <2>1. events[k] \in Event /\ events[j] \in Event
    BY <1>1 DEF TypeOK
  <2>2. QED
    BY <2>1 DEF Event
<1>3. Chained(events)
  BY DEF ChainInv
<1>4. ~ (j < k)
  BY <1>1, <1>2, <1>3 DEF Chained
<1>5. QED
  BY <1>1, <1>3, <1>4 DEF Chained

LEMMA BeforeIsFinite ==
  ASSUME NEW c, NEW i
  PROVE  IsFiniteSet(Before(c, i)) /\ Cardinality(Before(c, i)) \in Nat
<1>1. IsFiniteSet(1 .. NLines)
  BY TimedAssumption, FS_Interval
<1>2. Before(c, i) \in SUBSET (1 .. NLines)
  BY DEF Before, OwnLines
<1>3. IsFiniteSet(Before(c, i))
  BY <1>1, <1>2, FS_Subset
<1>4. QED
  BY <1>3, FS_CardinalityType

(* A message leaves: what is known of the queue without its event, and of  *)
(* what has been sent with it, before the next line is looked for.         *)
LEMMA SendingExtends ==
  ASSUME TypeOK, FileInv, ChainInv, phase = "run", NEW k, IsDue(k), NEW others, NEW done, NEW c,
         others = RemoveAt(events, k), c = events[k].client,
         done = [sent EXCEPT ![c] = Append(@, [line |-> events[k].line, time |-> now])]
  PROVE  /\ others \in Seq(Event) /\ done \in [App -> Seq(Sending)] /\ c \in App
         /\ Queued(others) /\ Chained(others) /\ SentBefore(done, others) /\ SentInOrder(done)
         /\ Single(done, others) /\ Numbered(done)
         /\ kind = "SyncMuc" => \A i \in Ahead(c, left[c]) : LineAt(i).value >= now
         /\ breaks = 0 => NoneOf(c, others) /\ Cardinality(Scanned(c)) = Len(done[c])
<1> DEFINE line == events[k].line
           last == Len(sent[c]) + 1
<1>1. /\ k \in DOMAIN events /\ events[k].at <= now /\ events \in Seq(Event)
      /\ sent \in [App -> Seq(Sending)] /\ now \in Nat /\ NLines \in Nat
      /\ left \in [App -> 0 .. NLines]
  BY TimedAssumption DEF IsDue, TypeOK
<1>2. c \in App /\ line \in Lines /\ line \in Nat /\ events[k].at \in Nat
  <2>1. events[k] \in Event
    BY <1>1
  <2>2. QED
    BY <2>1 DEF Event, Lines
<1>3. /\ Queued(events) /\ Chained(events) /\ SentBefore(sent, events) /\ SentInOrder(sent)
      /\ Single(sent, events) /\ Numbered(sent) /\ LinkInv
  BY DEF ChainInv
<1>4. /\ line \in OwnLines(c) /\ line <= NLines - left[c]
      /\ events[k].at >= now /\ events[k].at >= LineAt(line).value
      /\ kind = "SyncMuc" => events[k].at = LineAt(line).value
  BY <1>1, <1>3 DEF Queued
<1>5. /\ now >= LineAt(line).value
      /\ kind = "SyncMuc" => now = LineAt(line).value
  BY <1>1, <1>2, <1>4
<1>6. /\ others \in Seq(Event)
      /\ \A j \in DOMAIN others :
           others[j] = events[Moved(k, j)] /\ Moved(k, j) \in DOMAIN events /\ Moved(k, j) # k
  BY <1>1, EventRemoved
<1>7. Queued(others) /\ Chained(others) /\ SentBefore(sent, others) /\ Single(sent, others)
  BY <1>1, <1>3, RemoveKeeps
<1>8. /\ done \in [App -> Seq(Sending)] /\ last \in Nat /\ last >= 1
      /\ \A d \in App : d # c => done[d] = sent[d]
      /\ \A m \in DOMAIN sent[c] : m \in DOMAIN done[c] /\ done[c][m] = sent[c][m] /\ m \in Nat /\ m < last
      /\ \A m \in DOMAIN done[c] : m \in DOMAIN sent[c] \/ m = last
      /\ last \notin DOMAIN sent[c]
      /\ done[c][last] = [line |-> line, time |-> now] /\ Len(done[c]) = last
  <2>1. sent[c] \in Seq(Sending) /\ [line |-> line, time |-> now] \in Sending
    BY <1>1, <1>2 DEF Sending
  <2>2. done[c] = Append(sent[c], [line |-> line, time |-> now])
    BY <1>1, <1>2
  <2>3. Append(sent[c], [line |-> line, time |-> now]) \in Seq(Sending)
    BY <2>1
  <2>4. done \in [App -> Seq(Sending)] /\ \A d \in App : d # c => done[d] = sent[d]
    BY <1>1, <1>2, <2>3
  <2>5. QED
    BY <2>1, <2>2, <2>4
<1>9. done[c][last].line = line /\ done[c][last].time = now
  BY <1>8
<1> HIDE DEF line, last
<1>10. SentInOrder(done)
  <2>1. ASSUME NEW d \in App, NEW m \in DOMAIN done[d]
        PROVE  /\ done[d][m].line \in OwnLines(d) /\ done[d][m].line <= NLines - left[d]
               /\ done[d][m].time >= LineAt(done[d][m].line).value
               /\ kind = "SyncMuc" => done[d][m].time = LineAt(done[d][m].line).value
               /\ \A i \in DOMAIN done[d] : i < m => done[d][i].line < done[d][m].line
    <3>1. CASE d # c
      <4>1. done[d] = sent[d]
        BY <1>8, <3>1
      <4>2. QED
        BY <1>3, <2>1, <4>1 DEF SentInOrder
    <3>2. CASE d = c /\ m \in DOMAIN sent[c]
      <4>1. \A i \in DOMAIN done[c] : i < m => i \in DOMAIN sent[c] /\ done[c][i] = sent[c][i]
        BY <1>8, <3>2
      <4>2. /\ sent[c][m].line \in OwnLines(c) /\ sent[c][m].line <= NLines - left[c]
            /\ sent[c][m].time >= LineAt(sent[c][m].line).value
            /\ kind = "SyncMuc" => sent[c][m].time = LineAt(sent[c][m].line).value
            /\ \A i \in DOMAIN sent[c] : i < m => sent[c][i].line < sent[c][m].line
        BY <1>2, <1>3, <3>2 DEF SentInOrder
      <4>3. done[c][m] = sent[c][m]
        BY <1>8, <3>2
      <4>4. QED
        BY <3>2, <4>1, <4>2, <4>3
    <3>3. CASE d = c /\ m = last
      <4>1. \A i \in DOMAIN sent[c] : sent[c][i].line < line
        BY <1>1, <1>2, <1>3 DEF SentBefore, line
      <4>2. \A i \in DOMAIN done[c] : i < last => i \in DOMAIN sent[c] /\ done[c][i] = sent[c][i]
        BY <1>8
      <4>3. QED
        BY <1>4, <1>5, <1>9, <3>3, <4>1, <4>2
    <3>4. QED
      BY <1>8, <2>1, <3>1, <3>2, <3>3
  <2>2. QED
    BY <2>1 DEF SentInOrder
<1>11. SentBefore(done, others)
  <2>1. ASSUME NEW d \in App, NEW m \in DOMAIN done[d], NEW j \in DOMAIN others,
               others[j].client = d
        PROVE  done[d][m].line < others[j].line
    <3>1. CASE d # c \/ m \in DOMAIN sent[c]
      <4>1. m \in DOMAIN sent[d] /\ done[d][m] = sent[d][m]
        BY <1>8, <2>1, <3>1
      <4>2. QED
        BY <1>7, <2>1, <4>1 DEF SentBefore
    <3>2. CASE d = c /\ m = last
      <4>1. /\ others[j] = events[Moved(k, j)] /\ Moved(k, j) \in DOMAIN events /\ Moved(k, j) # k
            /\ events[Moved(k, j)].client = events[k].client
        BY <1>6, <2>1, <3>2
      <4>2. events[k].line < events[Moved(k, j)].line
        BY <4>1, DueIsFirst
      <4>3. QED
        BY <1>9, <3>2, <4>1, <4>2 DEF line
    <3>3. QED
      BY <1>8, <2>1, <3>1, <3>2
  <2>2. QED
    BY <2>1 DEF SentBefore
<1>12. ASSUME breaks = 0
       PROVE  NoneOf(c, others) /\ left[c] = NLines - line
              /\ Cardinality(Before(c, line)) = Len(sent[c])
  <2>1. /\ left[c] = NLines - line /\ Cardinality(Before(c, line)) = Len(sent[c])
        /\ \A j \in DOMAIN events : events[j].client = c => j = k
    BY <1>1, <1>3, <1>12 DEF Single, line
  <2>2. QED
    BY <1>6, <2>1 DEF NoneOf
<1>13. Single(done, others)
  <2>1. \A j \in DOMAIN others : breaks = 0 => others[j].client # c
    BY <1>12 DEF NoneOf
  <2>2. \A j \in DOMAIN others : others[j].client \in App
    <3>1. \A j \in DOMAIN others : others[j] \in Event
      BY <1>6
    <3>2. QED
      BY <3>1 DEF Event
  <2>3. QED
    BY <1>7, <1>8, <2>1, <2>2 DEF Single
<1>14. Numbered(done)
  <2>1. ASSUME breaks = 0, NEW d \in App, NEW m \in DOMAIN done[d]
        PROVE  Cardinality(Before(d, done[d][m].line)) = m - 1
    <3>1. CASE d # c \/ m \in DOMAIN sent[c]
      <4>1. m \in DOMAIN sent[d] /\ done[d][m] = sent[d][m]
        BY <1>8, <2>1, <3>1
      <4>2. QED
        BY <1>3, <2>1, <4>1 DEF Numbered
    <3>2. CASE d = c /\ m = last
      <4>1. Len(sent[c]) \in Nat /\ last = Len(sent[c]) + 1
        BY <1>1, <1>2 DEF last
      <4>2. Cardinality(Before(c, line)) = last - 1
        BY <1>12, <2>1, <4>1
      <4>3. QED
        BY <1>9, <3>2, <4>2
    <3>3. QED
      BY <1>8, <2>1, <3>1, <3>2
  <2>2. QED
    BY <2>1 DEF Numbered
<1>15. ASSUME breaks = 0
       PROVE  Cardinality(Scanned(c)) = Len(done[c])
  <2>1. Scanned(c) = Before(c, line) \union {line}
    <3>1. \A x \in OwnLines(c) : x <= NLines - left[c] <=> x < line \/ x = line
      BY <1>1, <1>2, <1>12, <1>15 DEF OwnLines
    <3>2. QED
      BY <1>4, <3>1 DEF Scanned, Before
  <2>2. line \notin Before(c, line)
    BY <1>2 DEF Before
  <2>3. IsFiniteSet(Before(c, line))
    BY BeforeIsFinite
  <2>4. Cardinality(Before(c, line) \union {line}) = Cardinality(Before(c, line)) + 1
    BY <2>2, <2>3, FS_AddElement
  <2>5. QED
    BY <1>8, <1>12, <1>15, <2>1, <2>4 DEF last
<1>16. ASSUME kind = "SyncMuc", NEW i \in Ahead(c, left[c])
       PROVE  LineAt(i).value >= now
  <2>1. left[c] = NLines - line
    BY <1>3, <1>12, <1>16 DEF LinkInv
  <2>2. i \in Lines /\ i \in Nat /\ i > NLines - left[c]
    BY <1>16 DEF Ahead, OwnLines, Lines
  <2>3. line < i
    BY <1>1, <1>2, <2>1, <2>2
  <2>4. LineAt(line).value < LineAt(i).value
    BY <1>2, <2>2, <2>3, LinesAreRows
  <2>5. LineAt(i).value \in Nat
    <3>1. LineAt(i) \in FileRow
      BY <2>2, LinesAreRows
    <3>2. QED
      BY <3>1 DEF FileRow
  <2>6. QED
    BY <1>1, <1>5, <1>16, <2>4, <2>5
<1>17. QED
  BY <1>2, <1>6, <1>7, <1>8, <1>10, <1>11, <1>12, <1>13, <1>14, <1>15, <1>16

LEMMA SendKeepsChains ==
  ASSUME TypeOK, FileInv, StartInv, ChainInv, NEW k, SendMessage(k)
  PROVE  /\ ChainInv'
         /\ left' \in [App -> 0 .. NLines] /\ events' \in Seq(Event)
         /\ sent' \in [App -> Seq(Sending)]
<1> DEFINE c == events[k].client
           others == RemoveAt(events, k)
           done == [sent EXCEPT ![c] = Append(@, [line |-> events[k].line, time |-> now])]
<1>1. /\ IsDue(k) /\ k \in DOMAIN events
      /\ kind' = kind /\ phase' = phase /\ file' = file /\ now' = now /\ breaks' = breaks
      /\ link' = link
      /\ \/ /\ link[c] = "up" /\ sent' = done
            /\ ScheduleNextMessage(c, others)
         \/ /\ link[c] # "up" /\ events' = others
            /\ sent' = sent /\ left' = left
  BY DEF SendMessage, IsDue, setUp
<1>2. /\ left \in [App -> 0 .. NLines] /\ events \in Seq(Event)
      /\ sent \in [App -> Seq(Sending)]
  BY DEF TypeOK
<1>3. phase = "run"
  BY <1>1 DEF TypeOK, StartInv
<1>4. /\ Queued(events) /\ Chained(events) /\ SentBefore(sent, events) /\ SentInOrder(sent)
      /\ Single(sent, events) /\ Numbered(sent) /\ LinkInv
  BY DEF ChainInv
<1>5. /\ Queued(others) /\ Chained(others) /\ SentBefore(sent, others) /\ Single(sent, others)
      /\ \A d \in App : NoneOf(d, events) => NoneOf(d, others)
      /\ others \in Seq(Event)
  BY <1>1, <1>2, <1>4, RemoveKeeps, EventRemoved
<1>6. CASE link[c] # "up" /\ events' = others /\ sent' = sent /\ left' = left
  <2>1. /\ Queued(events)' /\ Chained(events)'
        /\ SentBefore(sent, events)' /\ SentInOrder(sent)'
        /\ Single(sent, events)' /\ Numbered(sent)'
    BY <1>1, <1>4, <1>5, <1>6, QueueFrame
  <2>2. LinkInv'
    BY <1>1, <1>4, <1>5, <1>6 DEF LinkInv
  <2>3. QED
    BY <1>2, <1>5, <1>6, <2>1, <2>2 DEF ChainInv
<1>7. CASE link[c] = "up" /\ sent' = done /\ ScheduleNextMessage(c, others)
  <2>1. /\ others \in Seq(Event) /\ done \in [App -> Seq(Sending)] /\ c \in App
        /\ Queued(others) /\ Chained(others) /\ SentBefore(done, others) /\ SentInOrder(done)
        /\ Single(done, others) /\ Numbered(done)
        /\ kind = "SyncMuc" => \A i \in Ahead(c, left[c]) : LineAt(i).value >= now
        /\ breaks = 0 => NoneOf(c, others) /\ Cardinality(Scanned(c)) = Len(done[c])
    BY <1>1, <1>3, SendingExtends
  <2>2. \A d \in App : d # c => done[d] = sent[d]
    BY <1>2
  <2> HIDE DEF c, others, done
  <2>3. /\ left' \in [App -> 0 .. NLines] /\ events' \in Seq(Event)
        /\ Queued(events)' /\ Chained(events)'
        /\ SentBefore(sent, events)' /\ SentInOrder(sent)'
        /\ Single(sent, events)' /\ Numbered(sent)'
    BY <1>1, <1>3, <1>7, <2>1, ScheduleKeeps
  <2>4. \A d \in App : d # c => left'[d] = left[d]
    BY <1>3, <1>7, <2>1, ScheduleEffect
  <2>5. ASSUME NEW d \in App, d # c, NoneOf(d, others)
        PROVE  NoneOf(d, events')
    <3>1. CASE events' = others
      BY <2>5, <3>1
    <3>2. ASSUME NEW e, e.client = c, events' = Append(others, e)
          PROVE  NoneOf(d, events')
      BY <2>1, <2>5, <3>2 DEF NoneOf
    <3>3. QED
      BY <1>7, <3>1, <3>2 DEF ScheduleNextMessage
  <2>6. LinkInv'
    <3>1. ASSUME NEW d \in App, link[d] # "up"
          PROVE  d # c /\ sent'[d] = sent[d] /\ left'[d] = left[d]
                 /\ (NoneOf(d, events) => NoneOf(d, events'))
      BY <1>5, <1>7, <2>2, <2>4, <2>5, <3>1
    <3>2. QED
      BY <1>1, <1>4, <3>1 DEF LinkInv
  <2>7. QED
    BY <1>7, <2>1, <2>3, <2>6 DEF ChainInv
<1>8. QED
  BY <1>1, <1>6, <1>7

(* Time passes, and no event is left behind.                               *)
LEMMA TickKeepsChains ==
  ASSUME TypeOK, ChainInv, Tick
  PROVE  ChainInv'
<1>1. /\ kind' = kind /\ phase' = phase /\ file' = file /\ left' = left /\ link' = link
      /\ events' = events /\ breaks' = breaks /\ sent' = sent
      /\ now' = now + 1 /\ now \in Nat
      /\ \A k \in DOMAIN events : events[k].at > now
  BY DEF Tick, TypeOK, setUp, appVars
<1>2. \A k \in DOMAIN events : events[k].at \in Nat
  <2>1. \A k \in DOMAIN events : events[k] \in Event
    BY DEF TypeOK
  <2>2. QED
    BY <2>1 DEF Event
<1>3. CountRowIndex' = CountRowIndex
  BY <1>1 DEF CountRowIndex
<1>4. \A i : LineAt(i)' = LineAt(i)
  BY <1>1, <1>3 DEF LineAt
<1>5. \A c : OwnLines(c)' = OwnLines(c)
  BY <1>4 DEF OwnLines
<1>6. Queued(events)'
  <2>1. \A k \in DOMAIN events : events[k].at >= now + 1 /\ ~ (events[k].at <= now)
    BY <1>1, <1>2
  <2>2. Queued(events)
    BY DEF ChainInv
  <2>3. QED
    BY <1>1, <1>4, <1>5, <2>1, <2>2 DEF Queued
<1>7. Chained(events)' /\ SentBefore(sent, events)'
  BY <1>1 DEF ChainInv, Chained, SentBefore
<1>8. SentInOrder(sent)'
  BY <1>1, <1>4, <1>5 DEF ChainInv, SentInOrder
<1>9. Single(sent, events)' /\ Numbered(sent)'
  <2>1. Single(sent, events) /\ Numbered(sent)
    BY DEF ChainInv
  <2>2. Single(sent, events)'
    BY <1>1, <1>5, <2>1 DEF Single, Before
  <2>3. Numbered(sent)'
    BY <1>1, <1>5, <2>1 DEF Numbered, Before
  <2>4. QED
    BY <2>2, <2>3
<1>10. LinkInv'
  BY <1>1 DEF ChainInv, LinkInv, NoneOf
<1>11. QED
  BY <1>6, <1>7, <1>8, <1>9, <1>10 DEF ChainInv

(* The actions that touch neither the queue nor what was sent.             *)
LEMMA LinkKeepsChains ==
  ASSUME TypeOK, StartInv, ChainInv,
         UNCHANGED << kind, phase, file, now, left, events, sent >>,
         \/ UNCHANGED << link, breaks >>
         \/ \E c \in App : link[c] = "off" /\ kind = "MucClient" /\ breaks' = breaks
                           /\ link' = [link EXCEPT ![c] = "connecting"]
         \/ \E c \in App : OnError(c) \/ TryConnect(c)
  PROVE  ChainInv'
<1>1. /\ Queued(events) /\ Chained(events) /\ SentBefore(sent, events) /\ SentInOrder(sent)
      /\ Single(sent, events) /\ Numbered(sent) /\ LinkInv
  BY DEF ChainInv
<1>2. CASE breaks' = breaks
  <2>1. /\ Queued(events)' /\ Chained(events)'
        /\ SentBefore(sent, events)' /\ SentInOrder(sent)'
        /\ Single(sent, events)' /\ Numbered(sent)'
    BY <1>1, <1>2, QueueFrame
  <2>2. LinkInv'
    <3>1. CASE link' = link
      BY <1>1, <1>2, <3>1 DEF LinkInv, NoneOf
    <3>2. ASSUME NEW c \in App, link[c] = "off", link' = [link EXCEPT ![c] = "connecting"]
          PROVE  LinkInv'
      <4>1. \A d \in App : /\ link'[d] # "up" => link[d] # "up"
                           /\ link'[d] = "retry" => link[d] = "retry"
        BY <3>2 DEF TypeOK
      <4>2. QED
        BY <1>1, <1>2, <4>1 DEF LinkInv, NoneOf
    <3>3. ASSUME NEW c \in App, TryConnect(c)
          PROVE  LinkInv'
      BY <1>1, <1>2, <3>3 DEF LinkInv, TryConnect
    <3>4. ASSUME NEW c \in App, OnError(c)
          PROVE  FALSE
      BY <1>2, <3>4 DEF OnError, TypeOK
    <3>5. QED
      BY <3>1, <3>2, <3>3, <3>4
  <2>3. QED
    BY <2>1, <2>2 DEF ChainInv
<1>3. ASSUME NEW c \in App, OnError(c)
      PROVE  ChainInv'
  <2>1. breaks' # 0 /\ kind = "MucClient" /\ kind' = kind
    BY <1>3 DEF OnError, TypeOK
  <2>2. Queued(events)' /\ Chained(events)' /\ SentBefore(sent, events)' /\ SentInOrder(sent)'
    <3>1. CountRowIndex' = CountRowIndex
      BY DEF CountRowIndex
    <3>2. \A i : LineAt(i)' = LineAt(i)
      BY <3>1 DEF LineAt
    <3>3. \A d : OwnLines(d)' = OwnLines(d)
      BY <3>2 DEF OwnLines
    <3>4. Queued(events)'
      BY <1>1, <3>2, <3>3 DEF Queued
    <3>5. Chained(events)' /\ SentBefore(sent, events)'
      BY <1>1 DEF Chained, SentBefore
    <3>6. SentInOrder(sent)'
      BY <1>1, <3>2, <3>3 DEF SentInOrder
    <3>7. QED
      BY <3>4, <3>5, <3>6
  <2>3. Single(sent, events)' /\ Numbered(sent)' /\ LinkInv'
    BY <2>1 DEF Single, Numbered, LinkInv
  <2>4. QED
    BY <2>2, <2>3 DEF ChainInv
<1>4. QED
  BY <1>2, <1>3 DEF TryConnect
-----------------------------------------------------------------------------
(* What the steps do to the rows.                                          *)

LEMMA RowsFrame ==
  ASSUME TypeOK, RowInv, DelaysAreDefined, UNCHANGED << rows, latest, seen >>,
         now' \in Nat, now <= now'
  PROVE  RowInv' /\ DelaysAreDefined'
<1>1. \A i \in DOMAIN rows : rows[i] \in TraceRow
  BY DEF TypeOK
<1>2. \A i \in DOMAIN rows : rows[i].time \in Nat
  BY <1>1 DEF TraceRow
<1>3. now \in Nat
  BY DEF TypeOK
<1>4. RowInv'
  <2>1. \A i \in DOMAIN rows : rows[i].time <= now'
    BY <1>2, <1>3 DEF RowInv
  <2>2. QED
    BY <2>1 DEF RowInv
<1>5. DelaysAreDefined'
  BY DEF DelaysAreDefined
<1>6. QED
  BY <1>4, <1>5

(* A row is written for a number that is new at n and that p has sent, now *)
(* or before.                                                              *)
WritesRow(n, p, seqNo) ==
  /\ seen[n][p] <= seqNo /\ seqNo < latest'[p] /\ seqNo < seen'[n][p]
  /\ latest' \in [App -> Nat] /\ seen' \in [App -> [App -> Nat]]
  /\ \A a, b \in App : seen[a][b] <= seen'[a][b]
  /\ \A b \in App : latest[b] <= latest'[b] /\ seen'[b][b] = latest'[b]
  /\ \A b \in App : \A q \in Nat :
       q < latest'[b] => q < latest[b] \/ (n = p /\ b = p /\ q = seqNo)
  /\ n = p \/ seqNo < latest[p]
  /\ rows' = Append(rows, Row(n, p, seqNo)) /\ now' = now

LEMMA RowWritten ==
  ASSUME TypeOK, RowInv, DelaysAreDefined,
         NEW n \in App, NEW p \in App, NEW seqNo \in Nat, WritesRow(n, p, seqNo)
  PROVE  RowInv' /\ DelaysAreDefined' /\ rows' \in Seq(TraceRow)
<1> DEFINE new == Len(rows) + 1
<1> USE DEF WritesRow
<1>1. /\ rows \in Seq(TraceRow) /\ now \in Nat /\ latest \in [App -> Nat]
      /\ seen \in [App -> [App -> Nat]]
  BY DEF TypeOK
<1>2. Row(n, p, seqNo) \in TraceRow
  BY <1>1 DEF Row, TraceRow
<1>3. /\ rows' \in Seq(TraceRow)
      /\ \A i \in DOMAIN rows : i \in DOMAIN rows' /\ rows'[i] = rows[i] /\ i \in Nat /\ i < new
      /\ \A i \in DOMAIN rows' : i \in DOMAIN rows \/ i = new
      /\ new \in DOMAIN rows' /\ new \notin DOMAIN rows /\ new \in Nat
      /\ rows'[new] = Row(n, p, seqNo)
      /\ DOMAIN rows' = 1 .. new /\ DOMAIN rows = 1 .. Len(rows)
  BY SMTT(30), <1>1, <1>2
<1>4. /\ rows'[new].time = now /\ rows'[new].node = n /\ rows'[new].from = p
      /\ rows'[new].seqNo = seqNo
  BY <1>3 DEF Row
<1>5. \A i \in DOMAIN rows : /\ rows[i].time \in Nat /\ rows[i].node \in App
                             /\ rows[i].from \in App /\ rows[i].seqNo \in Nat
  <2>1. \A i \in DOMAIN rows : rows[i] \in TraceRow
    BY <1>1
  <2>2. QED
    BY <2>1 DEF TraceRow
<1> HIDE DEF new
<1>6. \A i \in DOMAIN rows :
        /\ rows[i].time <= now
        /\ rows[i].seqNo < seen[rows[i].node][rows[i].from]
        /\ rows[i].seqNo < latest[rows[i].from]
  BY DEF RowInv
<1>7. \A b \in App : \A q \in Nat : q < latest[b] =>
        \E i \in DOMAIN rows : rows[i].node = b /\ rows[i].from = b /\ rows[i].seqNo = q
  BY DEF RowInv
<1>8. RowInv'
  <2>1. ASSUME NEW i \in DOMAIN rows'
        PROVE  /\ rows'[i].time <= now
               /\ rows'[i].seqNo < seen'[rows'[i].node][rows'[i].from]
               /\ rows'[i].seqNo < latest'[rows'[i].from]
    <3>1. CASE i \in DOMAIN rows
      <4>1. /\ rows[i].node \in App /\ rows[i].from \in App /\ rows[i].seqNo \in Nat
            /\ rows[i].time <= now
            /\ rows[i].seqNo < seen[rows[i].node][rows[i].from]
            /\ rows[i].seqNo < latest[rows[i].from]
        BY <1>5, <1>6, <3>1
      <4>2. /\ seen[rows[i].node][rows[i].from] \in Nat /\ seen'[rows[i].node][rows[i].from] \in Nat
            /\ seen[rows[i].node][rows[i].from] <= seen'[rows[i].node][rows[i].from]
            /\ latest[rows[i].from] \in Nat /\ latest'[rows[i].from] \in Nat
            /\ latest[rows[i].from] <= latest'[rows[i].from]
        BY <1>1, <4>1
      <4>3. rows'[i] = rows[i]
        BY <1>3, <3>1
      <4> DEFINE number == rows[i].seqNo
                 known == seen[rows[i].node][rows[i].from]
                 knownThen == seen'[rows[i].node][rows[i].from]
                 last == latest[rows[i].from]
                 lastThen == latest'[rows[i].from]
      <4>4. /\ number \in Nat /\ known \in Nat /\ knownThen \in Nat
            /\ last \in Nat /\ lastThen \in Nat
            /\ number < known /\ known <= knownThen /\ number < last /\ last <= lastThen
        BY <4>1, <4>2
      <4> HIDE DEF number, known, knownThen, last, lastThen
      <4>5. number < knownThen /\ number < lastThen
        BY <4>4
      <4>6. QED
        BY <4>1, <4>3, <4>5 DEF number, knownThen, lastThen
    <3>2. CASE i = new
      <4>1. /\ rows'[i].time = now /\ rows'[i].node = n /\ rows'[i].from = p
            /\ rows'[i].seqNo = seqNo
        BY <1>4, <3>2
      <4>2. now <= now
        BY <1>1
      <4>3. QED
        BY <4>1, <4>2
    <3>3. QED
      BY <1>3, <3>1, <3>2
  <2>2. ASSUME NEW b \in App, NEW q \in Nat, q < latest'[b]
        PROVE  \E i \in DOMAIN rows' : rows'[i].node = b /\ rows'[i].from = b /\ rows'[i].seqNo = q
    <3>1. CASE q < latest[b]
      <4>1. PICK i \in DOMAIN rows : rows[i].node = b /\ rows[i].from = b /\ rows[i].seqNo = q
        BY <1>7, <3>1
      <4>2. i \in DOMAIN rows' /\ rows'[i] = rows[i]
        BY <1>3
      <4>3. QED
        BY <4>1, <4>2
    <3>2. CASE n = p /\ b = p /\ q = seqNo
      BY <1>3, <1>4, <3>2
    <3>3. QED
      BY <2>2, <3>1, <3>2
  <2>3. QED
    BY <2>1, <2>2 DEF RowInv
<1>9. ASSUME NEW j \in DOMAIN rows
      PROVE  << rows[j].node, rows[j].from, rows[j].seqNo >> # << n, p, seqNo >>
  <2>1. /\ rows[j].seqNo \in Nat
        /\ rows[j].seqNo < seen[rows[j].node][rows[j].from]
    BY <1>5, <1>6
  <2>2. seen[n][p] \in Nat
    BY <1>1
  <2>3. QED
    BY <2>1, <2>2
<1>10. DelaysAreDefined'
  <2>1. ASSUME NEW i \in DOMAIN rows', NEW j \in DOMAIN rows' \ {i}
        PROVE  << rows'[i].node, rows'[i].from, rows'[i].seqNo >>
                 # << rows'[j].node, rows'[j].from, rows'[j].seqNo >>
    <3>1. CASE i \in DOMAIN rows /\ j \in DOMAIN rows
      <4>1. /\ i \in DOMAIN rows /\ j \in DOMAIN rows \ {i}
            /\ rows'[i] = rows[i] /\ rows'[j] = rows[j]
        BY <1>3, <3>1
      <4>2. << rows[i].node, rows[i].from, rows[i].seqNo >>
              # << rows[j].node, rows[j].from, rows[j].seqNo >>
        BY <4>1 DEF DelaysAreDefined
      <4>3. QED
        BY <4>1, <4>2
    <3>2. CASE i = new /\ j \in DOMAIN rows
      BY <1>3, <1>4, <1>9, <3>2
    <3>3. CASE j = new /\ i \in DOMAIN rows
      BY <1>3, <1>4, <1>9, <3>3
    <3>4. QED
      BY <1>3, <3>1, <3>2, <3>3
  <2>2. ASSUME NEW i \in DOMAIN rows'
        PROVE  \E j \in 1 .. i : /\ rows'[j].node = rows'[i].from /\ rows'[j].from = rows'[i].from
                                 /\ rows'[j].seqNo = rows'[i].seqNo
                                 /\ rows'[j].time <= rows'[i].time
    <3>1. CASE i \in DOMAIN rows
      <4>1. PICK j \in 1 .. i : /\ rows[j].node = rows[i].from /\ rows[j].from = rows[i].from
                                /\ rows[j].seqNo = rows[i].seqNo
                                /\ rows[j].time <= rows[i].time
        BY <3>1 DEF DelaysAreDefined
      <4>2. j \in DOMAIN rows
        BY <1>1, <1>3, <3>1
      <4>3. rows'[j] = rows[j] /\ rows'[i] = rows[i]
        BY <1>3, <3>1, <4>2
      <4>4. QED
        BY <4>1, <4>3
    <3>2. CASE i = new /\ n = p
      <4>1. i \in 1 .. i
        BY <1>3, <3>2
      <4>2. rows'[i].node = rows'[i].from /\ rows'[i].from = rows'[i].from
        BY <1>4, <3>2
      <4>3. rows'[i].time <= rows'[i].time
        BY <1>1, <1>4, <3>2
      <4>4. QED
        BY <4>1, <4>2, <4>3
    <3>3. CASE i = new /\ seqNo < latest[p]
      <4>1. PICK j \in DOMAIN rows : rows[j].node = p /\ rows[j].from = p /\ rows[j].seqNo = seqNo
        BY <1>7, <3>3
      <4>2. rows'[j] = rows[j] /\ rows[j].time <= now /\ j \in 1 .. i
        BY <1>3, <1>6, <3>3
      <4>3. QED
        BY <1>4, <3>3, <4>1, <4>2
    <3>4. QED
      BY <1>3, <3>1, <3>2, <3>3
  <2>3. QED
    BY <2>1, <2>2 DEF DelaysAreDefined
<1>11. QED
  BY <1>3, <1>8, <1>10
-----------------------------------------------------------------------------
(* The invariant.                                                          *)

LEMMA FileFrame ==
  ASSUME FileInv, UNCHANGED << file, phase, absTime >>
  PROVE  FileInv'
  BY DEF FileInv, clientIds

LEMMA InitHolds == Init => TimedInv
<1> SUFFICES ASSUME Init PROVE TimedInv
  OBVIOUS
<1>1. FileInv /\ file \in Seq(FileRow)
  BY InitFile
<1>2. /\ kind \in Kind /\ phase = "generate" /\ absTime = 0 /\ now = 0 /\ breaks = 0
      /\ left = [c \in App |-> 0] /\ link = [c \in App |-> "off"]
      /\ events = << >> /\ rows = << >> /\ sent = [c \in App |-> << >>]
      /\ latest = [p \in App |-> 0] /\ seen = [n \in App |-> [p \in App |-> 0]]
      /\ NLines \in Nat
  BY TimedAssumption DEF Init, TracesInit
<1>3. TypeOK
  <2>1. << >> \in Seq(Event) /\ << >> \in Seq(TraceRow) /\ << >> \in Seq(Sending)
    OBVIOUS
  <2>2. 0 \in 0 .. NLines
    BY <1>2
  <2>3. left \in [App -> 0 .. NLines] /\ sent \in [App -> Seq(Sending)]
    BY <1>2, <2>1, <2>2
  <2>4. QED
    BY <1>1, <1>2, <2>1, <2>3 DEF TypeOK
<1>4. StartInv
  BY <1>2 DEF StartInv
<1>5. IdleState
  BY <1>2 DEF IdleState
<1>6. RowInv /\ DelaysAreDefined
  BY <1>2 DEF RowInv, DelaysAreDefined
<1>7. QED
  BY <1>1, <1>3, <1>4, <1>5, <1>6, NothingToDo DEF TimedInv

LEMMA GenerateHolds ==
  ASSUME TimedInv, NEW c \in App, GenerateLine(c)
  PROVE  TimedInv'
<1>1. /\ TypeOK /\ FileInv /\ StartInv /\ RowInv /\ DelaysAreDefined /\ LinkInv
      /\ phase = "generate"
      /\ UNCHANGED << latest, seen, kind, phase, now, left, link, events, rows, breaks, sent >>
  BY DEF TimedInv, ChainInv, GenerateLine, traceVars, appVars
<1>2. FileInv' /\ file' \in Seq(FileRow) /\ absTime' \in Nat
  BY <1>1, GenerateKeepsFile
<1>3. TypeOK'
  BY <1>1, <1>2 DEF TypeOK
<1>4. StartInv' /\ IdleState'
  BY <1>1 DEF StartInv, LinkInv, IdleState
<1>5. ChainInv'
  BY <1>4, NothingToDo, PTL
<1>6. RowInv' /\ DelaysAreDefined'
  BY <1>1 DEF RowInv, DelaysAreDefined
<1>7. QED
  BY <1>2, <1>3, <1>4, <1>5, <1>6 DEF TimedInv

LEMMA CreateHolds ==
  ASSUME TimedInv, CreateApps
  PROVE  TimedInv'
<1>1. /\ TypeOK /\ FileInv /\ StartInv /\ RowInv /\ DelaysAreDefined /\ LinkInv
      /\ phase = "generate" /\ phase' = "run" /\ Len(file) - Header = NLines
      /\ left' = [c \in App |-> IF c \in clientIds THEN file[CountRowIndex].value ELSE 0]
      /\ UNCHANGED << latest, seen, kind, absTime, file, now, link, events, rows, breaks, sent >>
  BY DEF TimedInv, ChainInv, CreateApps, traceVars, Written, Header
<1>2. FileInv'
  <2>1. Len(file) \in Nat /\ NLines \in Nat /\ Header \in Nat
    BY <1>1, TimedAssumption, HeaderLength DEF TypeOK
  <2>2. Len(file) = Header + NLines
    BY <1>1, <2>1
  <2>3. QED
    BY <1>1, <2>2 DEF FileInv, clientIds
<1>3. left' = [c \in App |-> NLines]
  <2>1. clientIds = App /\ file[CountRowIndex].value = NLines
    BY <1>1, CountRowIs DEF FileInv
  <2>2. QED
    BY <1>1, <2>1
<1>4. TypeOK'
  <2>1. left' \in [App -> 0 .. NLines]
    BY <1>3, TimedAssumption
  <2>2. QED
    BY <1>1, <2>1 DEF TypeOK
<1>5. StartInv' /\ IdleState'
  BY <1>1, <1>3 DEF StartInv, LinkInv, IdleState
<1>6. ChainInv'
  BY <1>5, NothingToDo, PTL
<1>7. RowInv' /\ DelaysAreDefined'
  BY <1>1 DEF RowInv, DelaysAreDefined
<1>8. QED
  BY <1>2, <1>4, <1>5, <1>6, <1>7 DEF TimedInv

LEMMA StartHolds ==
  ASSUME TimedInv, NEW c \in App, StartApplication(c) \/ OnConnectSucceed(c)
  PROVE  TimedInv'
<1>1. /\ TypeOK /\ FileInv /\ StartInv /\ ChainInv /\ RowInv /\ DelaysAreDefined
      /\ UNCHANGED << latest, seen, setUp, now, rows, breaks, sent >>
      /\ UNCHANGED << kind, phase, absTime, file >> /\ now \in Nat
  BY DEF TimedInv, StartApplication, OnConnectSucceed, traceVars, setUp, TypeOK
<1>2. phase = "run" /\ link[c] # "up"
  BY <1>1 DEF StartApplication, OnConnectSucceed, StartInv, TypeOK
<1>3. FileInv' /\ RowInv' /\ DelaysAreDefined'
  BY <1>1, FileFrame, RowsFrame
<1>4. CASE link' = [link EXCEPT ![c] = "up"] /\ ScheduleNextMessage(c, events)
           /\ (kind = "SyncMuc" => now = StartTime)
  <2>1. ChainInv' /\ left' \in [App -> 0 .. NLines] /\ events' \in Seq(Event)
    BY <1>1, <1>2, <1>4, StartKeepsChains
  <2>2. TypeOK'
    BY <1>1, <1>4, <2>1 DEF TypeOK
  <2>3. StartInv'
    BY <1>1, <1>2, <1>4 DEF StartInv, TypeOK
  <2>4. QED
    BY <1>3, <2>1, <2>2, <2>3 DEF TimedInv
<1>5. CASE kind = "MucClient" /\ link[c] = "off" /\ link' = [link EXCEPT ![c] = "connecting"]
           /\ UNCHANGED << left, events >>
  <2>1. ChainInv'
    BY <1>1, <1>5, LinkKeepsChains
  <2>2. TypeOK' /\ StartInv'
    BY <1>1, <1>2, <1>5 DEF TypeOK, StartInv
  <2>3. QED
    BY <1>3, <2>1, <2>2 DEF TimedInv
<1>6. QED
  <2>1. CASE StartApplication(c)
    BY <1>4, <1>5, <2>1 DEF StartApplication
  <2>2. CASE OnConnectSucceed(c)
    <3>1. kind # "SyncMuc"
      BY <1>1, <2>2 DEF OnConnectSucceed, StartInv
    <3>2. QED
      BY <1>4, <2>2, <3>1 DEF OnConnectSucceed
  <2>3. QED
    BY <2>1, <2>2

LEMMA LinkHolds ==
  ASSUME TimedInv, NEW c \in App, OnError(c) \/ TryConnect(c)
  PROVE  TimedInv'
<1>1. /\ TypeOK /\ FileInv /\ StartInv /\ ChainInv /\ RowInv /\ DelaysAreDefined
      /\ UNCHANGED << latest, seen, now, left, events, rows, sent >>
      /\ UNCHANGED << kind, phase, absTime, file >> /\ now \in Nat
  BY DEF TimedInv, OnError, TryConnect, traceVars, setUp, TypeOK
<1>2. FileInv' /\ RowInv' /\ DelaysAreDefined'
  BY <1>1, FileFrame, RowsFrame
<1>3. ChainInv'
  BY <1>1, LinkKeepsChains
<1>4. TypeOK'
  <2>1. breaks' \in Nat /\ link' \in [App -> {"off", "connecting", "up", "retry"}]
    <3>1. breaks \in Nat /\ link \in [App -> {"off", "connecting", "up", "retry"}]
      BY <1>1 DEF TypeOK
    <3>2. CASE OnError(c)
      BY <3>1, <3>2 DEF OnError
    <3>3. CASE TryConnect(c)
      BY <3>1, <3>3 DEF TryConnect
    <3>4. QED
      BY <3>2, <3>3
  <2>2. QED
    BY <1>1, <2>1 DEF TypeOK
<1>5. StartInv'
  BY <1>1 DEF TypeOK, StartInv, OnError, TryConnect
<1>6. QED
  BY <1>2, <1>3, <1>4, <1>5 DEF TimedInv

LEMMA SendHolds ==
  ASSUME TimedInv, NEW k, SendMessage(k)
  PROVE  TimedInv'
<1> DEFINE c == events[k].client
<1>1. /\ TypeOK /\ FileInv /\ StartInv /\ ChainInv /\ RowInv /\ DelaysAreDefined
      /\ k \in DOMAIN events
      /\ UNCHANGED << now, link, breaks >>
      /\ UNCHANGED << kind, phase, absTime, file >> /\ now \in Nat
      /\ \/ /\ link[c] = "up" /\ Generate(c) /\ TraceOwn(c)
         \/ /\ link[c] # "up" /\ UNCHANGED << latest, seen, rows >>
  BY DEF TimedInv, SendMessage, IsDue, traceVars, setUp, TypeOK
<1>2. /\ ChainInv'
      /\ left' \in [App -> 0 .. NLines] /\ events' \in Seq(Event)
      /\ sent' \in [App -> Seq(Sending)]
  BY <1>1, SendKeepsChains
<1>3. FileInv'
  BY <1>1, FileFrame
<1>4. phase = "run"
  BY <1>1 DEF StartInv, TypeOK
<1>5. StartInv'
  BY <1>1, <1>4 DEF StartInv
<1>6. c \in App
  <2>1. events[k] \in Event
    BY <1>1 DEF TypeOK
  <2>2. QED
    BY <2>1 DEF Event
<1> HIDE DEF c
<1>7. RowInv' /\ DelaysAreDefined' /\ rows' \in Seq(TraceRow)
      /\ latest' \in [App -> Nat] /\ seen' \in [App -> [App -> Nat]]
  <2>1. CASE UNCHANGED << latest, seen, rows >>
    <3>1. rows' \in Seq(TraceRow) /\ latest' \in [App -> Nat] /\ seen' \in [App -> [App -> Nat]]
      BY <1>1, <2>1 DEF TypeOK
    <3>2. QED
      BY <1>1, <2>1, <3>1, RowsFrame
  <2>2. CASE Generate(c) /\ TraceOwn(c)
    <3>1. /\ latest' = [latest EXCEPT ![c] = @ + 1]
          /\ seen' = [seen EXCEPT ![c][c] = latest[c] + 1]
          /\ rows' = Append(rows, Row(c, c, latest[c]))
          /\ latest \in [App -> Nat] /\ seen \in [App -> [App -> Nat]]
          /\ \A b \in App : seen[b][b] = latest[b]
      BY <1>1, <2>2 DEF Generate, TraceOwn, TypeOK, RowInv
    <3>2. PICK seqNo \in Nat : seqNo = latest[c]
      BY <1>6, <3>1
    <3>3. /\ latest' \in [App -> Nat] /\ seen' \in [App -> [App -> Nat]]
          /\ latest'[c] = seqNo + 1 /\ seen'[c][c] = seqNo + 1 /\ seen[c][c] = seqNo
          /\ \A b \in App : b # c => latest'[b] = latest[b]
          /\ \A a, b \in App : (a = c /\ b = c) \/ seen'[a][b] = seen[a][b]
          /\ rows' = Append(rows, Row(c, c, seqNo))
      BY <1>6, <3>1, <3>2
    <3>4. seen[c][c] <= seqNo /\ seqNo < latest'[c] /\ seqNo < seen'[c][c]
      BY <3>3
    <3>5. \A a, b \in App : seen[a][b] <= seen'[a][b]
      <4>1. \A a, b \in App : seen[a][b] \in Nat
        BY <3>1
      <4>2. \A a, b \in App : seen[a][b] <= seen[a][b]
        BY <4>1
      <4>3. seen[c][c] <= seen'[c][c]
        BY <3>3
      <4>4. QED
        BY <3>3, <4>2, <4>3
    <3>6. \A b \in App : latest[b] <= latest'[b]
      <4>1. \A b \in App : latest[b] \in Nat
        BY <3>1
      <4>2. ASSUME NEW b \in App
            PROVE  latest[b] <= latest'[b]
        <5>1. CASE b = c
          BY <3>2, <3>3, <5>1
        <5>2. CASE b # c
          BY <3>3, <4>1, <5>2
        <5>3. QED
          BY <5>1, <5>2
      <4>3. QED
        BY <4>2
    <3>7. \A b \in App : seen'[b][b] = latest'[b]
      BY <3>1, <3>3
    <3>8. \A b \in App : \A q \in Nat :
            q < latest'[b] => q < latest[b] \/ (c = c /\ b = c /\ q = seqNo)
      <4>1. \A q \in Nat : q < seqNo + 1 => q < seqNo \/ q = seqNo
        OBVIOUS
      <4>2. QED
        BY <3>2, <3>3, <4>1
    <3>9. RowInv' /\ DelaysAreDefined' /\ rows' \in Seq(TraceRow)
      <4>1. TypeOK /\ RowInv /\ DelaysAreDefined /\ now' = now
        BY <1>1
      <4>2. WritesRow(c, c, seqNo)
        BY <3>3, <3>4, <3>5, <3>6, <3>7, <3>8, <4>1 DEF WritesRow
      <4>3. QED
        BY <1>6, <4>1, <4>2, RowWritten
    <3>10. QED
      BY <3>3, <3>9
  <2>3. QED
    BY <1>1, <2>1, <2>2
<1>8. TypeOK'
  BY <1>1, <1>2, <1>7 DEF TypeOK
<1>9. QED
  BY <1>2, <1>3, <1>5, <1>7, <1>8 DEF TimedInv

LEMMA ReceiveHolds ==
  ASSUME TimedInv, NEW n \in App, NEW p \in App, ReceiveMessage(n, p)
  PROVE  TimedInv'
<1>1. /\ TypeOK /\ FileInv /\ StartInv /\ ChainInv /\ RowInv /\ DelaysAreDefined
      /\ n # p
      /\ UNCHANGED << latest, now, left, link, events, breaks, sent >>
      /\ UNCHANGED << kind, phase, absTime, file >> /\ now \in Nat
  BY DEF TimedInv, ReceiveMessage, setUp, appVars, TypeOK
<1>2. PICK seqNo \in 0 .. NLines : /\ seen[n][p] <= seqNo /\ seqNo < latest[p]
                                   /\ seen' = [seen EXCEPT ![n][p] = seqNo + 1]
                                   /\ rows' = Append(rows, Row(n, p, seqNo))
  BY DEF ReceiveMessage, IsNews
<1>3. seqNo \in Nat /\ latest \in [App -> Nat] /\ seen \in [App -> [App -> Nat]]
      /\ \A b \in App : seen[b][b] = latest[b]
  BY <1>1 DEF TypeOK, RowInv
<1>4. /\ latest' \in [App -> Nat] /\ seen' \in [App -> [App -> Nat]]
      /\ seen'[n][p] = seqNo + 1
      /\ \A a, b \in App : (a = n /\ b = p) \/ seen'[a][b] = seen[a][b]
  BY <1>1, <1>2, <1>3
<1>5. \A a, b \in App : seen[a][b] <= seen'[a][b]
  <2>1. \A a, b \in App : seen[a][b] \in Nat
    BY <1>3
  <2>2. seen[n][p] <= seen'[n][p]
    BY <1>2, <1>3, <1>4, <2>1
  <2>3. \A a, b \in App : seen[a][b] <= seen[a][b]
    BY <2>1
  <2>4. QED
    BY <1>4, <2>2, <2>3
<1>6. \A b \in App : latest[b] <= latest'[b] /\ seen'[b][b] = latest'[b]
  <2>1. \A b \in App : latest[b] \in Nat /\ latest'[b] = latest[b]
    BY <1>1, <1>3
  <2>2. QED
    BY <1>1, <1>3, <1>4, <2>1
<1>7. seqNo < latest'[p] /\ seqNo < seen'[n][p]
  BY <1>1, <1>2, <1>3, <1>4
<1>8. \A b \in App : \A q \in Nat : q < latest'[b] => q < latest[b]
  BY <1>1
<1>9. RowInv' /\ DelaysAreDefined' /\ rows' \in Seq(TraceRow)
  <2>1. WritesRow(n, p, seqNo)
    BY <1>1, <1>2, <1>4, <1>5, <1>6, <1>7, <1>8 DEF WritesRow
  <2>2. QED
    BY <1>1, <1>3, <2>1, RowWritten
<1>10. FileInv' /\ ChainInv'
  BY <1>1, FileFrame, LinkKeepsChains
<1>11. StartInv' /\ TypeOK'
  BY <1>1, <1>4, <1>9 DEF StartInv, TypeOK
<1>12. QED
  BY <1>9, <1>10, <1>11 DEF TimedInv

LEMMA TickHolds ==
  ASSUME TimedInv, Tick
  PROVE  TimedInv'
<1>1. /\ TypeOK /\ FileInv /\ StartInv /\ ChainInv /\ RowInv /\ DelaysAreDefined
      /\ UNCHANGED << latest, seen, left, link, events, rows, breaks, sent >>
      /\ UNCHANGED << kind, phase, absTime, file >>
      /\ now \in Nat /\ now' = now + 1
  BY DEF TimedInv, Tick, traceVars, setUp, appVars, TypeOK
<1>2. now' \in Nat /\ now <= now'
  BY <1>1
<1>3. FileInv' /\ RowInv' /\ DelaysAreDefined'
  BY <1>1, <1>2, FileFrame, RowsFrame
<1>4. ChainInv'
  BY <1>1, TickKeepsChains
<1>5. TypeOK' /\ StartInv'
  BY <1>1, <1>2 DEF TypeOK, StartInv
<1>6. QED
  BY <1>3, <1>4, <1>5 DEF TimedInv

LEMMA NextHolds == TimedInv /\ [Next]_vars => TimedInv'
<1>1. TimedInv /\ Next => TimedInv'
  BY GenerateHolds, CreateHolds, StartHolds, LinkHolds, SendHolds, ReceiveHolds, TickHolds
  DEF Next
<1>2. ASSUME TimedInv, UNCHANGED vars
      PROVE  TimedInv'
  <2>1. /\ TypeOK /\ FileInv /\ StartInv /\ ChainInv /\ RowInv /\ DelaysAreDefined
        /\ UNCHANGED << latest, seen, left, link, events, rows, breaks, sent >>
        /\ UNCHANGED << kind, phase, absTime, file, now >>
        /\ now \in Nat
    BY <1>2 DEF TimedInv, vars, traceVars, setUp, appVars, TypeOK
  <2>2. now' \in Nat /\ now <= now'
    BY <2>1
  <2>3. FileInv' /\ RowInv' /\ DelaysAreDefined'
    BY <2>1, <2>2, FileFrame, RowsFrame
  <2>4. ChainInv'
    BY <2>1, LinkKeepsChains
  <2>5. TypeOK' /\ StartInv'
    BY <2>1 DEF TypeOK, StartInv
  <2>6. QED
    BY <2>3, <2>4, <2>5 DEF TimedInv
<1>3. QED
  BY <1>1, <1>2

THEOREM TimedInvariant == Spec => []TimedInv
  BY InitHolds, NextHolds, PTL DEF Spec
-----------------------------------------------------------------------------
(* SyncMuc computes the delay of a message without asking whether its time *)
(* has passed, and is right not to ask (sync-muc.cc:203).                  *)
THEOREM ScheduledInTime == Spec => []NeverInThePast
<1>1. TimedInv => NeverInThePast
  BY DEF TimedInv, ChainInv, Queued, NeverInThePast
<1>2. QED
  BY <1>1, TimedInvariant, PTL

(* Two chains of one client send its lines in order, none early, and those *)
(* of a SyncMuc on time (SendMessage, ScheduleNextMessage).                *)
THEOREM LinesGoOutInOrder == Spec => []SentInLineOrder
<1>1. TimedInv => SentInLineOrder
  BY DEF TimedInv, ChainInv, SentInOrder, SentInLineOrder
<1>2. QED
  BY <1>1, TimedInvariant, PTL

(* The rows that SeqNoTracer writes can be joined: none is written twice,  *)
(* and each comes after its sender's, not earlier (SeqNoTracer).           *)
THEOREM RowsCanBeJoined == Spec => []DelaysAreDefined
<1>1. TimedInv => DelaysAreDefined
  BY DEF TimedInv
<1>2. QED
  BY <1>1, TimedInvariant, PTL

(* While no connection has broken, the number of a message is that of its  *)
(* sender's line, as the scripts assume that read the input file.          *)
THEOREM NumbersAreLines == Spec => []NumberIsLine
<1>1. TimedInv => NumberIsLine
  BY DEF TimedInv, ChainInv, Numbered, NumberIsLine, Before
<1>2. QED
  BY <1>1, TimedInvariant, PTL
=============================================================================
