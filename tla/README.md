# A verification project for ndnSIM-chronochat

The repository simulates group chat twice: **StandardMuc**, a central server that
clients talk to over TCP, and **SyncMuc**, a serverless chat over NDN with
ChronoSync.  Both read the same message schedule and report what they send and
receive to the same traces, so that the measurements of the two can be compared.
A flaw in one application (a message lost, repeated, or reported under a wrong
number) silently becomes a flaw of the measurement; that is what this project is
about.

This directory holds TLA+ modules of the system, TLC configurations that check
them on small instances, and theorems proved with TLAPS for every instance.
`PROJECT.json` lists components, runs, mutants, the map from definitions to
source lines, hazards, findings and theorems.

## 1. Inventory

| component | source | state | operations |
|---|---|---|---|
| message schedule | input file; `standard-muc.cc:250-260, 334-359`, `sync-muc.cc` | the lines (id, absolute time, size); per application a file position and a count of lines left | read the next own line |
| MucServer | `extensions/standard-muc.{cc,h}` | `m_socket` (listening), `m_clients` (accepted sockets), `m_bodyToRead` per socket | StartApplication, StopApplication, OnConnectionRequest, OnConnectionAccept, OnError, RebroadcastIncomingMsg with ReadBody |
| MucClient | the same | `m_socket`, `m_retryEvent`, `m_input`/`m_inputLen`, `m_curMsgId`, `m_bodyToRead`, the scheduled SendMessage events | StartApplication, StopApplication, TryConnect, OnConnectSucceed, OnConnectFailed, OnShutdown, OnError, ScheduleNextMessage, SendMessage, OnRecvMessage with ReadBody |
| ClientAndSeqNoHeader | `standard-muc.cc:41-106` | id, sequence number, body length | Serialize, Deserialize |
| TCP sockets | ns-3 library (external) | connection state, two byte streams | handshake, delivery, close and error callbacks |
| SyncMuc | `extensions/sync-muc.{cc,h}` | `m_logic` (ChronoSync, external), file position, `m_curMsgId` | StartApplication, StopApplication, ScheduleNextMessage, SendMessage, OnDataUpdate |
| knowledge maps, HitMap | `extensions/heat-map.h` | latest number per sender, globally and per application; hit counts | OnNewSeqNo, Periodic, Print |
| Validator | `extensions/validator.h` | set of numbers seen per sender | OnNewSeqNo, the totals at the end |
| SeqNoTracer | `extensions/seq-no-tracer.{cc,h}` | a file of rows | OnNewSeqNo |
| schedule and loss generators | `scenarios/disabled/sync-eval.cc:245-299` | two files | one line per message, one per link |
| P2pChannelTracer | `extensions/p2p-channel-tracer.h` | counters per channel, of packets and of drops | P2pChannelTrace, DropChannelTrace, PrintTraces, destructor |
| link failures | `scenarios/disabled/sync-eval.cc:100-161, 374-457` | up or down per interface, metric | ToggleLinkStatus, the timeline of toggles and route recomputation |
| experiment set-up | `extensions/experiment.h`, `scenarios/disabled/*.cc` | nodes, applications, start times | straight-line construction |
| simulation runner | `run.py` | a queue of jobs and worker processes | run a job, wait for all |
| converter, topologies, graphs, build files | `scenarios/converter.cc`, `topologies/`, `graphs/`, `wscript` | none | one-shot input and output |

**Interactions.**  The simulator runs one event at a time: an application
callback is atomic, but the order of callbacks of different applications is
not fixed by anything but link delays.  MucServer and MucClient share nothing
but their sockets.  Every application fires `SeqNoTrace` (message seen) and
`LatestSeqNoTrace` (message generated); Validator, SeqNoTracer and the
knowledge maps are callbacks of those traces and never act on the
applications.  SyncMuc calls SyncLogic and is called back by it.  The link
timeline acts on both through the network.

**Hard behaviours.**  The window between the client's and the server's view of
a handshake; the fragments a TCP stream is delivered in; a connection that
breaks, is reported by one side only, or later, and is replaced while
SendMessage events of the old one are still scheduled; the accepted sockets
that no error callback ever removes from `m_clients`; a stop in the middle of
a close.  `PROJECT.json` lists each at its line under `hazards`.

**What makes each component correct.**

- MucClient sends the lines of its own id in order, each at most once, under
  increasing numbers; loses none while its connection is sound; gets through
  its input even if connections break; never uses a socket that is gone.
- MucServer relays every message it reads to every other accepted client,
  exactly once, in one common order, never to the originator.
- The framing yields exactly the messages that were written, wherever
  deliveries end and across reconnections.
- SyncMuc reports every number between the old and the new state once.
- The knowledge maps hold the highest number fired, and count a node that is
  up to date as a hit.
- P2pChannelTracer prints every counted packet once; a failed and recovered
  link is as before.

## 2. Modules

| module | models | uses |
|---|---|---|
| `MessageInput` | the schedule file as every application reads it | |
| `TcpSockets` | what `standard-muc.cc` can observe of ns-3's TCP sockets (external) | `MessageInput` |
| `MucServer` | class MucServer, one action per handler | `TcpSockets` |
| `MucClient` | class MucClient, one action per handler | `TcpSockets` |
| `StandardMuc` | server and clients composed; the specification, its fairness, its properties, the inductive invariant | `MucServer`, `MucClient`, `LogReader` |
| `ChatRoom` | abstract: a shared log that members join, post to and read | `LogReader` |
| `StandardMucRefinement` | the mappings under which StandardMuc implements ChatRoom and SeqNoTraces | `StandardMuc`, `ChatRoom`, `SeqNoTraces` |
| `MucFraming` | headers and bodies on the byte streams, both ReadBody functions and both reading loops, several senders, full send buffers | |
| `MucFramingRefinement` | the mapping under which MucFraming, too, implements ChatRoom | `MucFraming`, `ChatRoom` |
| `SeqNoTraces` | abstract: what the observers see of any chat, the numbers fired on the traces | |
| `SyncMuc` | class SyncMuc over an external SyncLogic | `MessageInput`, `SeqNoTraces` |
| `Knowledge` | the knowledge maps, HitMap and Validator with what they print, over any chat that fires its traces as `SeqNoTraces` says | `SeqNoTraces` |
| `TimedChat` | the clock: the generator of schedules, the times at which either application sends, the rows of SeqNoTracer | `SeqNoTraces` |
| `LinkTimeline` | the files of losses and the dice behind them, the failure scenarios of `sync-eval.cc`, the toggles of both network types, the recomputation of routes | |
| `ChannelTracer` | P2pChannelTracer and its periodic print in a run of bounded length | |
| `MCStandardMuc`, `MCSyncMuc` | inputs for TLC | `StandardMucRefinement`, `SyncMuc` |
| `LogReader` | what it means to read a log without one's own messages (`Reads`), for the abstract room and for StandardMuc | |

The theorems and their proofs (section 5):

| module | proves | uses |
|---|---|---|
| `SequenceLemmas` | lemmas on numbers (least element, induction, sums) and on operators of the community modules: `SetToSeq`, `RemoveAt`, `FlattenSeq`, the places of an element in a sequence | |
| `StandardMucProofs` | types, the inductive invariant and the safety theorems of StandardMuc; that it implements ChatRoom and SeqNoTraces | `StandardMucRefinement`, `SequenceLemmas` |
| `MucFramingProofs` | the invariant of the framing; that MucFraming implements ChatRoom | `MucFramingRefinement`, `SequenceLemmas` |
| `SyncMucProofs` | the invariants of SyncMuc and that it implements SeqNoTraces | `SyncMuc`, `SequenceLemmas` |
| `KnowledgeProofs` | the invariant of the observers | `Knowledge`, `SequenceLemmas` |
| `TimedChatProofs` | the invariant of the clock, the queue and the rows | `TimedChat`, `SequenceLemmas` |
| `LinkTimelineProofs` | the invariant of the links, the routes and what is scheduled for them | `LinkTimeline` |
| `ChannelTracerProofs` | the invariant of the counters, the rows and the traffic | `ChannelTracer`, `SequenceLemmas` |

### How state and actions correspond to the code

*Input.*  A line is its index and `Input[i]` its id; `pos[c]` stands for
`m_input` and `m_inputLen`.  Times only order lines (the file is written in
time order), so a client's scheduled SendMessage events form the queue
`pending[c]`; the order between different clients' events is left free, which
is more than the code can do.  A `SendMessage` scheduled in the past runs
immediately (`standard-muc.cc:354-356`), hence after an older one as well; that
this makes a queue is shown with the clock, by `SentInLineOrder` of `TimedChat`.

*Connections.*  A session `<<c, k>>` is the k-th connection of client c: on
the client's side one socket object reused by `TryConnect`, on the server's
side a fresh accepted socket each time.  `conn[c]` is the state of the client's
socket, `sess[s]` the state of the server's.  `up[s]` and `down[s]` are all the
messages ever written on s; `taken[s]` and `heard[s]` are the readers' cursors.
The server reads only from the latest session of a client (the SYN of a new
connection does not overtake segments of the old one on FIFO links) and writes
to every socket in `m_clients` whose own end is open, also to one whose client
has long gone.

*Server.*  `OnConnectionAccept` sets the receive callback on the new socket but
the close callbacks on `m_socket`, the listening socket
(`standard-muc.cc:170`).  `armed` says that this has happened; whether a
socket that is made as a copy of the listening one inherits them is left
nondeterministic (`errCb`).  Only a socket that has them is ever removed from
`m_clients`.  `RebroadcastIncomingMsg(s)` reads any number of further
messages in one callback.  `history` and `join` are history variables.

*Client.*  `sock[c]` is `m_socket`, `retry[c]` is `m_retryEvent`.  A null
`m_socket` is dereferenced in `OnError` and `StopApplication`
(`standard-muc.cc:281-287, 321-332`); the model then sets `aborted` and nothing runs
any more.  `shown[c]` is a history variable: what `OnRecvMessage` has reported on
all connections of c, in order.

*Framing.*  `MucFraming` has several senders, the server and one listener, the
32-bit word as the unit, and deliveries that may end after any word.
`OneHeader` is one turn of the header loop and `ReadHeaders` the loop, as a
function of the number of turns: each turn that reads takes the words of a
header, which bounds them, and a turn that finds no whole header changes
nothing.  `Skipped` and `ReadBody` are the two ReadBody functions, which differ
in where the counter lives: per socket in the server (`ReconnectSender`
therefore begins at 0), one for all connections in the client (`OnError` and
`Connect` leave it).  `Taken` is the send buffer: it takes a packet as a whole
or not at all, and `SendMessage` and `PassOn` go on as if it always did.
The scenarios set the buffers so large (`sync-eval.cc:185`,
`irc-service.cc:196`) that this does not happen in them; the classes do not rely
on it, and neither does the model.  `written`, `relayed`, `passedOn`, `log`,
`since` and `earlier` are history variables.  `MucFramingRefinement` counts the listener as a member of the room
while its connection is one that began at a header, and what it reports up to
the first message that a full buffer refused (`Shown`); with it, StandardMuc's
streams of whole messages are justified.  StandardMuc itself has no full
buffers.

*SyncMuc.*  `tree[n][p]` is the latest number of p that n's SyncLogic knows;
`NoSeq` is the invalid number of a prefix it has not heard of.  `Wrapper(n)` is one
callback of SyncLogic with everything that an update has moved forward,
OnDataUpdate for each prefix included.  `Updates` is the library's part: any
subset of another node's prefixes, at any number that is newer than n's own.  That
covers updates that are lost, repeated (nothing is newer), late or partial.
`reported` and `asked` record the firings of `SeqNoTrace` and the Interests,
`produced` the Data packets.  For safety a stopped SyncLogic may still be a
source of updates, which is more than the library can do; `EveryoneHears` is
therefore about behaviours without a stop.  `due` is the line of the one scheduled
`SendMessage`: this application schedules the next only after the last, so
there are no two chains here.  The stop leaves `m_logic` set, so it does not end the
chain (`sync-muc.cc:117-124, 211`).  What `ndn::App::StopApplication` does to the
face that `SendMessage` uses afterwards (`sync-muc.cc:119, 229`) is the library's
and is left out.

*Observers.*  The four callbacks of a trace run inside the event that fires
it, so firing and recording are one step of `Knowledge`.  There every number
received is a step of its own; an application that reports several at once
is several steps.  `Periodic`, `Print` and `Collect` are the handlers of the
observers, `Collect` that of the Validator; `MessageSent` and `MessageReceived` are
steps of the environment, the chat that fires the traces.  `MessageReceived` may skip numbers, which StandardMuc does
after a broken connection.  `current` is a history variable, the number of
rounds in which a node really was up to date, beside the `hitMap` that counts
those in which `Periodic` found it so.  `Finish` is the end of main: the table of hits, with
a row for each pair that has an entry, and the totals of the Validators.

*Time.*  `TimedChat` has the clock that the other modules leave out.
`GenerateLine` and `CreateApps` are the invocation that writes the schedule and
the one that reads it: the ids at its head, the empty row, the count, the lines.
`events` are the scheduled SendMessages, of which the earliest runs, and of
equal ones the first scheduled.  `DueTime` is the difference between the two
applications: MucClient asks whether the time of a line has passed, SyncMuc
does not.  A MucClient may take any time to connect and may lose its connection;
everything else happens within a unit.  `kind` says which application the
scenario installs.  `rows` is what SeqNoTracer writes.

*Links.*  `LinkTimeline` jumps from event to event.  `face[l][e]` is one end of
a link; each end is flipped by its own state.  `FailureOf` is what is scheduled
per failed link.  What is scheduled is a set of events, which the `uid` numbers
in the order in which the code schedules them, because that order decides among
events of equal time.  `routes` is what the last recomputation saw.

A run and the invocation that generates its files are different invocations.
`dice` is what the generator draws for each link; `--run` seeds it
(`sync-eval.cc:229`), so it is the same in every invocation.  `GenerateLosses`
writes the file of one `--loss`: the number of links, `N`, and a line per link,
which fails if its dice is within that loss.  It may run any number of times, for
any losses.  The file of messages, which each of them writes as well, is the one
that a run insists on (`InputIsThere`); its name does not tell the loss
(`sync-eval.cc:230-234`), so a run may find it although the file of *its* loss was
never generated.  `ScheduleFromFile` reads `N` and then as many lines; it ignores
the index in a line and takes the next link of the list.  If the file is not
there, `N` and `failed` are not initialised, so they are anything.  A position
past the end of the list of links is the phase `"undefined"`.  The number of links is that of `original`, the
metrics of the topology.

*Channels.*  `inChannels` are the two maps of P2pChannelTracer, with entries only
for channels that counted something since the last print.  A stop and a print
at the same time run in the order in which they were scheduled: the stop.  `Destroy`
clears the counters and writes no row, because the file is already closed.

*Mutants.*  A definition whose name extends that of another one after an underscore
(`SendMessage_SameSeqNo`) is a plausible bug of the code.  No specification
uses it; it is there to show that the property listed with it in
`PROJECT.json` can fail.

## 3. Runs

| run | instance | what it shows |
|---|---|---|
| `faults` | 2 clients, input alice bob alice, 2 faults | order, completeness, single delivery, the schedule and the connection state survive any two faults |
| `three` | 3 clients, input alice alice bob carol, no fault | fan-out to several listeners; no line lost on sound connections |
| `stop` | 2 clients, input alice bob alice, 1 fault, alice and the server may stop | stopped means silent; a null dereference needs a stop; `IInv`, the invariant of the proofs |
| `live` | 2 clients, input alice bob alice, 1 fault, fairness | every client gets through its input, everything written is heard; StandardMuc implements ChatRoom, and SeqNoTraces |
| `framing` | 2 senders, 3 messages of 0 or 2 words, a full buffer refuses one, each side reconnects once | messages are cut out of the streams exactly, a callback leaves none behind whose header is there, a full buffer makes a gap and nothing worse; MucFraming implements ChatRoom |
| `framing_reconnect` | 1 sender, 2 messages of 0, 1 or 4 words, the listener reconnects once | the first finding below |
| `sync` | 3 applications, 7 lines, one application may stop, Interests on, fairness | every number once and in order, nothing asked for before it exists, no line lost; SyncMuc implements SeqNoTraces; without a stop everyone reports the whole input |
| `knowledge` | 2 applications, 3 messages each, 3 rounds | maps and validators agree; whoever is up to date is a hit and has one row; the totals are right |
| `knowledge_hits` | 2 applications, 2 messages each, 2 rounds | the second finding below |
| `links` | 1 or 3 links of metric 1 or 5, losses of 0, 50 and 100 %, dice of 50 and 51, files of any of the losses, runs of 40 to 1600 s | exactly the links drawn for the loss of the run fail, whatever else was generated; failures are healed, routes restored and never stale for more than 30 s |
| `tracer` | 2 channels, 4 packets or drops, period 2, runs of 2 to 5 | every packet once; only the last period is lost |
| `timed` | 2 SyncMucs or 2 MucClients, any schedule of 3 lines with delays 1 and 2, a connection of a MucClient breaks, handshakes of any length | never a negative delay, every message of a SyncMuc at its time, late lines caught up in order, delays well defined |

**Bounds.**  `MaxFaults` bounds what the network does to the applications in one
behaviour and with it the sessions (`MaxFaults + 1` each).  Two faults are
enough for the two ends of one connection to break in either order, for both
clients to lose one connection each, and for one client to come back twice, so
that two stale entries in `m_clients` and two SendMessage chains exist.  Three
lines with the ids alice bob alice give one client a chain to lose and resume
and both a message to hear.  In `framing` a body is empty or two words long, so
a delivery can end before, in and behind it; a callback that leaves words of a
body to skip has read everything that arrived, so longer bodies only add
positions in their middle.  One refused packet can be a sender's or the
server's, and the first, the middle or the last of three.  Apart from that no
counter is cut: message numbers are bounded by the input.  In `sync` one sender
has four messages, so that an update can cover a first number, a middle one and
several at once, and a third application can bring news of the second.  In
`Knowledge`, `MaxNumber` and `MaxRounds` bound messages and rounds; three
numbers are one more than the test of `Periodic` looks back.  In `TimedChat`
three lines let one application have two, before, after or around a line of the
other; delays of one and two units separate "next unit" from "later", and with
`Retry` 2 and handshakes of any length a connection returns before, at and after
the time of a line (`MaxTime` leaves out the last line of the schedule with the
three longest delays only).  In `LinkTimeline` the lengths of runs lie on either
side of 60, 120, 1000 and 1200 seconds, the values at which a condition of the
code changes; three links are what the hard-coded pattern needs, and one is
fewer; the dice lie at the loss of 50 and just above it.  `ChannelTracer` has the period 2 for 1000 seconds, so that a packet
comes before, at and between prints, and runs that end at, before and after one.

**Deadlock.**  The chat quiesces when the input is drained; every cfg
therefore says `CHECK_DEADLOCK FALSE`, and `InputDrained` and `RoomConverges`
say instead that it does not stop too early.

**Fairness** (`StandardMuc!Fairness`).  Weak fairness of what the simulator or
the library is bound to do: scheduled events (StartApplication, the retry,
SendMessage) run; handshakes complete or fail; delivered data reaches its receive callback.
There is none for faults, for stops, or for the detection of a broken peer:
a connection whose other end is gone may stay unnoticed for ever.
`SyncMuc!FairSpec` has weak fairness of StartApplication and SendMessage for
the same reason, and of `Wrapper`, which is ChronoSync's own promise: as long as
some tree is ahead, its recovery goes on until an update arrives.

## 4. Findings

**A stale body counter.**  `MucClient::OnError` and `TryConnect` put the client
on a new stream and leave `m_bodyToRead` at what was missing of the old one.  If
the old connection broke in the middle of a body, the first words of the new
stream are skipped as if they were that body, and the words after them are
decoded as a header: `SeqNoTrace` fires with numbers that name no message, and
all three observers record them.  Run `framing_reconnect` gives the behaviour;
`ReportsWhatWasRelayed` in run `framing` shows that nothing else goes wrong:
whenever no connection breaks in the middle of a body, the reports are exact.

**What a hit means.**  The maps hold the last number plus one (`heat-map.h:9`),
and `Periodic` takes one off the global value before it compares
(`heat-map.h:70-73`).  A node that lacks the latest message of another one
therefore counts as a hit, although the comment says "Checking if node1 knows
current state of node2".  Run `knowledge_hits` gives a behaviour of two steps;
`NoPairLeftOut` in run `knowledge` shows the other direction, that no up-to-date
node is ever left out.

Three more disagreements were seen while reading.  They are visible in a line
and have no run:

- `HitMap::Print` writes the link loss and then the random loss (`heat-map.h:107`)
  under a header that names them the other way round (`heat-map.h:98`).  The
  script of figure 13 brings its own names, in the order of the rows.
- The help of `--manualLoss` says "Hard-coded link failure pattern"
  (`sync-eval.cc:218`); in an ipv4 run the calls of that pattern are commented
  out (`sync-eval.cc:398-407`), and the file of losses is not used either, so the
  run has no failures at all (`ManualPattern` is empty there).
- P2pChannelTracer counts Interests and Data in the same counter
  (`p2p-channel-tracer.h:99, 117`), so CountInterests (`p2p-channel-tracer.h:47`)
  is always 0.  `EverythingAccountedFor` shows that the sum of the two columns,
  which is what figure 8 uses, is right.

Some properties name a weakness and show that it is no worse.  `OnlyLastPeriodIsLost`: the
destructor of P2pChannelTracer closes its file before it prints, and a print
due at the stop does not run.  `RoutesRestored`: a link that comes up again has metric 1,
whatever it had.  `FailuresAsDrawn`: the loop over the losses
follows the list of links for as many lines as the file promises, without asking
for the list's end and without looking at the index in a line
(`sync-eval.cc:429-434`); it is the generator that makes them agree, and without
the file of the right loss nothing does.  And `NumberIsLine` needs sound
connections: a MucClient whose connection is down when a line is due drops the line without
using up a number (`standard-muc.cc:364`), so later messages have smaller
numbers than the index of their line, and a script that takes times from the input by
counting lines (figure 10) would be wrong for such a run.

## 5. Proofs

All theorems hold for every value of the constants that satisfies the
assumptions of the modules: `InputAssumption`, `MaxFaultsAssumption`,
`ServerMayStopAssumption` and `StoppableAssumption` for StandardMuc,
`SyncAssumption` for SyncMuc, `FramingAssumption` and `ListenerAssumption` for
the framing, `KnowledgeAssumption`, `TimedAssumption`, `LinkAssumption` and
`TracerAssumption`.  They say what type a constant has.  `KnowledgeAssumption`,
`TimedAssumption` and `FramingAssumption` add that there are finitely many
applications, of which tables are lists and over which totals are sums;
`LinkAssumption` that a run is a whole number of seconds and a multiple of four,
so that the times of failure and recovery, a quarter and three quarters of it,
are whole as well, and that metrics are above 0 and below 65535, the value that
takes a link down; `TracerAssumption` that the period of the prints is not 0.
So the theorems hold for any set of clients, any input, any number of faults,
messages, rounds, lines, links, channels and packets, any lengths of bodies, and
any delays of at least one unit between lines.

| theorem | module | states |
|---|---|---|
| `TypeCorrect` | `StandardMucProofs` | `Spec => []TypeOK` |
| `CoreHolds` | | `Spec => []CoreInv` |
| `RoomIsOrdered` | | `Spec => []HeardInOrder` |
| `LinesInOrder` | | `Spec => []LinesNeverRepeated` |
| `NobodyHearsItself` | | `Spec => []NoEcho` |
| `SocketAgrees` | | `Spec => []ConnectionStateAgrees` |
| `FaultsNeverAbort` | | `Spec => []AbortOnlyAfterStop` |
| `StoppedIsSilent` | | `Spec => StoppedStaysSilent` |
| `InvariantHolds` | | `Spec => []IInv` |
| `ChainsAreBounded` | | `Spec => []OneChainPerConnection` |
| `CalmLosesNoLine` | | `Spec => []NoLineLost` |
| `NothingIsMissed` | | `Spec => []SubscriberMissesNothing` |
| `ImplementsChatRoom` | | `Spec => ChatRoomImplemented` |
| `ImplementsTraces` | | `Spec => TracesImplemented` |
| `FramingInvariant` | `MucFramingProofs` | `Spec => []FramingInv` |
| `RelayIsExact` | | `Spec => []RelaysWhatWasSent` |
| `ReportIsExact` | | `Spec => []ReportsWhatWasRelayed` |
| `NothingIsLeftBehind` | | `Spec => []NothingLeftBehind` |
| `NumbersGoUp` | | `Spec => []OnlyGaps` |
| `FramingImplementsChatRoom` | | `Spec => RoomImplemented` |
| `SyncInvariant` | `SyncMucProofs` | `Spec => []SyncInv` |
| `EveryNumberOnce` | | `Spec => []ReportedInSequence` |
| `NothingInvented` | | `Spec => []NeverAhead` |
| `DataBeforeInterest` | | `Spec => []InterestsHaveData` |
| `EveryLineIsSent` | | `Spec => []NoLineLost` |
| `TracesAreFired` | | `Spec => TracesImplemented` |
| `KnowledgeInvariant` | `KnowledgeProofs` | `Spec => []KnowledgeInv` |
| `MapsAgree` | | `Spec => []ObserversAgree` |
| `EveryPairHasItsRow` | | `Spec => []NoPairLeftOut` |
| `NoReportIsRepeated` | | every reported number is collected once: `Cardinality(test[n][p]) = fired[n][p]` |
| `TotalsAreCorrect` | | `Spec => []TotalsAreReports` |
| `TimedInvariant` | `TimedChatProofs` | `Spec => []TimedInv` |
| `ScheduledInTime` | | `Spec => []NeverInThePast` |
| `LinesGoOutInOrder` | | `Spec => []SentInLineOrder` |
| `RowsCanBeJoined` | | `Spec => []DelaysAreDefined` |
| `NumbersAreLines` | | `Spec => []NumberIsLine` |
| `TimelineInvariant` | `LinkTimelineProofs` | `Spec => []TimelineInv` |
| `FailuresFollowTheDice` | | `Spec => []FailuresAsDrawn` |
| `FailuresHeal` | | `Spec => []EveryFailureIsHealed` |
| `RoutesAreRestored` | | `Spec => []RoutesRestored` |
| `RoutesCatchUp` | | `Spec => RoutesLagBehind` |
| `TracerInvariant` | `ChannelTracerProofs` | `Spec => []TracerInv` |
| `NothingIsLostOrRepeated` | | `Spec => []EverythingAccountedFor` |
| `OneRowEach` | | `Spec => []OneRowPerPeriod` |
| `OnlyTheTailIsLost` | | `Spec => []OnlyLastPeriodIsLost` |

**The argument for StandardMuc: order.**  `HeardInOrder` speaks of what
listeners have read, and no step preserves it by itself: that a message newly
read is newer than all before it depends on everything upstream.  `CoreInv`, the
first half of `IInv`, follows the message:

1. `ConnInv`: state of the client and of its socket.  A message is only ever
   written on the latest session.
2. `SessionInv`: sessions to come are empty, cursors stay within streams.
3. `SentInv`: over all sessions of a client, what was sent, then what is
   scheduled, then what is unread in the file, are increasing in line and (the
   first) in number. It holds although two chains run side by side, because both
   take from one queue and one file position.
4. `RelayInv`: what was relayed of a sender is increasing, and older than what
   the server has yet to read on that sender's latest session.
5. `DownInv`: what is written for a listener has been relayed, so a new batch
   is newer than all of it; and it is newer than what the listener heard on its
   earlier sessions.  Only *heard* messages count there: an old entry in
   `m_clients` goes on receiving what the new session receives too.
6. `EchoInv`: the latest session carries nothing of its own client.  An old one
   may (the server skips only the socket it reads from), which is why `NoEcho`
   needs the fact that clients do not read from old sessions.  (`NoEcho` is
   proved only; on small instances it is part of `ChatRoomImplemented`.)

**Completeness.**  `RoomInv`, the second half, says that nothing is left out:

1. `HandshakeInv` and `ChainInv`: a connection adds at most one scheduled
   message, and one still in its handshake has not added it yet.
   `SendMessage` takes one out of the queue before it adds one.
2. `CalmInv`: as long as nothing broke and nobody stopped, each session beyond its
   handshake is the latest of a client whose connection is up.  Therefore no
   `SendMessage` drops its line, and `NoLineLost` is kept.  That is an equation of
   cardinalities; `ScanFindsOne` and `ScanFindsNone` (from `NextPlace` and
   `NoFurtherPlace` of `SequenceLemmas`) say what a scan adds to it.
3. `ReadInv`: what is written on a session is the reading (`Reads`) of the
   history from the place where it was accepted: up to the end while it is open, up
   to the place where it ended afterwards.  A server socket that is open is in
   `m_clients`, which is where `RebroadcastIncomingMsg` looks.
4. `ShownInv`: what a client has been shown was relayed, is in order, and
   is older than what it has yet to read.

Each part has one lemma per action that disturbs it (`SendKeepsRelay`,
`RebroadcastKeepsReading`, `RecvKeepsShown`, ...), a frame lemma for the other actions
(`RelayFrame`), and a lemma that joins them (`RelayStep`).
`Reads` is an order-preserving correspondence between the places of
what was read and the places in the log, rather than a fold over the log: the two say
the same, and the correspondence needs no induction.

**StandardMuc implements ChatRoom.**  By `ReadInv`, what a client has still to
read of its session is a reading of the log behind its cursor (`ReadsSlice`),
and by `RelayInv` a message has one place in the log, so the cursor is well
defined (`CursorIs`).  Then one lemma per step that is seen in the room:
`AcceptJoins`, `RequestLeaves` (a client that comes back leaves, until it is
accepted again), `RebroadcastPosts`, `RecvIsReading`; all others are stutters
(`RoomStutters`).  **It implements SeqNoTraces:** a batch of headers is a
sequence of numbers of which each is newer than the last of the same sender
(`ShownInv`), and not ahead of what was sent (`RelayInv`); `RecvReceives` is
the step for it.

**The argument for the framing.**  The loop is described by where it leaves a
reader.  Let `hs` be the headers written on a stream.  `StandsAt(hs, p, body,
k)` says that a reader at position `p`, with `body` words to skip, has decoded
the first k of them: `p + body` is the length of these k messages on the wire,
and the header of the last lies before p (`HeaderIn`).
`FramingInv` has these parts:

1. `UpInv` and `DownInv`: a stream is the headers written on it, each with its
   body, and its reader stands at the number of messages that it has relayed or
   reported.  For the listener this is so only if its connection began at a
   header (`Aligned`): the stale counter breaks exactly this part.
2. `NumbersInv`: the numbers of a sender go up along its stream, and what was
   relayed or passed on of it is older than what is still to come.

That a callback keeps the place is the heart of it.  `ReadBodyEnds`: skipping
keeps the sum of position and rest, and uses up the body or what arrived.
`OneHeaderStep`: a turn of the loop stands where the next message begins, so the
words that it decodes are that header (`NextOnTheWire`), and the counter grows
by its body.  `LoopKeeps` is the induction over the turns, `ReceiveReads` the
whole callback: it decodes some of the next headers and stands behind them.
Where a delivery ends plays no part, so it may end anywhere.  `NothingLeftBehind`
needs the other direction, that the loop does not end too early.  A turn that finds
a header consumes at least its three words (`Advanced`), so after as many turns
as the arrived words allow, fewer than three are left (`Done`; none, if the rest of a
body has yet to come).  Then the header of the next message is not complete:
the callback has decoded exactly the messages whose header is there
(`AllDecoded`, `CallbackDecodes`).

For the **refinement** `RoomInv` adds how far the current connection of the
listener may be in the log: it was passed no more than was relayed since it
began, the numbers stay within the bound of the model, and what it reported
earlier are pairs of a sender and a number.  A delivery to the server is a post
of the batch of messages decoded, a delivery to the listener is a read of the
part of the log up to the first gap (`Shown`), a loss is a leave, a new
connection a join; everything else is a stutter.

**The argument for SyncMuc.**  `SyncInv` is `TypeOK`, `ReportedInSequence` and
`NeverAhead` together.  `ReportedInSequence` alone is not inductive: the
callback skips the own prefix (`sync-muc.cc:143`), so an update that moved it
would leave numbers out for ever.  `NeverAhead` excludes that, since the own
tree is at the latest number sent and no other tree is ahead of it.
`MissingContinues` is the arithmetic of OnDataUpdate: the numbers up to the old
one followed by the loop's range are the numbers up to the new one.  `DataInv`
adds that in data mode Interests ask for exactly what is reported and that all
numbers below the counter have their Data packet: with `NeverAhead`, an Interest
finds its packet.  `LineInv` adds that nothing is scheduled before the start, so
the scan there loses no event.  For `TracesAreFired`, `SeenIsTree` says that the
last number reported is the one in the tree; then SendMessage is a Generate, a
callback is a Receive, and start and stop are stutters.

**The argument for the observers.**  `KnowledgeInv`: the maps equal what was
fired last, plus one (`MapInv`); a Validator has collected only smaller numbers
and that one; hence a number that is fired is new to the set (`ReportInv`).  A
node that is up to date passes the weaker test of `Periodic`, so `current` never
gets ahead of `hitMap` (`HitInv`), and the file has one row for each entry and
no row twice (`FileInv`).  The totals are sums over the applications:
`SumMonotone` shows that of two functions of which one is nowhere above the
other, the sums agree only if the functions do, so that a total which looks
complete is complete.

**The argument for the clock.**  Lines leave in order although the chains of
old and new connections share one queue that is sorted by time, not by line.
`TimedInv` has these parts:

1. `FileInv`: the file as far as it is written, with times that grow; the empty
   row and the count are where the constructors look for them.
2. `Queued`: a scheduled line is an own one that was scanned, is not due before
   its time nor before now, and later than its time only if it is due at once.
3. `Chained`: of two events of one application the earlier in the queue has the
   smaller line and is not due later, so the scheduler, which takes the first of
   the earliest, takes them in the order of their lines.  This is what justifies
   the queue `pending` of `StandardMuc`.
4. `SentBefore`, `SentInOrder`: what was sent comes before what is scheduled.
5. `Single`, `Numbered`, `LinkInv`: until a connection breaks there is one
   chain, which has left out no line: hence `NumberIsLine`.
6. `RowInv`: a number that was reported has one row of its sender, from before.

`DelaysAreDefined` follows with the order of numbers in `RowInv` and is itself a
part of the invariant.

**The argument for the links.**  `DrawnInv` follows what was drawn: a file that
was generated has as many lines as there are links and fails those whose dice is
within its loss (`FilesInv`), and a run that finds the file of its loss schedules
exactly these (`ScheduledAsDrawn`).  Since all of it lies within the list, the
loop stays there too; how long each of them was then down is `LinksInv`, and
together they give `FailuresAsDrawn`.  Every event that is scheduled lies ahead, and
whatever has not run is still scheduled (`EventsInv`), so the time tells what
has run.  `LinksInv` has one case per link: as new, failed since its failure
time, or healed, with its metric and how long it was down.  It also holds for
the hard-coded pattern, with times of its own.  `RoutesInv` has one case per
state of the routing tables: as new, without the failed links, or with all of
them again, each with the time since when links and tables differ (`StaleFrom`).
A recomputation is scheduled once per failed link at the same time, so all but
the first change nothing.  The two conditions on the length of the run enter as
`CutComes` and `HealedComes`: where the code leaves the first recomputation out,
the failure is healed before the tables could be stale for more than the grace,
and where it leaves the second one out, the run ends in time.

**The argument for the channel tracer.**  `EverythingAccountedFor` is part of
the invariant and not enough for it.  `EntryInv`: an entry of a map counts
something, hence no row of zeros.  `RowInv`: rows are not newer than the last
print, so a print adds rows of a new time.  `TrafficInv`: what the rows hold is
bounded from below by what happened before the last print and from above by what
happened up to it.  The number of reports is a cardinality and the number in the
rows a sum over a set of rows, which `SumOfOthers` takes apart row by row.

**Induction.**  The induction theorems of the library take an operator as a
parameter, which no installed prover can instantiate.  `SetInduction` states
induction for a property given as a set; it is proved from the library's least
elements of well-founded relations.  Sums are folds; `SumIsCells` shows that
the sum of a function is the number of cells below its graph, and from there on
facts on cardinalities do.  `FlattenSeq` and the loop of the framing are
recursive functions, which are shown to exist (`FlattensExists`, `LoopExists`)
before their equations are used.

Each invariant was an invariant for TLC first: `IInv` is one of run `stop`; the
others hold in all states of the instances of their runs.

**Only model-checked.**  Liveness: `InputDrained` and `RoomConverges` of
StandardMuc and `EveryoneHears` of SyncMuc.  Temporal reasoning under fairness
is out of the prover's reach.  Every safety, action and refinement property that
a passing run checks has a theorem.

## 6. Not modelled, and the plan

The modules were written from the chat outwards: StandardMuc, its framing and
the abstract room, SyncMuc, the observers, the clock, links and channels, then
their proofs.  That plan is carried out.  A next step would be the loss of a
packet in a full buffer in StandardMuc itself; so far it is in `MucFraming`
only, where it is shown to make a gap and nothing worse.

Not in the models, and why:

- The 2^32 limit of sequence numbers (`sync-muc.cc:152`): no run of the code
  comes near it.
- Interests and Data on their way, the inner workings of TCP, NDN forwarding and
  ChronoSync: library code, which appears as its promises.
- An error callback inside a Send while `m_clients` is being walked
  (`standard-muc.cc:208`): whether the library does that depends on its version.
- `SetupApps` of `irc-service.cc`.  The file does not compile as it stands
  (`m_inputFile` is not declared), and its second loop runs over a node list to
  which its body may add; what it leaves behind (start times, no stop times, an
  application per client) is in the initial states.
- The simulation runner `run.py`: a template with one scenario whose set of jobs
  is empty.  What is concurrent in it is the library `workerpool`, of which the
  file uses `put`, `join` and `shutdown`; whether a job that raises leaves
  `join` waiting for ever (`run.py:55, 101`) is decided there.
- Output files that several runs append to (`sync-eval.cc:361`): the runner
  starts no such runs side by side as it stands.
- Formats, logging, topology files, the converter, the R scripts and the build
  scripts: no state that changes.  Of the scripts, what they rely on is stated
  where their input is written: `DelaysAreDefined`, `NumberIsLine`,
  `NoPairLeftOut`, `OneRowPerPeriod`.
