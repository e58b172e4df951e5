------------------------------- MODULE SyncMuc -------------------------------
(***************************************************************************)
(* The serverless chat (class SyncMuc): every application publishes its    *)
(* sequence number through a SyncLogic of its own and is told of the       *)
(* numbers that others have published.                                     *)
(*                                                                         *)
(* SyncLogic (ChronoSync) is library code.  What sync-muc.cc relies on is  *)
(* modelled: a tree of the latest number per prefix, addLocalNames for the *)
(* own prefix, and a callback with the old and the new number of each      *)
(* prefix that an update from another node has moved forward.  Updates     *)
(* may be lost, repeated, delayed or partial: an application learns any    *)
(* newer part of any tree, and what is not newer is never called back.     *)
(***************************************************************************)
EXTENDS MessageInput, Integers, Functions

CONSTANTS
  RequestData,   \* m_requestData
  Stoppable      \* the applications whose StopApplication may be called

ASSUME SyncAssumption == RequestData \in BOOLEAN /\ Stoppable \subseteq Client

VARIABLES
  logic,     \* logic[n]: m_logic is not created, running or stopped
  pos,       \* position in the input file
  due,       \* the line of the scheduled SendMessage event, or 0
  curMsgId,  \* m_curMsgId
  tree,      \* tree[n][p]: the latest number of p that n's SyncLogic knows
  reported,  \* reported[n][p]: the numbers of p fired on n's SeqNoTrace
  asked,     \* asked[n][p]: the numbers of p that n has sent Interests for
  produced   \* produced[n]: the numbers of the Data packets n has put out

vars == << logic, pos, due, curMsgId, tree, reported, asked, produced >>

NoSeq == -1   \* a SeqNo that is not valid

SeqNo == Nat \union {NoSeq}

TypeOK ==
  /\ logic \in [Client -> {"none", "running", "stopped"}]
  /\ pos \in [Client -> Nat]
  /\ due \in [Client -> Line \union {0}]
  /\ curMsgId \in [Client -> Nat]
  /\ tree \in [Client -> [Client -> SeqNo]]
  /\ reported \in [Client -> [Client -> Seq(Nat)]]
  /\ asked \in [Client -> [Client -> Seq(Nat)]]
  /\ produced \in [Client -> SUBSET Nat]

Init ==
  /\ logic = [n \in Client |-> "none"]
  /\ pos = [n \in Client |-> 0]
  /\ due = [n \in Client |-> 0]
  /\ curMsgId = [n \in Client |-> 0]
  /\ tree = [n \in Client |-> [p \in Client |-> NoSeq]]
  /\ reported = [n \in Client |-> [p \in Client |-> << >>]]
  /\ asked = [n \in Client |-> [p \in Client |-> << >>]]
  /\ produced = [n \in Client |-> {}]

(* Mutant: the last line of the input is never anybody's.                  *)
ScheduleNextMessage_SkipLast(n) ==
  \/ /\ OwnLinesAfter(n, pos[n]) \ {Len(Input)} = {}
     /\ pos' = [pos EXCEPT ![n] = Len(Input)]
     /\ due' = [due EXCEPT ![n] = 0]
  \/ \E i \in Line \ {Len(Input)} :
       /\ IsNextOwnLine(n, pos[n], i)
       /\ pos' = [pos EXCEPT ![n] = i]
       /\ due' = [due EXCEPT ![n] = i]

(* Reads up to the next own line and schedules its SendMessage, or reads   *)
(* to the end of the input and schedules nothing.                          *)
ScheduleNextMessage(n) ==
  \/ /\ OwnLinesAfter(n, pos[n]) = {}
     /\ pos' = [pos EXCEPT ![n] = Len(Input)]
     /\ due' = [due EXCEPT ![n] = 0]
  \/ \E i \in Line :
       /\ IsNextOwnLine(n, pos[n], i)
       /\ pos' = [pos EXCEPT ![n] = i]
       /\ due' = [due EXCEPT ![n] = i]

StartApplication(n) ==
  /\ logic[n] = "none"
  /\ logic' = [logic EXCEPT ![n] = "running"]
  /\ ScheduleNextMessage(n)
  /\ UNCHANGED << curMsgId, tree, reported, asked, produced >>

(* The scheduled SendMessage stays scheduled, and m_logic stays set.  What *)
(* the base class in the library does to the face (ndn::App) is left out.  *)
StopApplication(n) ==
  /\ n \in Stoppable
  /\ logic[n] = "running"
  /\ logic' = [logic EXCEPT ![n] = "stopped"]
  /\ UNCHANGED << pos, due, curMsgId, tree, reported, asked, produced >>

(* Mutant: the Data packet is named after the number is advanced.          *)
SendMessage_DataOfNext(n) ==
  /\ due[n] # 0
  /\ tree' = [tree EXCEPT ![n][n] = curMsgId[n]]
  /\ reported' = [reported EXCEPT ![n][n] = Append(@, curMsgId[n])]
  /\ produced' = IF RequestData
                 THEN [produced EXCEPT ![n] = @ \union {curMsgId[n] + 1}]
                 ELSE produced
  /\ curMsgId' = [curMsgId EXCEPT ![n] = @ + 1]
  /\ ScheduleNextMessage(n)
  /\ UNCHANGED << logic, asked >>

(* Mutant: the number after this one is published.                         *)
SendMessage_PublishNext(n) ==
  /\ due[n] # 0
  /\ tree' = [tree EXCEPT ![n][n] = curMsgId[n] + 1]
  /\ reported' = [reported EXCEPT ![n][n] = Append(@, curMsgId[n])]
  /\ produced' = IF RequestData
                 THEN [produced EXCEPT ![n] = @ \union {curMsgId[n]}]
                 ELSE produced
  /\ curMsgId' = [curMsgId EXCEPT ![n] = @ + 1]
  /\ ScheduleNextMessage(n)
  /\ UNCHANGED << logic, asked >>

(* The scheduled SendMessage runs: the number is published and reported,   *)
(* the Data packet goes out, the next message is scheduled.  A stopped     *)
(* application goes on, because only m_logic = 0 would end the chain.      *)
SendMessage(n) ==
  /\ due[n] # 0
  /\ tree' = [tree EXCEPT ![n][n] = curMsgId[n]]
  /\ reported' = [reported EXCEPT ![n][n] = Append(@, curMsgId[n])]
  /\ produced' = IF RequestData
                 THEN [produced EXCEPT ![n] = @ \union {curMsgId[n]}]
                 ELSE produced
  /\ curMsgId' = [curMsgId EXCEPT ![n] = @ + 1]
  /\ ScheduleNextMessage(n)
  /\ UNCHANGED << logic, asked >>

(* Mutant: the old number is used without asking whether it is valid.      *)
MissingNumbers_NoValidCheck(oldSeq, newSeq) ==
  LET begin == IF oldSeq = NoSeq THEN 1 ELSE oldSeq + 1
  IN  [i \in 1 .. newSeq + 1 - begin |-> begin + i - 1]

(* The numbers that the loop of OnDataUpdate goes through.                 *)
MissingNumbers(oldSeq, newSeq) ==
  LET begin == IF oldSeq = NoSeq THEN 0 ELSE oldSeq + 1
  IN  [i \in 1 .. newSeq + 1 - begin |-> begin + i - 1]

(* Numbers that the trees of n and m hold or have held.                    *)
Known(n, m) ==
  { i \in NoSeq .. Len(Input) : \E p \in Client : i <= tree[n][p] \/ i <= tree[m][p] }

(* The parts of m's tree, present or past, that are newer than n's.  This  *)
(* is more than the library can do: numbers published by a stopped m may   *)
(* spread too.                                                             *)
Updates(n, m) ==
  { new \in [Client -> Known(n, m)] :
      /\ new # tree[n]
      /\ \A p \in Client : \/ new[p] = tree[n][p]
                           \/ tree[n][p] < new[p] /\ new[p] <= tree[m][p] }

(* n's SyncLogic has taken in an update and calls Wrapper with the         *)
(* prefixes it moved forward, OnDataUpdate for each.  The own prefix is    *)
(* not for the application.                                                *)
Wrapper(n) ==
  \E m \in Client \ {n} : \E new \in Updates(n, m) :
    LET missing(p) ==
          IF p # n /\ new[p] # tree[n][p] THEN MissingNumbers(tree[n][p], new[p]) ELSE << >>
    IN /\ logic[n] = "running"
       /\ tree' = [tree EXCEPT ![n] = new]
       /\ reported' = [reported EXCEPT ![n] = [p \in Client |-> @[p] \o missing(p)]]
       /\ asked' = IF RequestData
                   THEN [asked EXCEPT ![n] = [p \in Client |-> @[p] \o missing(p)]]
                   ELSE asked
       /\ UNCHANGED << logic, pos, due, curMsgId, produced >>

Next ==
  \E n \in Client :
    \/ StartApplication(n)
    \/ StopApplication(n)
    \/ SendMessage(n)
    \/ Wrapper(n)

Spec == Init /\ [][Next]_vars

(* The simulator runs what is scheduled, and ChronoSync brings every tree  *)
(* forward as long as another one is ahead.                                *)
FairSpec ==
  /\ Spec
  /\ \A n \in Client :
       WF_vars(StartApplication(n)) /\ WF_vars(SendMessage(n)) /\ WF_vars(Wrapper(n))
-----------------------------------------------------------------------------
(* However the updates arrive, an application reports every number of a    *)
(* sender exactly once and in order, up to the latest it knows of (the     *)
(* range that OnDataUpdate goes through, the sequence of SendMessage).     *)
ReportedInSequence ==
  \A n, p \in Client :
    reported[n][p] = [i \in 1 .. tree[n][p] + 1 |-> i - 1]

(* Nobody knows of a number that was not sent, and a sender knows its own  *)
(* latest one (addLocalNames before m_curMsgId++).                         *)
NeverAhead ==
  \A n, p \in Client : tree[n][p] < curMsgId[p] /\ tree[p][p] = curMsgId[p] - 1

(* Whatever an application asks for by an Interest has been put out under  *)
(* that name before, and in data mode it asks for all that it reports of   *)
(* others (OnDataUpdate, SendMessage).                                     *)
InterestsHaveData ==
  \A n, p \in Client :
    /\ Range(asked[n][p]) \subseteq produced[p]
    /\ RequestData /\ n # p => asked[n][p] = reported[n][p]

(* Every own line that was read has been sent or is scheduled.             *)
NoLineLost ==
  \A n \in Client :
    curMsgId[n] + (IF due[n] = 0 THEN 0 ELSE 1) = Cardinality(OwnLinesUpTo(n, pos[n]))

(* If nobody is stopped, in the end the whole input is sent and everyone   *)
(* has reported all of it (SendMessage, OnDataUpdate).                     *)
EveryoneHears ==
  <>[]((\A n \in Client : logic[n] # "stopped") =>
         \A n, p \in Client :
           Len(reported[n][p]) = Cardinality({ i \in Line : Input[i] = p }))

(* The numbers that the traces fire are those that the observers rely on.  *)
Seen == [n \in Client |-> [p \in Client |->
          IF reported[n][p] = << >> THEN 0
          ELSE reported[n][p][Len(reported[n][p])] + 1]]

Traces == INSTANCE SeqNoTraces WITH App <- Client, latest <- curMsgId, seen <- Seen

(* SyncMuc fires its traces as SeqNoTraces says.                           *)
TracesImplemented == Traces!TracesSpec
=============================================================================
