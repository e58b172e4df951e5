------------------------------ MODULE Knowledge ------------------------------
(***************************************************************************)
(* The observers of a chat: the knowledge maps and the HitMap of           *)
(* heat-map.h and the Validator, and what they print when the simulation   *)
(* is over.  The chat is any that fires its traces as SeqNoTraces says,    *)
(* which StandardMuc and SyncMuc both do; here every firing is a step of   *)
(* its own, and receiving several messages at once is several steps.       *)
(***************************************************************************)
EXTENDS SeqNoTraces, Sequences, FiniteSets, FiniteSetsExt, Functions, SequencesExt

CONSTANTS
  MaxNumber,   \* bound: messages per application
  MaxRounds    \* bound: rounds of HitMap::Periodic

ASSUME KnowledgeAssumption ==
  /\ IsFiniteSet(App)
  /\ MaxNumber \in Nat /\ MaxRounds \in Nat

VARIABLES
  globalKnowledge,  \* GlobalKnowledge[p]
  appKnowledge,     \* AppKnowledge[n][p]
  test,             \* m_test[p] of the Validator of n
  hitMap,           \* m_hitMap[n][p]
  rounds,           \* how often Periodic has run
  current,          \* history variable: in how many rounds n was up to date with p
  fired,            \* history variable: how often SeqNoTrace of n fired for p
  over,             \* has Simulator::Run returned
  heatMapFile,      \* the rows that HitMap::Print wrote
  total             \* total[n]: what the Validator of n printed

observerVars == << globalKnowledge, appKnowledge, test, fired >>
roundVars == << hitMap, rounds, current >>
output == << over, heatMapFile, total >>
vars == << traceVars, observerVars, roundVars, output >>

Init ==
  /\ TracesInit
  /\ globalKnowledge = [p \in App |-> 0]
  /\ appKnowledge = [n \in App |-> [p \in App |-> 0]]
  /\ test = [n \in App |-> [p \in App |-> {}]]
  /\ hitMap = [n \in App |-> [p \in App |-> 0]]
  /\ rounds = 0
  /\ current = [n \in App |-> [p \in App |-> 0]]
  /\ fired = [n \in App |-> [p \in App |-> 0]]
  /\ over = FALSE
  /\ heatMapFile = << >>
  /\ total = [n \in App |-> 0]

(* Mutant: number 0 looks like no number.                                  *)
OnNewSeqNo_NoPlusOne(knowledge, p, seqNo) == [knowledge EXCEPT ![p] = seqNo]

(* A knowledge map keeps the last number plus one; 0 means none.           *)
OnNewSeqNo(knowledge, p, seqNo) == [knowledge EXCEPT ![p] = seqNo + 1]

(* The Validator of n collects the number.                                 *)
Collect(n, p, seqNo) == test' = [test EXCEPT ![n][p] = @ \union {seqNo}]

(* SeqNoTrace of n fires: its knowledge map and its Validator are called.  *)
SeqNoTrace(n, p, seqNo) ==
  /\ appKnowledge' = [appKnowledge EXCEPT ![n] = OnNewSeqNo(@, p, seqNo)]
  /\ Collect(n, p, seqNo)
  /\ fired' = [fired EXCEPT ![n][p] = @ + 1]

(* SendMessage of either application fires both traces.                    *)
MessageSent(p) ==
  /\ ~ over /\ latest[p] < MaxNumber
  /\ Generate(p)
  /\ SeqNoTrace(p, p, latest[p])
  /\ globalKnowledge' = OnNewSeqNo(globalKnowledge, p, latest[p])
  /\ UNCHANGED << roundVars, output >>

(* Mutant: an application is told again of what it knows.                  *)
MessageReceived_Again(n, p, seqNo) ==
  /\ ~ over /\ n # p
  /\ seen[n][p] <= seqNo + 1 /\ seqNo < latest[p]
  /\ seen' = [seen EXCEPT ![n][p] = seqNo + 1]
  /\ SeqNoTrace(n, p, seqNo)
  /\ UNCHANGED << latest, globalKnowledge, roundVars, output >>

(* An application is told of message seqNo of another one; it may have     *)
(* missed some before.                                                     *)
MessageReceived(n, p, seqNo) ==
  /\ ~ over /\ n # p
  /\ seen[n][p] <= seqNo /\ seqNo < latest[p]
  /\ seen' = [seen EXCEPT ![n][p] = seqNo + 1]
  /\ SeqNoTrace(n, p, seqNo)
  /\ UNCHANGED << latest, globalKnowledge, roundVars, output >>

(* The test of HitMap::Periodic.                                           *)
Counts(n, p) ==
  LET stored == globalKnowledge[p]
      check == IF stored > 0 THEN stored - 1 ELSE stored
  IN  appKnowledge[n][p] >= check

UpToDate(n, p) == seen[n][p] = latest[p]

(* HitMap::Periodic runs over all pairs and schedules itself again.        *)
Periodic ==
  /\ ~ over /\ rounds < MaxRounds
  /\ rounds' = rounds + 1
  /\ hitMap' = [n \in App |-> [p \in App |->
                  hitMap[n][p] + IF Counts(n, p) THEN 1 ELSE 0]]
  /\ current' = [n \in App |-> [p \in App |->
                   current[n][p] + IF UpToDate(n, p) THEN 1 ELSE 0]]
  /\ UNCHANGED << traceVars, observerVars, output >>

-----------------------------------------------------------------------------
(* The end of main.                                                        *)

RowOf(n, p) == [node1 |-> n, node2 |-> p, count |-> hitMap[n][p]]

(* Mutant: an entry is made at the first hit and counted from the second.  *)
Printed_Repeated == { pair \in App \X App : hitMap[pair[1]][pair[2]] > 1 }

(* A pair has an entry in m_hitMap once it was hit.                        *)
Printed == { pair \in App \X App : hitMap[pair[1]][pair[2]] > 0 }

(* HitMap::Print appends a row for every entry, in the order of the names, *)
(* which is any order here.                                                *)
PrintHeatMap == heatMapFile' = SetToSeq({ RowOf(pair[1], pair[2]) : pair \in Printed })

(* Simulator::Run returns, the hit map is printed, the Validators go with  *)
(* the list that holds them and print how many numbers they have.          *)
Finish ==
  /\ ~ over
  /\ over' = TRUE
  /\ PrintHeatMap
  /\ total' = [n \in App |-> SumFunction([p \in App |-> Cardinality(test[n][p])])]
  /\ UNCHANGED << traceVars, observerVars, roundVars >>

Next ==
  \/ \E p \in App : MessageSent(p)
  \/ \E n, p \in App : \E seqNo \in 0 .. MaxNumber - 1 : MessageReceived(n, p, seqNo)
  \/ Periodic
  \/ Finish

Spec == Init /\ [][Next]_vars
-----------------------------------------------------------------------------
(* The two observers of an application agree: the map holds the highest    *)
(* number that the Validator has collected, although it only overwrites    *)
(* (CurrentAppKnowledge::OnNewSeqNo, Validator::OnNewSeqNo).               *)
ObserversAgree ==
  \A n, p \in App :
    /\ appKnowledge[n][p] = IF test[n][p] = {} THEN 0 ELSE Max(test[n][p]) + 1
    /\ appKnowledge[n][p] <= globalKnowledge[p]

(* figure-13 counts the rows of two nodes whose Count is large enough and  *)
(* divides by the number of pairs, so a pair without a row counts as never *)
(* up to date: whatever the threshold, no pair that was up to date as      *)
(* often is left out, and none is counted twice (HitMap::Periodic, Print). *)
(* A node always knows its own latest message (SendMessage fires both      *)
(* traces), so it has a row with itself that counts every round.           *)
NoPairLeftOut ==
  over => \A n, p \in App : \A threshold \in 1 .. MaxRounds :
            current[n][p] >= threshold =>
              Cardinality({ i \in DOMAIN heatMapFile :
                 /\ heatMapFile[i].node1 = n /\ heatMapFile[i].node2 = p
                 /\ heatMapFile[i].count >= threshold }) = 1

(* The total that the Validator of a node prints is the number of messages *)
(* reported to the node, although it collects numbers in sets, and it is   *)
(* the number of all messages exactly if the node was told of every one    *)
(* (Validator).                                                            *)
TotalsAreReports ==
  over => \A n \in App :
    /\ total[n] = SumFunction(fired[n])
    /\ (total[n] = SumFunction(latest))
         <=> (\A p \in App : test[n][p] = 0 .. latest[p] - 1)

(* A hit means that the node knew the other one's current state.           *)
HitMeansCurrent == \A n, p \in App : hitMap[n][p] <= current[n][p]
=============================================================================
