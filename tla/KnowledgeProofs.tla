--------------------------- MODULE KnowledgeProofs ---------------------------
(***************************************************************************)
(* The observers agree with each other and with what the applications were *)
(* told, and the hit map leaves no pair out, for any number of             *)
(* applications, messages and rounds.                                      *)
(*                                                                         *)
(* The invariant says what the maps hold: the last number that was         *)
(* reported, plus one.  From this it follows that a node that is up to     *)
(* date is counted by HitMap::Periodic in each round, and that a number is *)
(* never reported twice, so that collecting them in a set loses none.  A   *)
(* set of numbers below the last one is complete exactly if it has as many *)
(* elements, and sums of such counts agree only if all the counts do.      *)
(***************************************************************************)
EXTENDS Knowledge, SequenceLemmas

Table(S) == [App -> [App -> S]]

TypeOK ==
  /\ latest \in [App -> Nat] /\ globalKnowledge \in [App -> Nat]
  /\ seen \in Table(Nat) /\ appKnowledge \in Table(Nat)
  /\ test \in Table(SUBSET Nat) /\ fired \in Table(Nat)
  /\ hitMap \in Table(Nat) /\ current \in Table(Nat)
  /\ over \in BOOLEAN

(* The maps hold the last number, and the Validators what came before it.  *)
MapInv ==
  /\ globalKnowledge = latest
  /\ appKnowledge = seen
  /\ \A n, p \in App :
       /\ seen[n][p] <= latest[p]
       /\ test[n][p] \subseteq 0 .. seen[n][p] - 1
       /\ seen[n][p] > 0 => seen[n][p] - 1 \in test[n][p]

(* Every number is reported once.                                          *)
ReportInv ==
  \A n, p \in App : IsFiniteSet(test[n][p]) /\ Cardinality(test[n][p]) = fired[n][p]

(* No round in which a node is up to date goes uncounted.                  *)
HitInv == \A n, p \in App : current[n][p] <= hitMap[n][p]

(* The file has one row for each pair that was hit, and no other row.      *)
FileInv ==
  over =>
    /\ \A i \in DOMAIN heatMapFile :
         \E pair \in Printed : heatMapFile[i] = RowOf(pair[1], pair[2])
    /\ \A pair \in Printed :
         \E i \in DOMAIN heatMapFile : heatMapFile[i] = RowOf(pair[1], pair[2])
    /\ \A i, j \in DOMAIN heatMapFile : heatMapFile[i] = heatMapFile[j] => i = j

KnowledgeInv == TypeOK /\ MapInv /\ ReportInv /\ HitInv /\ FileInv
-----------------------------------------------------------------------------
LEMMA InitHolds == Init => KnowledgeInv
<1> SUFFICES ASSUME Init PROVE KnowledgeInv
  OBVIOUS
<1> USE DEF Init, TracesInit
<1>1. TypeOK
  BY DEF TypeOK, Table
<1>2. MapInv
  BY DEF MapInv
<1>3. ReportInv
  BY FS_EmptySet DEF ReportInv
<1>4. HitInv /\ FileInv
  BY DEF HitInv, FileInv
<1>5. QED
  BY <1>1, <1>2, <1>3, <1>4 DEF KnowledgeInv

(* What a report does to the observers of n: it is a new number.           *)
LEMMA ReportStep ==
  ASSUME TypeOK, MapInv, ReportInv, NEW n \in App, NEW p \in App, NEW seqNo \in Nat,
         seen[n][p] <= seqNo, SeqNoTrace(n, p, seqNo),
         seen' = [seen EXCEPT ![n][p] = seqNo + 1]
  PROVE  /\ seen' \in Table(Nat) /\ appKnowledge' \in Table(Nat)
         /\ test' \in Table(SUBSET Nat) /\ fired' \in Table(Nat)
         /\ appKnowledge' = seen'
         /\ ReportInv'
<1>1. /\ appKnowledge' = [appKnowledge EXCEPT ![n] = [@ EXCEPT ![p] = seqNo + 1]]
      /\ test' = [test EXCEPT ![n][p] = @ \union {seqNo}]
      /\ fired' = [fired EXCEPT ![n][p] = @ + 1]
  BY DEF SeqNoTrace, Collect, OnNewSeqNo
<1>2. /\ seen' \in Table(Nat) /\ appKnowledge' \in Table(Nat)
      /\ test' \in Table(SUBSET Nat) /\ fired' \in Table(Nat)
  BY <1>1 DEF TypeOK, Table
<1>3. appKnowledge' = seen'
  BY <1>1 DEF TypeOK, Table, MapInv
<1>4. \A m, r \in App :
        \/ /\ m = n /\ r = p
           /\ test'[m][r] = test[m][r] \union {seqNo} /\ fired'[m][r] = fired[m][r] + 1
        \/ test'[m][r] = test[m][r] /\ fired'[m][r] = fired[m][r]
  BY <1>1 DEF TypeOK, Table
<1>5. ReportInv'
  <2>1. seqNo \notin test[n][p]
    <3>1. test[n][p] \subseteq 0 .. seen[n][p] - 1 /\ seen[n][p] \in Nat
      BY DEF MapInv, TypeOK, Table
    <3>2. QED
      BY <3>1
  <2>2. IsFiniteSet(test[n][p]) /\ Cardinality(test[n][p]) = fired[n][p]
    BY DEF ReportInv
  <2>3. /\ IsFiniteSet(test[n][p] \union {seqNo})
        /\ Cardinality(test[n][p] \union {seqNo}) = fired[n][p] + 1
    BY <2>1, <2>2, FS_AddElement
  <2>4. ASSUME NEW m \in App, NEW r \in App
        PROVE  IsFiniteSet(test'[m][r]) /\ Cardinality(test'[m][r]) = fired'[m][r]
    <3>1. IsFiniteSet(test[m][r]) /\ Cardinality(test[m][r]) = fired[m][r]
      BY DEF ReportInv
    <3>2. CASE /\ m = n /\ r = p
               /\ test'[m][r] = test[m][r] \union {seqNo} /\ fired'[m][r] = fired[m][r] + 1
      BY <2>3, <3>2
    <3>3. CASE test'[m][r] = test[m][r] /\ fired'[m][r] = fired[m][r]
      BY <3>1, <3>3
    <3>4. QED
      BY <1>4, <3>2, <3>3
  <2>5. QED
    BY <2>4 DEF ReportInv
<1>6. QED
  BY <1>2, <1>3, <1>5

LEMMA SentStep ==
  ASSUME KnowledgeInv, NEW p \in App, MessageSent(p)
  PROVE  KnowledgeInv'
<1>1. /\ TypeOK /\ MapInv /\ ReportInv /\ HitInv
      /\ latest' = [latest EXCEPT ![p] = @ + 1]
      /\ seen' = [seen EXCEPT ![p][p] = latest[p] + 1]
      /\ SeqNoTrace(p, p, latest[p])
      /\ globalKnowledge' = [globalKnowledge EXCEPT ![p] = latest[p] + 1]
      /\ ~over /\ UNCHANGED << hitMap, current, over >>
  BY DEF KnowledgeInv, MessageSent, Generate, OnNewSeqNo, roundVars, output
<1>2. /\ latest[p] \in Nat /\ seen[p][p] <= latest[p]
      /\ latest \in [App -> Nat] /\ seen \in Table(Nat) /\ globalKnowledge = latest
  BY <1>1 DEF TypeOK, MapInv
<1>3. /\ seen' \in Table(Nat) /\ appKnowledge' \in Table(Nat)
      /\ test' \in Table(SUBSET Nat) /\ fired' \in Table(Nat)
      /\ appKnowledge' = seen'
      /\ ReportInv'
  BY <1>1, <1>2, ReportStep
<1>4. \A m, r \in App :
        \/ m = p /\ r = p /\ seen'[m][r] = latest[p] + 1 /\ test'[m][r] = test[m][r] \union {latest[p]}
        \/ seen'[m][r] = seen[m][r] /\ test'[m][r] = test[m][r]
  BY <1>1 DEF SeqNoTrace, Collect, TypeOK, Table
<1>5. globalKnowledge' = latest' /\ latest' \in [App -> Nat]
      /\ \A r \in App : latest[r] <= latest'[r] /\ latest'[p] = latest[p] + 1
  BY <1>1, <1>2
<1>6. TypeOK'
  BY <1>1, <1>3, <1>5 DEF TypeOK
<1>7. MapInv'
  <2>1. ASSUME NEW m \in App, NEW r \in App
        PROVE  /\ seen'[m][r] <= latest'[r]
               /\ test'[m][r] \subseteq 0 .. seen'[m][r] - 1
               /\ seen'[m][r] > 0 => seen'[m][r] - 1 \in test'[m][r]
    <3>1. /\ seen[m][r] <= latest[r] /\ test[m][r] \subseteq 0 .. seen[m][r] - 1
          /\ seen[m][r] > 0 => seen[m][r] - 1 \in test[m][r]
          /\ seen[m][r] \in Nat /\ latest[r] \in Nat /\ latest'[r] \in Nat
      BY <1>1, <1>2, <1>5 DEF MapInv, Table
    <3>2. CASE m = p /\ r = p /\ seen'[m][r] = latest[p] + 1 /\ test'[m][r] = test[m][r] \union {latest[p]}
      BY <1>2, <1>5, <3>1, <3>2
    <3>3. CASE seen'[m][r] = seen[m][r] /\ test'[m][r] = test[m][r]
      BY <1>5, <3>1, <3>3
    <3>4. QED
      BY <1>4, <3>2, <3>3
  <2>2. QED
    BY <1>3, <1>5, <2>1 DEF MapInv
<1>8. HitInv' /\ FileInv'
  BY <1>1 DEF HitInv, FileInv
<1>9. QED
  BY <1>3, <1>6, <1>7, <1>8 DEF KnowledgeInv

LEMMA ReceivedStep ==
  ASSUME KnowledgeInv, NEW n \in App, NEW p \in App, NEW seqNo \in 0 .. MaxNumber - 1,
         MessageReceived(n, p, seqNo)
  PROVE  KnowledgeInv'
<1>1. /\ TypeOK /\ MapInv /\ ReportInv /\ HitInv /\ seqNo \in Nat
      /\ seen[n][p] <= seqNo /\ seqNo < latest[p]
      /\ seen' = [seen EXCEPT ![n][p] = seqNo + 1]
      /\ SeqNoTrace(n, p, seqNo)
      /\ ~over /\ UNCHANGED << latest, globalKnowledge, hitMap, current, over >>
  BY KnowledgeAssumption DEF KnowledgeInv, MessageReceived, roundVars, output
<1>2. latest \in [App -> Nat] /\ seen \in Table(Nat) /\ globalKnowledge = latest
  BY <1>1 DEF TypeOK, MapInv
<1>3. /\ seen' \in Table(Nat) /\ appKnowledge' \in Table(Nat)
      /\ test' \in Table(SUBSET Nat) /\ fired' \in Table(Nat)
      /\ appKnowledge' = seen'
      /\ ReportInv'
  BY <1>1, ReportStep
<1>4. \A m, r \in App :
        \/ m = n /\ r = p /\ seen'[m][r] = seqNo + 1 /\ test'[m][r] = test[m][r] \union {seqNo}
        \/ seen'[m][r] = seen[m][r] /\ test'[m][r] = test[m][r]
  BY <1>1 DEF SeqNoTrace, Collect, TypeOK, Table
<1>5. TypeOK'
  BY <1>1, <1>3 DEF TypeOK
<1>6. MapInv'
  <2>1. ASSUME NEW m \in App, NEW r \in App
        PROVE  /\ seen'[m][r] <= latest[r]
               /\ test'[m][r] \subseteq 0 .. seen'[m][r] - 1
               /\ seen'[m][r] > 0 => seen'[m][r] - 1 \in test'[m][r]
    <3>1. /\ seen[m][r] <= latest[r] /\ test[m][r] \subseteq 0 .. seen[m][r] - 1
          /\ seen[m][r] > 0 => seen[m][r] - 1 \in test[m][r]
          /\ seen[m][r] \in Nat /\ latest[r] \in Nat
      BY <1>1, <1>2 DEF MapInv, Table
    <3>2. CASE m = n /\ r = p /\ seen'[m][r] = seqNo + 1 /\ test'[m][r] = test[m][r] \union {seqNo}
      BY <1>1, <3>1, <3>2
    <3>3. CASE seen'[m][r] = seen[m][r] /\ test'[m][r] = test[m][r]
      BY <3>1, <3>3
    <3>4. QED
      BY <1>4, <3>2, <3>3
  <2>2. QED
    BY <1>1, <1>2, <1>3, <2>1 DEF MapInv
<1>7. HitInv' /\ FileInv'
  BY <1>1 DEF HitInv, FileInv
<1>8. QED
  BY <1>3, <1>5, <1>6, <1>7 DEF KnowledgeInv

(* A node that is up to date passes the test of HitMap::Periodic.          *)
LEMMA CurrentCounts ==
  ASSUME TypeOK, MapInv, NEW n \in App, NEW p \in App, UpToDate(n, p)
  PROVE  Counts(n, p)
<1>1. /\ latest[p] \in Nat /\ globalKnowledge[p] = latest[p] /\ appKnowledge[n][p] = latest[p]
  BY DEF TypeOK, MapInv, UpToDate
<1>2. QED
  BY <1>1 DEF Counts

LEMMA PeriodicStep ==
  ASSUME KnowledgeInv, Periodic
  PROVE  KnowledgeInv'
<1>1. /\ TypeOK /\ MapInv /\ ReportInv /\ HitInv
      /\ hitMap' = [n \in App |-> [p \in App |-> hitMap[n][p] + IF Counts(n, p) THEN 1 ELSE 0]]
      /\ current' = [n \in App |-> [p \in App |-> current[n][p] + IF UpToDate(n, p) THEN 1 ELSE 0]]
      /\ ~over
      /\ UNCHANGED << latest, seen, globalKnowledge, appKnowledge, test, fired, over >>
  BY DEF KnowledgeInv, Periodic, traceVars, observerVars, output
<1>2. hitMap' \in Table(Nat) /\ current' \in Table(Nat)
  BY <1>1 DEF TypeOK, Table
<1>3. TypeOK' /\ MapInv' /\ ReportInv' /\ FileInv'
  BY <1>1, <1>2 DEF TypeOK, MapInv, ReportInv, FileInv
<1>4. ASSUME NEW n \in App, NEW p \in App
      PROVE  current'[n][p] <= hitMap'[n][p]
  <2>1. UpToDate(n, p) => Counts(n, p)
    BY <1>1, CurrentCounts
  <2>2. current[n][p] \in Nat /\ hitMap[n][p] \in Nat /\ current[n][p] <= hitMap[n][p]
    BY <1>1 DEF TypeOK, Table, HitInv
  <2>3. /\ hitMap'[n][p] = hitMap[n][p] + IF Counts(n, p) THEN 1 ELSE 0
        /\ current'[n][p] = current[n][p] + IF UpToDate(n, p) THEN 1 ELSE 0
    BY <1>1
  <2>4. QED
    BY <2>1, <2>2, <2>3
<1>5. QED
  BY <1>3, <1>4 DEF KnowledgeInv, HitInv

LEMMA FinishStep ==
  ASSUME KnowledgeInv, Finish
  PROVE  KnowledgeInv'
<1> DEFINE table == { RowOf(pair[1], pair[2]) : pair \in Printed }
<1>1. /\ TypeOK /\ MapInv /\ ReportInv /\ HitInv
      /\ heatMapFile' = SetToSeq(table) /\ over' = TRUE
      /\ UNCHANGED << latest, seen, globalKnowledge, appKnowledge, test, fired, hitMap, current >>
  BY DEF KnowledgeInv, Finish, PrintHeatMap, traceVars, observerVars, roundVars
<1>2. IsFiniteSet(table)
  <2>1. IsFiniteSet(App \X App)
    BY KnowledgeAssumption, FS_Product
  <2>2. Printed \in SUBSET (App \X App)
    BY DEF Printed
  <2>3. IsFiniteSet(Printed)
    BY <2>1, <2>2, FS_Subset
  <2> DEFINE rowAt == [pair \in Printed |-> RowOf(pair[1], pair[2])]
  <2>4. rowAt \in Surjection(Printed, table)
    BY DEF Surjection
  <2>5. QED
    BY <2>3, <2>4, FS_Surjection
<1>3. /\ \A i \in DOMAIN heatMapFile' : heatMapFile'[i] \in table
      /\ \A x \in table : \E i \in DOMAIN heatMapFile' : heatMapFile'[i] = x
      /\ \A i, j \in DOMAIN heatMapFile' : heatMapFile'[i] = heatMapFile'[j] => i = j
  BY <1>1, <1>2, SetToSeqElements
<1>4. Printed' = Printed /\ \A n, p \in App : RowOf(n, p)' = RowOf(n, p)
  BY <1>1 DEF Printed, RowOf
<1>5. FileInv'
  <2>1. \A pair \in Printed : pair[1] \in App /\ pair[2] \in App
    BY DEF Printed
  <2>2. \A pair \in Printed : RowOf(pair[1], pair[2])' = RowOf(pair[1], pair[2])
    BY <1>4, <2>1
  <2>3. \A i \in DOMAIN heatMapFile' :
          \E pair \in Printed : heatMapFile'[i] = RowOf(pair[1], pair[2])
    BY <1>3
  <2>4. \A pair \in Printed :
          \E i \in DOMAIN heatMapFile' : heatMapFile'[i] = RowOf(pair[1], pair[2])
    <3>1. \A pair \in Printed : RowOf(pair[1], pair[2]) \in table
      OBVIOUS
    <3> HIDE DEF table
    <3>2. QED
      BY <1>3, <3>1
  <2> HIDE DEF table
  <2>5. QED
    BY <1>3, <1>4, <2>2, <2>3, <2>4 DEF FileInv
<1>6. TypeOK' /\ MapInv' /\ ReportInv' /\ HitInv'
  BY <1>1 DEF TypeOK, MapInv, ReportInv, HitInv
<1>7. QED
  BY <1>5, <1>6 DEF KnowledgeInv

LEMMA NextHolds == KnowledgeInv /\ [Next]_vars => KnowledgeInv'
<1>1. KnowledgeInv /\ UNCHANGED vars => KnowledgeInv'
  BY DEF vars, traceVars, observerVars, roundVars, output, KnowledgeInv, TypeOK, MapInv,
         ReportInv, HitInv, FileInv, Printed, RowOf
<1>2. KnowledgeInv /\ Next => KnowledgeInv'
  BY SentStep, ReceivedStep, PeriodicStep, FinishStep DEF Next
<1>3. QED
  BY <1>1, <1>2

THEOREM KnowledgeInvariant == Spec => []KnowledgeInv
  BY InitHolds, NextHolds, PTL DEF Spec
-----------------------------------------------------------------------------
(* The map of an application, which is overwritten, and its Validator,     *)
(* which collects, agree on the highest number, and no application knows   *)
(* more than was sent (OnNewSeqNo of CurrentAppKnowledge, Validator and    *)
(* CurrentGlobalKnowledge).                                                *)
THEOREM MapsAgree == Spec => []ObserversAgree
<1>1. KnowledgeInv => ObserversAgree
  <2> SUFFICES ASSUME KnowledgeInv, NEW n \in App, NEW p \in App
               PROVE  /\ appKnowledge[n][p] =
                           IF test[n][p] = {} THEN 0 ELSE Max(test[n][p]) + 1
                      /\ appKnowledge[n][p] <= globalKnowledge[p]
    BY DEF ObserversAgree
  <2>1. /\ appKnowledge[n][p] = seen[n][p] /\ globalKnowledge[p] = latest[p]
        /\ seen[n][p] \in Nat /\ seen[n][p] <= latest[p]
        /\ test[n][p] \subseteq 0 .. seen[n][p] - 1
        /\ seen[n][p] > 0 => seen[n][p] - 1 \in test[n][p]
    BY DEF KnowledgeInv, TypeOK, Table, MapInv
  <2>2. CASE test[n][p] = {}
    BY <2>1, <2>2
  <2>3. CASE test[n][p] # {}
    <3>1. seen[n][p] - 1 \in test[n][p] /\ \A x \in test[n][p] : x \in Nat /\ seen[n][p] - 1 >= x
      BY <2>1, <2>3
    <3>2. \A y \in test[n][p] : (\A x \in test[n][p] : y >= x) => y = seen[n][p] - 1
      BY <2>1, <3>1
    <3>3. Max(test[n][p]) = seen[n][p] - 1
      BY <3>1, <3>2 DEF Max
    <3>4. QED
      BY <2>1, <2>3, <3>3
  <2>4. QED
    BY <2>2, <2>3
<1>2. QED
  BY <1>1, KnowledgeInvariant, PTL

(* Each pair that was up to date has one row, and the row counts at least  *)
(* the rounds in which it was (HitMap::Periodic, HitMap::Print).           *)
THEOREM EveryPairHasItsRow == Spec => []NoPairLeftOut
<1>1. KnowledgeInv => NoPairLeftOut
  <2> SUFFICES ASSUME KnowledgeInv, over, NEW n \in App, NEW p \in App,
                      NEW threshold \in 1 .. MaxRounds, current[n][p] >= threshold
               PROVE  Cardinality({ i \in DOMAIN heatMapFile :
                         /\ heatMapFile[i].node1 = n /\ heatMapFile[i].node2 = p
                         /\ heatMapFile[i].count >= threshold }) = 1
    BY DEF NoPairLeftOut
  <2> DEFINE mine == { i \in DOMAIN heatMapFile :
                         /\ heatMapFile[i].node1 = n /\ heatMapFile[i].node2 = p
                         /\ heatMapFile[i].count >= threshold }
  <2>1. hitMap[n][p] >= threshold /\ hitMap[n][p] > 0
    BY KnowledgeAssumption DEF KnowledgeInv, TypeOK, Table, HitInv
  <2>2. << n, p >> \in Printed
    BY <2>1 DEF Printed
  <2>3. PICK i \in DOMAIN heatMapFile : heatMapFile[i] = RowOf(n, p)
    <3>1. \A pair \in Printed :
            \E i \in DOMAIN heatMapFile : heatMapFile[i] = RowOf(pair[1], pair[2])
      BY DEF KnowledgeInv, FileInv
    <3>2. QED
      BY <2>2, <3>1
  <2>4. i \in mine
    BY <2>1, <2>3 DEF RowOf
  <2>5. ASSUME NEW j \in mine
        PROVE  j = i
    <3>1. PICK pair \in Printed : heatMapFile[j] = RowOf(pair[1], pair[2])
      BY DEF KnowledgeInv, FileInv
    <3>2. pair[1] = n /\ pair[2] = p
      BY <3>1 DEF RowOf
    <3>3. heatMapFile[j] = heatMapFile[i]
      BY <2>3, <3>1, <3>2
    <3>4. QED
      BY <3>3 DEF KnowledgeInv, FileInv
  <2>6. mine = {i}
    BY <2>4, <2>5
  <2>7. QED
    BY <2>6, FS_Singleton
<1>2. QED
  BY <1>1, KnowledgeInvariant, PTL

(* The Validator collects numbers in a set and yet misses no report: as    *)
(* many numbers as SeqNoTrace fired (Validator::OnNewSeqNo).               *)
THEOREM NoReportIsRepeated ==
  Spec => [](\A n, p \in App : Cardinality(test[n][p]) = fired[n][p])
<1>1. KnowledgeInv => \A n, p \in App : Cardinality(test[n][p]) = fired[n][p]
  BY DEF KnowledgeInv, ReportInv
<1>2. QED
  BY <1>1, KnowledgeInvariant, PTL

(* The totals that were printed are those of the sets.                     *)
TotalInv ==
  over => total = [n \in App |-> SumFunction([p \in App |-> Cardinality(test[n][p])])]

LEMMA TotalStep == TotalInv /\ [Next]_vars => TotalInv'
<1> SUFFICES ASSUME TotalInv, [Next]_vars PROVE TotalInv'
  OBVIOUS
<1> USE DEF TotalInv
<1>1. CASE UNCHANGED vars
  BY <1>1 DEF vars, observerVars, output
<1>2. CASE Finish
  BY <1>2 DEF Finish, observerVars
<1>3. ASSUME NEW p \in App, MessageSent(p) PROVE TotalInv'
  BY <1>3 DEF MessageSent, output
<1>4. ASSUME NEW n \in App, NEW p \in App, NEW seqNo \in 0 .. MaxNumber - 1,
             MessageReceived(n, p, seqNo)
      PROVE  TotalInv'
  BY <1>4 DEF MessageReceived, output
<1>5. CASE Periodic
  BY <1>5 DEF Periodic, output
<1>6. QED
  BY <1>1, <1>2, <1>3, <1>4, <1>5 DEF Next

(* The numbers of one sender that a Validator has are all there are        *)
(* exactly if they are as many.                                            *)
LEMMA AllToldOf ==
  ASSUME KnowledgeInv, NEW n \in App, NEW p \in App
  PROVE  /\ fired[n][p] \in Nat /\ latest[p] \in Nat
         /\ fired[n][p] <= latest[p]
         /\ fired[n][p] = latest[p] <=> test[n][p] = 0 .. latest[p] - 1
<1> DEFINE all == 0 .. latest[p] - 1
           collected == test[n][p]
<1>1. fired[n][p] \in Nat /\ latest[p] \in Nat /\ seen[n][p] \in Nat
  BY DEF KnowledgeInv, TypeOK, Table
<1>2. IsFiniteSet(collected) /\ Cardinality(collected) = fired[n][p]
  BY DEF KnowledgeInv, ReportInv
<1>3. collected \in SUBSET all
  <2>1. collected \subseteq 0 .. seen[n][p] - 1 /\ seen[n][p] <= latest[p]
    BY DEF KnowledgeInv, MapInv
  <2>2. QED
    BY <1>1, <2>1
<1>4. IsFiniteSet(all) /\ Cardinality(all) = latest[p]
  <2> DEFINE last == latest[p] - 1
  <2>1. last \in Int /\ (0 > last <=> latest[p] = 0)
    BY <1>1
  <2> HIDE DEF last
  <2>2. IsFiniteSet(0 .. last) /\ Cardinality(0 .. last) = IF 0 > last THEN 0 ELSE last - 0 + 1
    BY <2>1, FS_Interval
  <2>3. QED
    BY <1>1, <2>1, <2>2 DEF last
<1> HIDE DEF all, collected
<1>5. /\ Cardinality(collected) <= Cardinality(all)
      /\ Cardinality(all) = Cardinality(collected) => all = collected
  BY <1>3, <1>4, FS_Subset
<1>6. QED
  BY <1>1, <1>2, <1>4, <1>5 DEF all, collected

(* What the Validator of a node prints is the number of its reports, and   *)
(* it is the number of all messages exactly if the node was told of each   *)
(* (the destructor of Validator).                                          *)
THEOREM TotalsAreCorrect == Spec => []TotalsAreReports
<1>1. ASSUME KnowledgeInv, TotalInv, over, NEW n \in App
      PROVE  /\ total[n] = SumFunction(fired[n])
             /\ (total[n] = SumFunction(latest))
                  <=> (\A p \in App : test[n][p] = 0 .. latest[p] - 1)
  <2>1. /\ fired[n] \in [App -> Nat] /\ latest \in [App -> Nat]
        /\ fired[n] = [p \in App |-> fired[n][p]]
        /\ IsFiniteSet(App)
    BY <1>1, KnowledgeAssumption DEF KnowledgeInv, TypeOK, Table
  <2>2. \A p \in App : Cardinality(test[n][p]) = fired[n][p]
    BY <1>1 DEF KnowledgeInv, ReportInv
  <2>3. [p \in App |-> Cardinality(test[n][p])] = fired[n]
    BY <2>1, <2>2
  <2>4. total[n] = SumFunction(fired[n])
    <3>1. total[n] = SumFunction([p \in App |-> Cardinality(test[n][p])])
      BY <1>1 DEF TotalInv
    <3>2. QED
      BY <2>3, <3>1
  <2>5. \A p \in App : /\ fired[n][p] <= latest[p]
                       /\ fired[n][p] = latest[p] <=> test[n][p] = 0 .. latest[p] - 1
    BY <1>1, AllToldOf
  <2>6. SumFunction(fired[n]) = SumFunction(latest)
          => \A p \in App : fired[n][p] = latest[p]
    <3> DEFINE f == fired[n]
    <3>1. f \in [App -> Nat] /\ \A p \in App : f[p] <= latest[p]
      BY <2>1, <2>5
    <3> HIDE DEF f
    <3>2. SumFunction(f) = SumFunction(latest) => \A p \in App : f[p] = latest[p]
      BY ZenonT(30), <2>1, <3>1, SumMonotone
    <3>3. QED
      BY <3>2 DEF f
  <2>7. (\A p \in App : fired[n][p] = latest[p]) => fired[n] = latest
    BY <2>1
  <2>8. QED
    BY <2>4, <2>5, <2>6, <2>7
<1>2. KnowledgeInv /\ TotalInv => TotalsAreReports
  BY <1>1 DEF TotalsAreReports
<1>3. Init => TotalInv
  BY DEF Init, TotalInv
<1>4. Spec => []TotalInv
  BY <1>3, TotalStep, PTL DEF Spec
<1>5. QED
  BY <1>2, <1>4, KnowledgeInvariant, PTL
=============================================================================
