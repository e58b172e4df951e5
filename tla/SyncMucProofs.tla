---------------------------- MODULE SyncMucProofs ----------------------------
(***************************************************************************)
(* SyncMuc reports every number once and in order, for any number of       *)
(* applications, any input and any loss, delay or repetition of updates,   *)
(* and it fires its traces as SeqNoTraces says.                            *)
(*                                                                         *)
(* The invariant says that the numbers reported are those up to the number *)
(* in the tree (ReportedInSequence), and that no tree is ahead of the      *)
(* sender's own (NeverAhead): that is why an update never moves the own    *)
(* prefix, which the application would not be told of.  Two smaller        *)
(* invariants follow: DataInv about what Interests ask for, LineInv about  *)
(* the lines of the input.                                                 *)
(***************************************************************************)
EXTENDS SyncMuc, SequenceLemmas

SyncInv == TypeOK /\ ReportedInSequence /\ NeverAhead

LEMMA SeqNoIsInt == \A x \in SeqNo : x \in Int /\ x + 1 \in Nat
  BY DEF SeqNo, NoSeq

(* The numbers 0 .. n - 1 in order.                                        *)
Upto(n) == [i \in 1 .. n |-> i - 1]

LEMMA UptoIsSeq ==
  ASSUME NEW n \in Nat
  PROVE  Upto(n) \in Seq(Nat) /\ Len(Upto(n)) = n /\ (n > 0 => Upto(n)[n] = n - 1)
<1>1. Upto(n) \in [1 .. n -> Nat]
  BY DEF Upto
<1>2. Upto(n) \in Seq(Nat)
  BY <1>1
<1>3. DOMAIN Upto(n) = 1 .. n
  BY DEF Upto
<1>4. Len(Upto(n)) = n
  BY <1>2, <1>3
<1>5. n > 0 => Upto(n)[n] = n - 1
  BY DEF Upto
<1>6. QED
  BY <1>2, <1>4, <1>5

LEMMA UptoAppend ==
  ASSUME NEW n \in Nat
  PROVE  Append(Upto(n), n) = Upto(n + 1)
<1>1. Upto(n) \in Seq(Nat) /\ Len(Upto(n)) = n
  BY UptoIsSeq
<1>2. Upto(n + 1) \in Seq(Nat) /\ Len(Upto(n + 1)) = n + 1
  BY UptoIsSeq
<1>3. Append(Upto(n), n) \in Seq(Nat) /\ Len(Append(Upto(n), n)) = n + 1
  BY <1>1
<1>4. \A i \in 1 .. n + 1 : Append(Upto(n), n)[i] = Upto(n + 1)[i]
  BY <1>1 DEF Upto
<1>5. QED
  BY <1>2, <1>3, <1>4

(* What OnDataUpdate reports continues what was reported before.           *)
LEMMA MissingContinues ==
  ASSUME NEW old \in SeqNo, NEW new \in SeqNo, old < new
  PROVE  /\ MissingNumbers(old, new) \in Seq(Nat)
         /\ Upto(old + 1) \o MissingNumbers(old, new) = Upto(new + 1)
<1> DEFINE q == MissingNumbers(old, new)
<1>1. old \in Int /\ new \in Nat /\ old + 1 \in Nat /\ new - old \in Nat
  BY DEF SeqNo, NoSeq
<1>2. q = [i \in 1 .. new - old |-> old + i]
  BY <1>1 DEF MissingNumbers, NoSeq
<1>3. q \in Seq(Nat) /\ Len(q) = new - old
  <2>1. q \in [1 .. new - old -> Nat]
    BY <1>1, <1>2
  <2>2. q \in Seq(Nat)
    BY <1>1, <2>1
  <2>3. QED
    BY <1>1, <2>1, <2>2
<1>4. /\ Upto(old + 1) \in Seq(Nat) /\ Len(Upto(old + 1)) = old + 1
      /\ Upto(new + 1) \in Seq(Nat) /\ Len(Upto(new + 1)) = new + 1
  BY <1>1, UptoIsSeq
<1> HIDE DEF q
<1>5. Upto(old + 1) \o q \in Seq(Nat) /\ Len(Upto(old + 1) \o q) = new + 1
  BY <1>1, <1>3, <1>4
<1>6. \A i \in 1 .. new + 1 :
        (Upto(old + 1) \o q)[i] = IF i <= old + 1 THEN Upto(old + 1)[i] ELSE q[i - (old + 1)]
  <2> DEFINE u == Upto(old + 1)
  <2>1. u \in Seq(Nat) /\ Len(u) = old + 1
    BY <1>4
  <2> HIDE DEF u
  <2>2. \A i \in 1 .. Len(u) + Len(q) :
          (u \o q)[i] = IF i <= Len(u) THEN u[i] ELSE q[i - Len(u)]
    BY <1>3, <2>1, ConcatProperties
  <2>3. Len(u) + Len(q) = new + 1
    BY <1>1, <1>3, <2>1
  <2>4. \A i \in 1 .. new + 1 : (u \o q)[i] = IF i <= old + 1 THEN u[i] ELSE q[i - (old + 1)]
    BY <2>1, <2>2, <2>3
  <2>5. QED
    BY <2>4 DEF u
<1>7. ASSUME NEW i \in 1 .. new + 1
      PROVE  (Upto(old + 1) \o q)[i] = Upto(new + 1)[i]
  <2>0. i \in Int
    OBVIOUS
  <2>1. Upto(new + 1)[i] = i - 1
    BY <1>1 DEF Upto
  <2>2. CASE i <= old + 1
    <3>1. (Upto(old + 1) \o q)[i] = Upto(old + 1)[i]
      BY <1>6, <2>2
    <3>2. QED
      BY <1>1, <2>1, <2>2, <3>1 DEF Upto
  <2>3. CASE i > old + 1
    <3>0. ~ (i <= old + 1)
      BY <1>1, <2>0, <2>3
    <3>1. (Upto(old + 1) \o q)[i] = q[i - (old + 1)]
      BY <1>6, <3>0
    <3>2. i - (old + 1) \in 1 .. new - old
      BY <1>1, <2>3
    <3>3. q[i - (old + 1)] = old + (i - (old + 1))
      BY <1>2, <3>2
    <3>4. old + (i - (old + 1)) = i - 1
      BY <1>1, <2>0
    <3>5. QED
      BY <2>1, <3>1, <3>3, <3>4
  <2>4. i <= old + 1 \/ i > old + 1
    BY <1>1, <2>0
  <2>5. QED
    BY <2>2, <2>3, <2>4, Zenon
<1>8. Upto(old + 1) \o q = Upto(new + 1)
  BY <1>4, <1>5, <1>7, SeqEqual
<1>9. QED
  BY <1>3, <1>8 DEF q
-----------------------------------------------------------------------------
LEMMA InitSyncInv == Init => SyncInv
<1> SUFFICES ASSUME Init PROVE SyncInv
  OBVIOUS
<1>1. << >> \in Seq(Nat) /\ (1 .. NoSeq + 1) = {}
  BY DEF NoSeq
<1>2. TypeOK
  BY <1>1 DEF Init, TypeOK, SeqNo
<1>3. ReportedInSequence
  <2>1. << >> = [i \in 1 .. NoSeq + 1 |-> i - 1]
    BY <1>1
  <2>2. QED
    BY <2>1 DEF Init, ReportedInSequence
<1>4. NeverAhead
  BY DEF Init, NeverAhead, NoSeq
<1>5. QED
  BY <1>2, <1>3, <1>4 DEF SyncInv

LEMMA ScheduleTypes ==
  ASSUME TypeOK, NEW n \in Client, ScheduleNextMessage(n)
  PROVE  pos' \in [Client -> Nat] /\ due' \in [Client -> Line \union {0}]
<1>1. Len(Input) \in Nat /\ Line \subseteq Nat
  BY InputAssumption DEF Line
<1>2. QED
  BY <1>1 DEF TypeOK, ScheduleNextMessage

LEMMA SendKeepsInv ==
  ASSUME SyncInv, NEW n \in Client, SendMessage(n)
  PROVE  SyncInv'
<1>1. TypeOK /\ curMsgId[n] \in Nat /\ tree[n][n] = curMsgId[n] - 1
  BY DEF SyncInv, TypeOK, NeverAhead
<1>2. pos' \in [Client -> Nat] /\ due' \in [Client -> Line \union {0}]
  BY <1>1, ScheduleTypes DEF SendMessage
<1>3. TypeOK'
  <2>1. /\ tree' \in [Client -> [Client -> SeqNo]]
        /\ curMsgId' \in [Client -> Nat]
    BY <1>1 DEF TypeOK, SendMessage, SeqNo
  <2>2. reported' \in [Client -> [Client -> Seq(Nat)]]
    <3>1. Append(reported[n][n], curMsgId[n]) \in Seq(Nat)
      BY <1>1 DEF TypeOK
    <3>2. QED
      BY <1>1, <3>1 DEF TypeOK, SendMessage
  <2>3. produced' \in [Client -> SUBSET Nat]
    BY <1>1 DEF TypeOK, SendMessage
  <2>4. QED
    BY <1>1, <1>2, <2>1, <2>2, <2>3 DEF TypeOK, SendMessage
<1>4. ReportedInSequence'
  <2>1. ASSUME NEW m \in Client, NEW p \in Client
        PROVE  reported'[m][p] = Upto(tree'[m][p] + 1)
    <3>1. reported[m][p] = Upto(tree[m][p] + 1)
      BY DEF SyncInv, ReportedInSequence, Upto
    <3>2. CASE m = n /\ p = n
      <4>1. reported'[n][n] = Append(reported[n][n], curMsgId[n])
        BY <1>1 DEF TypeOK, SendMessage
      <4>2. tree'[n][n] = curMsgId[n]
        BY <1>1 DEF TypeOK, SendMessage
      <4>3. reported[n][n] = Upto(curMsgId[n])
        BY <1>1, <3>1, <3>2
      <4>4. QED
        BY <1>1, <3>2, <4>1, <4>2, <4>3, UptoAppend
    <3>3. CASE ~(m = n /\ p = n)
      <4>1. reported'[m][p] = reported[m][p] /\ tree'[m][p] = tree[m][p]
        BY <1>1, <3>3 DEF TypeOK, SendMessage
      <4>2. QED
        BY <3>1, <4>1
    <3>4. QED
      BY <3>2, <3>3
  <2>2. QED
    BY <2>1 DEF ReportedInSequence, Upto
<1>5. NeverAhead'
  <2>1. /\ \A m, p \in Client : tree[m][p] \in Int
        /\ curMsgId' = [curMsgId EXCEPT ![n] = @ + 1]
        /\ tree' = [tree EXCEPT ![n][n] = curMsgId[n]]
        /\ curMsgId \in [Client -> Nat] /\ tree \in [Client -> [Client -> SeqNo]]
    <3>1. tree \in [Client -> [Client -> SeqNo]]
      BY <1>1 DEF TypeOK
    <3>2. \A m, p \in Client : tree[m][p] \in SeqNo
      BY <3>1
    <3>3. QED
      BY <1>1, <3>1, <3>2, SeqNoIsInt DEF TypeOK, SendMessage
  <2>2. QED
    BY <2>1 DEF SyncInv, NeverAhead
<1>6. QED
  BY <1>3, <1>4, <1>5 DEF SyncInv

(* What a callback of n's SyncLogic does.                                  *)
LEMMA WrapperInFull ==
  ASSUME SyncInv, NEW n \in Client, Wrapper(n)
  PROVE  /\ TypeOK'
         /\ \A m, p \in Client : m # n =>
              tree'[m][p] = tree[m][p] /\ reported'[m][p] = reported[m][p]
         /\ \A p \in Client :
              /\ tree[n][p] <= tree'[n][p]
              /\ tree'[n][p] < curMsgId[p]
              /\ reported'[n][p] = Upto(tree'[n][p] + 1)
         /\ tree'[n][n] = tree[n][n]
         /\ UNCHANGED << logic, pos, due, curMsgId, produced >>
         /\ \E missing \in [Client -> Seq(Nat)] :
              /\ missing[n] = << >>
              /\ reported' = [reported EXCEPT ![n] = [p \in Client |-> @[p] \o missing[p]]]
              /\ asked' = IF RequestData
                          THEN [asked EXCEPT ![n] = [p \in Client |-> @[p] \o missing[p]]]
                          ELSE asked
<1> DEFINE Missing(new, p) ==
             IF p # n /\ new[p] # tree[n][p]
             THEN MissingNumbers(tree[n][p], new[p]) ELSE << >>
<1>1. PICK m \in Client \ {n} : \E new \in Updates(n, m) :
        /\ tree' = [tree EXCEPT ![n] = new]
        /\ reported' = [reported EXCEPT ![n] = [p \in Client |-> @[p] \o Missing(new, p)]]
        /\ asked' = IF RequestData
                    THEN [asked EXCEPT ![n] = [p \in Client |-> @[p] \o Missing(new, p)]]
                    ELSE asked
        /\ UNCHANGED << logic, pos, due, curMsgId, produced >>
  BY DEF Wrapper
<1>2. PICK new \in Updates(n, m) :
        /\ tree' = [tree EXCEPT ![n] = new]
        /\ reported' = [reported EXCEPT ![n] = [p \in Client |-> @[p] \o Missing(new, p)]]
        /\ asked' = IF RequestData
                    THEN [asked EXCEPT ![n] = [p \in Client |-> @[p] \o Missing(new, p)]]
                    ELSE asked
        /\ UNCHANGED << logic, pos, due, curMsgId, produced >>
  BY <1>1
<1>3. /\ TypeOK
      /\ tree \in [Client -> [Client -> SeqNo]]
      /\ reported \in [Client -> [Client -> Seq(Nat)]]
      /\ asked \in [Client -> [Client -> Seq(Nat)]]
      /\ curMsgId \in [Client -> Nat]
      /\ SeqNo \subseteq Int
  BY SMTT(30) DEF SyncInv, TypeOK, SeqNo, NoSeq
<1>4. new \in [Client -> SeqNo]
  <2>1. Len(Input) \in Nat
    BY InputAssumption
  <2>2. (NoSeq .. Len(Input)) \subseteq SeqNo
    BY <2>1 DEF SeqNo, NoSeq
  <2>3. new \in [Client -> Known(n, m)] /\ Known(n, m) \subseteq NoSeq .. Len(Input)
    BY DEF Updates, Known
  <2>4. QED
    BY <2>2, <2>3
<1>5. \A p \in Client : \/ new[p] = tree[n][p]
                        \/ tree[n][p] < new[p] /\ new[p] <= tree[m][p]
  BY DEF Updates
<1>6. \A p \in Client : /\ tree[n][p] <= new[p]
                        /\ new[p] < curMsgId[p]
  <2>1. ASSUME NEW p \in Client
        PROVE  tree[n][p] <= new[p] /\ new[p] < curMsgId[p]
    <3>1. tree[n][p] \in Int /\ new[p] \in Int /\ tree[m][p] \in Int /\ curMsgId[p] \in Int
      <4>1. tree[n][p] \in SeqNo /\ new[p] \in SeqNo /\ tree[m][p] \in SeqNo
        BY <1>3, <1>4
      <4>2. curMsgId[p] \in Nat
        BY <1>3
      <4>3. QED
        BY <4>1, <4>2, SeqNoIsInt
    <3>2. tree[n][p] < curMsgId[p] /\ tree[m][p] < curMsgId[p]
      BY DEF SyncInv, NeverAhead
    <3>3. QED
      BY <1>5, <3>1, <3>2
  <2>2. QED
    BY <2>1
<1>7. new[n] = tree[n][n]
  <2>1. tree[n][n] = curMsgId[n] - 1 /\ curMsgId[n] \in Nat /\ new[n] \in Int
    BY <1>3, <1>4 DEF SyncInv, NeverAhead
  <2>2. QED
    BY <1>6, <2>1
<1>8. ASSUME NEW p \in Client
      PROVE  /\ Missing(new, p) \in Seq(Nat)
             /\ reported[n][p] \o Missing(new, p) = Upto(new[p] + 1)
  <2>1. /\ reported[n][p] = Upto(tree[n][p] + 1) /\ reported[n][p] \in Seq(Nat)
        /\ tree[n][p] \in SeqNo /\ new[p] \in SeqNo
    BY <1>3, <1>4 DEF SyncInv, ReportedInSequence, Upto
  <2>2. CASE p # n /\ new[p] # tree[n][p]
    <3>1. tree[n][p] < new[p]
      BY <1>3, <1>5, <2>1, <2>2
    <3>2. QED
      BY <2>1, <2>2, <3>1, MissingContinues
  <2>3. CASE ~(p # n /\ new[p] # tree[n][p])
    <3>1. new[p] = tree[n][p] /\ Missing(new, p) = << >>
      BY <1>7, <2>3
    <3>2. reported[n][p] \o << >> = reported[n][p]
      BY <2>1
    <3>3. QED
      BY <2>1, <3>1, <3>2
  <2>4. QED
    BY <2>2, <2>3
<1>0. Missing(new, n) = << >>
  OBVIOUS
<1> HIDE DEF Missing
<1>9. \A p \in Client : tree'[n][p] = new[p] /\ reported'[n][p] = Upto(new[p] + 1)
  BY <1>2, <1>3, <1>8
<1>10. \A k, p \in Client : k # n =>
         tree'[k][p] = tree[k][p] /\ reported'[k][p] = reported[k][p]
  BY <1>2, <1>3
<1>11. TypeOK'
  <2>1. tree' \in [Client -> [Client -> SeqNo]]
    BY <1>2, <1>3, <1>4
  <2>2. \A p \in Client : reported[n][p] \o Missing(new, p) \in Seq(Nat)
                          /\ asked[n][p] \o Missing(new, p) \in Seq(Nat)
    BY <1>3, <1>8
  <2>3. reported' \in [Client -> [Client -> Seq(Nat)]]
    BY <1>2, <1>3, <2>2
  <2>4. asked' \in [Client -> [Client -> Seq(Nat)]]
    BY <1>2, <1>3, <2>2
  <2>5. QED
    BY <1>2, <1>3, <2>1, <2>3, <2>4 DEF TypeOK
<1>12. \E missing \in [Client -> Seq(Nat)] :
         /\ missing[n] = << >>
         /\ reported' = [reported EXCEPT ![n] = [p \in Client |-> @[p] \o missing[p]]]
         /\ asked' = IF RequestData
                     THEN [asked EXCEPT ![n] = [p \in Client |-> @[p] \o missing[p]]]
                     ELSE asked
  <2> DEFINE missing == [p \in Client |-> Missing(new, p)]
  <2>1. missing \in [Client -> Seq(Nat)] /\ missing[n] = << >>
    BY <1>0, <1>8
  <2>2. /\ [p \in Client |-> reported[n][p] \o Missing(new, p)]
             = [p \in Client |-> reported[n][p] \o missing[p]]
        /\ [p \in Client |-> asked[n][p] \o Missing(new, p)]
             = [p \in Client |-> asked[n][p] \o missing[p]]
    OBVIOUS
  <2>3. /\ reported' = [reported EXCEPT ![n] = [p \in Client |-> @[p] \o missing[p]]]
        /\ asked' = IF RequestData
                    THEN [asked EXCEPT ![n] = [p \in Client |-> @[p] \o missing[p]]]
                    ELSE asked
    BY <1>2, <2>2
  <2> HIDE DEF missing
  <2>4. QED
    BY <2>1, <2>3
<1>13. QED
  BY <1>2, <1>6, <1>7, <1>9, <1>10, <1>11, <1>12

(* Its two halves: what changes in the tree and what is reported, and what *)
(* is asked for.                                                           *)
LEMMA WrapperEffect ==
  ASSUME SyncInv, NEW n \in Client, Wrapper(n)
  PROVE  /\ TypeOK'
         /\ \A m, p \in Client : m # n =>
              tree'[m][p] = tree[m][p] /\ reported'[m][p] = reported[m][p]
         /\ \A p \in Client :
              /\ tree[n][p] <= tree'[n][p]
              /\ tree'[n][p] < curMsgId[p]
              /\ reported'[n][p] = Upto(tree'[n][p] + 1)
         /\ tree'[n][n] = tree[n][n]
         /\ UNCHANGED curMsgId
  BY WrapperInFull

LEMMA WrapperAsks ==
  ASSUME SyncInv, NEW n \in Client, Wrapper(n)
  PROVE  /\ UNCHANGED << logic, pos, due, curMsgId, produced >>
         /\ \E missing \in [Client -> Seq(Nat)] :
              /\ missing[n] = << >>
              /\ reported' = [reported EXCEPT ![n] = [p \in Client |-> @[p] \o missing[p]]]
              /\ asked' = IF RequestData
                          THEN [asked EXCEPT ![n] = [p \in Client |-> @[p] \o missing[p]]]
                          ELSE asked
  BY WrapperInFull

LEMMA WrapperKeepsInv ==
  ASSUME SyncInv, NEW n \in Client, Wrapper(n)
  PROVE  SyncInv'
<1>1. ReportedInSequence'
  <2>1. \A m, p \in Client : reported[m][p] = Upto(tree[m][p] + 1)
    BY DEF SyncInv, ReportedInSequence, Upto
  <2>2. \A m, p \in Client : reported'[m][p] = Upto(tree'[m][p] + 1)
    BY <2>1, WrapperEffect
  <2>3. QED
    BY <2>2 DEF ReportedInSequence, Upto
<1>2. NeverAhead'
  BY WrapperEffect DEF SyncInv, NeverAhead
<1>3. QED
  BY <1>1, <1>2, WrapperEffect DEF SyncInv

LEMMA NextSyncInv == SyncInv /\ [Next]_vars => SyncInv'
<1> SUFFICES ASSUME SyncInv, [Next]_vars PROVE SyncInv'
  OBVIOUS
<1>1. ASSUME NEW n \in Client, StartApplication(n)
      PROVE  SyncInv'
  <2>1. pos' \in [Client -> Nat] /\ due' \in [Client -> Line \union {0}]
    BY <1>1, ScheduleTypes DEF StartApplication, SyncInv
  <2>2. TypeOK'
    BY <1>1, <2>1 DEF StartApplication, SyncInv, TypeOK
  <2>3. QED
    BY <1>1, <2>2 DEF StartApplication, SyncInv, ReportedInSequence, NeverAhead
<1>2. ASSUME NEW n \in Client, StopApplication(n)
      PROVE  SyncInv'
  BY <1>2 DEF StopApplication, SyncInv, TypeOK, ReportedInSequence, NeverAhead
<1>3. CASE UNCHANGED vars
  BY <1>3 DEF vars, SyncInv, TypeOK, ReportedInSequence, NeverAhead
<1>4. QED
  BY <1>1, <1>2, <1>3, SendKeepsInv, WrapperKeepsInv DEF Next
-----------------------------------------------------------------------------
(* The invariant holds in every reachable state, whatever is sent, stopped *)
(* and brought by SyncLogic.                                               *)
THEOREM SyncInvariant == Spec => []SyncInv
  BY InitSyncInv, NextSyncInv, PTL DEF Spec

(* Every application reports each number of every other one once and in    *)
(* order, whatever updates are lost, late, partial or repeated             *)
(* (OnDataUpdate, SendMessage).                                            *)
THEOREM EveryNumberOnce == Spec => []ReportedInSequence
<1>1. SyncInv => ReportedInSequence
  BY DEF SyncInv
<1>2. QED
  BY <1>1, SyncInvariant, PTL

(* No application knows of a number that was not sent.                     *)
THEOREM NothingInvented == Spec => []NeverAhead
<1>1. SyncInv => NeverAhead
  BY DEF SyncInv
<1>2. QED
  BY <1>1, SyncInvariant, PTL
-----------------------------------------------------------------------------
(* What the Interests ask for: in data mode exactly the numbers that were  *)
(* reported, and every number published so far has its Data packet.        *)
DataInv ==
  /\ \A p \in Client : RequestData => 0 .. curMsgId[p] - 1 \subseteq produced[p]
  /\ \A n, p \in Client :
       asked[n][p] = IF RequestData /\ n # p THEN reported[n][p] ELSE << >>

LEMMA InitDataInv == Init => DataInv
<1> SUFFICES ASSUME Init PROVE DataInv
  OBVIOUS
<1>1. (0 .. 0 - 1) = {}
  OBVIOUS
<1>2. QED
  BY <1>1 DEF Init, DataInv

LEMMA SendKeepsData ==
  ASSUME SyncInv, DataInv, NEW n \in Client, SendMessage(n)
  PROVE  DataInv'
<1>1. /\ curMsgId \in [Client -> Nat] /\ produced \in [Client -> SUBSET Nat]
      /\ reported \in [Client -> [Client -> Seq(Nat)]]
  BY DEF SyncInv, TypeOK
<1>2. ASSUME NEW p \in Client, RequestData
      PROVE  0 .. curMsgId'[p] - 1 \subseteq produced'[p]
  <2>1. curMsgId[p] \in Nat /\ 0 .. curMsgId[p] - 1 \subseteq produced[p]
    BY <1>1, <1>2 DEF DataInv
  <2>2. CASE p = n
    <3>1. /\ curMsgId'[n] = curMsgId[n] + 1
          /\ produced'[n] = produced[n] \union {curMsgId[n]}
      BY <1>1, <1>2 DEF SendMessage
    <3>2. \A i \in 0 .. curMsgId'[n] - 1 : i \in 0 .. curMsgId[n] - 1 \/ i = curMsgId[n]
      BY <2>1, <2>2, <3>1
    <3>3. QED
      BY <2>1, <2>2, <3>1, <3>2
  <2>3. CASE p # n
    BY <1>1, <1>2, <2>1, <2>3 DEF SendMessage
  <2>4. QED
    BY <2>2, <2>3
<1>3. ASSUME NEW m \in Client, NEW p \in Client, m # p
      PROVE  reported'[m][p] = reported[m][p]
  BY <1>1, <1>3 DEF SendMessage
<1>4. asked' = asked
  BY DEF SendMessage
<1>5. QED
  BY <1>2, <1>3, <1>4 DEF DataInv

LEMMA WrapperKeepsData ==
  ASSUME SyncInv, DataInv, NEW n \in Client, Wrapper(n)
  PROVE  DataInv'
<1>1. PICK missing \in [Client -> Seq(Nat)] :
        /\ missing[n] = << >>
        /\ reported' = [reported EXCEPT ![n] = [p \in Client |-> @[p] \o missing[p]]]
        /\ asked' = IF RequestData
                    THEN [asked EXCEPT ![n] = [p \in Client |-> @[p] \o missing[p]]]
                    ELSE asked
  BY WrapperAsks
<1>2. UNCHANGED << curMsgId, produced >>
  BY WrapperAsks
<1>3. /\ reported \in [Client -> [Client -> Seq(Nat)]]
      /\ asked \in [Client -> [Client -> Seq(Nat)]]
  BY DEF SyncInv, TypeOK
<1>4. ASSUME NEW m \in Client, NEW p \in Client
      PROVE  asked'[m][p] = IF RequestData /\ m # p THEN reported'[m][p] ELSE << >>
  <2>1. asked[m][p] = IF RequestData /\ m # p THEN reported[m][p] ELSE << >>
    BY DEF DataInv
  <2>2. CASE m # n \/ ~ RequestData
    BY <1>1, <1>3, <2>1, <2>2
  <2>3. CASE m = n /\ RequestData
    <3>1. asked'[n][p] = asked[n][p] \o missing[p]
      BY <1>1, <1>3, <2>3
    <3>2. reported'[n][p] = reported[n][p] \o missing[p]
      BY <1>1, <1>3
    <3>3. << >> \o << >> = << >>
      OBVIOUS
    <3>4. QED
      BY <1>1, <2>1, <2>3, <3>1, <3>2, <3>3
  <2>4. QED
    BY <2>2, <2>3
<1>5. QED
  BY <1>2, <1>4 DEF DataInv

LEMMA NextDataInv == SyncInv /\ DataInv /\ [Next]_vars => DataInv'
<1> SUFFICES ASSUME SyncInv, DataInv, [Next]_vars PROVE DataInv'
  OBVIOUS
<1>1. ASSUME UNCHANGED << curMsgId, reported, asked, produced >>
      PROVE  DataInv'
  BY <1>1 DEF DataInv
<1>2. ASSUME NEW n \in Client, StartApplication(n) \/ StopApplication(n)
      PROVE  DataInv'
  BY <1>1, <1>2 DEF StartApplication, StopApplication
<1>3. CASE UNCHANGED vars
  BY <1>1, <1>3 DEF vars
<1>4. QED
  BY <1>2, <1>3, SendKeepsData, WrapperKeepsData DEF Next

LEMMA DataIsThere == SyncInv /\ DataInv => InterestsHaveData
<1> SUFFICES ASSUME SyncInv, DataInv, NEW n \in Client, NEW p \in Client
             PROVE  /\ Range(asked[n][p]) \subseteq produced[p]
                    /\ RequestData /\ n # p => asked[n][p] = reported[n][p]
  BY DEF InterestsHaveData
<1>1. asked[n][p] = IF RequestData /\ n # p THEN reported[n][p] ELSE << >>
  BY DEF DataInv
<1>2. CASE RequestData /\ n # p
  <2>1. tree[n][p] + 1 \in Nat /\ tree[n][p] \in Int /\ curMsgId[p] \in Nat
    <3>1. tree \in [Client -> [Client -> SeqNo]] /\ curMsgId \in [Client -> Nat]
      BY DEF SyncInv, TypeOK
    <3>2. QED
      BY <3>1, SeqNoIsInt
  <2>2. tree[n][p] < curMsgId[p]
    BY DEF SyncInv, NeverAhead
  <2>3. asked[n][p] = [i \in 1 .. tree[n][p] + 1 |-> i - 1]
    BY <1>1, <1>2 DEF SyncInv, ReportedInSequence
  <2>4. \A i \in 1 .. tree[n][p] + 1 : i - 1 \in 0 .. curMsgId[p] - 1
    BY <2>1, <2>2
  <2>5. \A i \in DOMAIN asked[n][p] : asked[n][p][i] \in 0 .. curMsgId[p] - 1
    BY <2>3, <2>4
  <2>6. 0 .. curMsgId[p] - 1 \subseteq produced[p]
    BY <1>2 DEF DataInv
  <2>7. QED
    BY <1>1, <1>2, <2>5, <2>6 DEF Range
<1>3. CASE ~ (RequestData /\ n # p)
  <2>1. asked[n][p] = << >> /\ DOMAIN << >> = {}
    BY <1>1, <1>3
  <2>2. QED
    BY <1>3, <2>1 DEF Range
<1>4. QED
  BY <1>2, <1>3

(* No Interest goes out for a Data packet that was never put out, and in   *)
(* data mode none is left out (OnDataUpdate, SendMessage).                 *)
THEOREM DataBeforeInterest == Spec => []InterestsHaveData
<1>1. Spec => [](SyncInv /\ DataInv)
  BY SyncInvariant, InitDataInv, NextDataInv, PTL DEF Spec
<1>2. QED
  BY <1>1, DataIsThere, PTL
-----------------------------------------------------------------------------
(* What a scan for the next own line does to the number of own lines that  *)
(* have been read.                                                         *)
LEMMA LinesAreNumbers == Len(Input) \in Nat /\ Line \subseteq Nat \ {0}
  BY InputAssumption DEF Line

LEMMA OwnLinesArePlaces == \A c, p : OwnLinesUpTo(c, p) = PlacesUpTo(Input, c, p)
  BY DEF OwnLinesUpTo, PlacesUpTo, Line

LEMMA OwnLinesFinite ==
  ASSUME NEW c \in Client, NEW p \in Nat
  PROVE  Cardinality(OwnLinesUpTo(c, p)) \in Nat
  BY OwnLinesArePlaces, InputAssumption, PlacesFinite

LEMMA NothingReadYet ==
  ASSUME NEW c \in Client
  PROVE  Cardinality(OwnLinesUpTo(c, 0)) = 0
  BY OwnLinesArePlaces, InputAssumption, NoPlaceYet

LEMMA ScanFindsOne ==
  ASSUME NEW c \in Client, NEW p \in Nat, NEW i \in Line, IsNextOwnLine(c, p, i)
  PROVE  Cardinality(OwnLinesUpTo(c, i)) = Cardinality(OwnLinesUpTo(c, p)) + 1
<1>1. /\ i \in 1 .. Len(Input) /\ i > p /\ Input[i] = c
      /\ \A j \in 1 .. Len(Input) : j > p /\ Input[j] = c => i <= j
  BY DEF IsNextOwnLine, OwnLinesAfter, Line
<1>2. QED
  BY <1>1, OwnLinesArePlaces, InputAssumption, NextPlace

LEMMA ScanFindsNone ==
  ASSUME NEW c \in Client, NEW p \in Nat, OwnLinesAfter(c, p) = {}
  PROVE  Cardinality(OwnLinesUpTo(c, Len(Input))) = Cardinality(OwnLinesUpTo(c, p))
<1>1. \A j \in 1 .. Len(Input) : Input[j] = c => j <= p
  BY InputAssumption DEF OwnLinesAfter, Line
<1>2. QED
  BY <1>1, OwnLinesArePlaces, InputAssumption, NoFurtherPlace

(* The lines of the input: nothing is scheduled before the start, so the   *)
(* scan of StartApplication does not replace an event.                     *)
LineInv ==
  /\ NoLineLost
  /\ \A n \in Client : logic[n] = "none" => due[n] = 0

LEMMA InitLineInv == Init => LineInv
  BY NothingReadYet DEF Init, LineInv, NoLineLost

(* A scan raises the number of lines read by one if it schedules one.      *)
LEMMA ScanCounts ==
  ASSUME SyncInv, NEW n \in Client, ScheduleNextMessage(n)
  PROVE  /\ Cardinality(OwnLinesUpTo(n, pos'[n]))
              = Cardinality(OwnLinesUpTo(n, pos[n])) + (IF due'[n] = 0 THEN 0 ELSE 1)
         /\ \A m \in Client : m # n => pos'[m] = pos[m] /\ due'[m] = due[m]
<1>1. /\ pos \in [Client -> Nat] /\ due \in [Client -> Line \union {0}]
      /\ pos[n] \in Nat
  BY DEF SyncInv, TypeOK
<1>2. Cardinality(OwnLinesUpTo(n, pos[n])) \in Nat
  BY <1>1, OwnLinesFinite
<1>3. CASE /\ OwnLinesAfter(n, pos[n]) = {}
           /\ pos' = [pos EXCEPT ![n] = Len(Input)]
           /\ due' = [due EXCEPT ![n] = 0]
  BY <1>1, <1>2, <1>3, ScanFindsNone
<1>4. CASE \E i \in Line : /\ IsNextOwnLine(n, pos[n], i)
                           /\ pos' = [pos EXCEPT ![n] = i]
                           /\ due' = [due EXCEPT ![n] = i]
  <2>1. PICK i \in Line : /\ IsNextOwnLine(n, pos[n], i)
                          /\ pos' = [pos EXCEPT ![n] = i]
                          /\ due' = [due EXCEPT ![n] = i]
    BY <1>4
  <2>2. i # 0
    BY LinesAreNumbers
  <2>3. pos'[n] = i /\ due'[n] = i
    BY <1>1, <2>1
  <2>4. Cardinality(OwnLinesUpTo(n, i)) = Cardinality(OwnLinesUpTo(n, pos[n])) + 1
    BY <1>1, <2>1, ScanFindsOne
  <2>5. QED
    BY <1>1, <2>1, <2>2, <2>3, <2>4
<1>5. QED
  BY <1>3, <1>4 DEF ScheduleNextMessage

LEMMA NextLineInv == SyncInv /\ LineInv /\ [Next]_vars => LineInv'
<1> SUFFICES ASSUME SyncInv, LineInv, [Next]_vars PROVE LineInv'
  OBVIOUS
<1>0. /\ logic \in [Client -> {"none", "running", "stopped"}]
      /\ curMsgId \in [Client -> Nat]
      /\ \A m \in Client : /\ curMsgId[m] \in Nat
                           /\ Cardinality(OwnLinesUpTo(m, pos[m])) \in Nat
                           /\ curMsgId[m] + (IF due[m] = 0 THEN 0 ELSE 1)
                                = Cardinality(OwnLinesUpTo(m, pos[m]))
                           /\ logic[m] = "none" => due[m] = 0
  <2>1. \A m \in Client : pos[m] \in Nat
    BY DEF SyncInv, TypeOK
  <2>2. QED
    BY <2>1, OwnLinesFinite DEF SyncInv, TypeOK, LineInv, NoLineLost
<1>1. ASSUME NEW n \in Client, StartApplication(n)
      PROVE  LineInv'
  <2>1. /\ due[n] = 0 /\ curMsgId' = curMsgId
        /\ logic' = [logic EXCEPT ![n] = "running"]
    BY <1>0, <1>1 DEF StartApplication
  <2>2. /\ Cardinality(OwnLinesUpTo(n, pos'[n]))
             = Cardinality(OwnLinesUpTo(n, pos[n])) + (IF due'[n] = 0 THEN 0 ELSE 1)
        /\ \A m \in Client : m # n => pos'[m] = pos[m] /\ due'[m] = due[m]
    BY <1>1, ScanCounts DEF StartApplication
  <2>3. QED
    BY <1>0, <2>1, <2>2 DEF LineInv, NoLineLost
<1>2. ASSUME NEW n \in Client, SendMessage(n)
      PROVE  LineInv'
  <2>1. /\ due[n] # 0 /\ logic' = logic
        /\ curMsgId' = [curMsgId EXCEPT ![n] = @ + 1]
    BY <1>2 DEF SendMessage
  <2>2. /\ Cardinality(OwnLinesUpTo(n, pos'[n]))
             = Cardinality(OwnLinesUpTo(n, pos[n])) + (IF due'[n] = 0 THEN 0 ELSE 1)
        /\ \A m \in Client : m # n => pos'[m] = pos[m] /\ due'[m] = due[m]
    BY <1>2, ScanCounts DEF SendMessage
  <2>3. QED
    BY <1>0, <2>1, <2>2 DEF LineInv, NoLineLost
<1>3. ASSUME NEW n \in Client, StopApplication(n)
      PROVE  LineInv'
  BY <1>0, <1>3 DEF StopApplication, LineInv, NoLineLost
<1>4. ASSUME NEW n \in Client, Wrapper(n)
      PROVE  LineInv'
  BY <1>4, WrapperAsks DEF LineInv, NoLineLost
<1>5. CASE UNCHANGED vars
  BY <1>5 DEF vars, LineInv, NoLineLost
<1>6. QED
  BY <1>1, <1>2, <1>3, <1>4, <1>5 DEF Next

(* However many applications read the same input file, each has sent or    *)
(* scheduled every own line up to its position, also after it was stopped  *)
(* (ScheduleNextMessage, SendMessage).                                     *)
THEOREM EveryLineIsSent == Spec => []NoLineLost
<1>1. LineInv => NoLineLost
  BY DEF LineInv
<1>2. QED
  BY <1>1, SyncInvariant, InitLineInv, NextLineInv, PTL DEF Spec
-----------------------------------------------------------------------------
(* The refinement: the variable seen is the tree, plus one.                *)
LEMMA LastOfUpto ==
  ASSUME NEW k \in Nat
  PROVE  (IF Upto(k) = << >> THEN 0 ELSE Upto(k)[Len(Upto(k))] + 1) = k
<1>1. Upto(k) \in Seq(Nat) /\ Len(Upto(k)) = k /\ (k > 0 => Upto(k)[k] = k - 1)
  BY UptoIsSeq
<1>2. CASE k = 0
  <2>1. Upto(k) = << >>
    BY <1>1, <1>2
  <2>2. QED
    BY <1>2, <2>1
<1>3. CASE k > 0
  BY <1>1, <1>3
<1>4. QED
  BY <1>2, <1>3

SeenInv ==
  /\ Seen \in [Client -> [Client -> Nat]]
  /\ \A n, p \in Client : Seen[n][p] = tree[n][p] + 1

LEMMA SeenIsTree == SyncInv => SeenInv
<1> SUFFICES ASSUME SyncInv PROVE SeenInv
  OBVIOUS
<1>1. ASSUME NEW n \in Client, NEW p \in Client
      PROVE  Seen[n][p] = tree[n][p] + 1 /\ tree[n][p] + 1 \in Nat
  <2>1. tree \in [Client -> [Client -> SeqNo]]
    BY DEF SyncInv, TypeOK
  <2>2. tree[n][p] + 1 \in Nat
    BY <2>1, SeqNoIsInt
  <2>3. reported[n][p] = Upto(tree[n][p] + 1)
    BY DEF SyncInv, ReportedInSequence, Upto
  <2>4. Seen[n][p] = IF reported[n][p] = << >> THEN 0
                     ELSE reported[n][p][Len(reported[n][p])] + 1
    BY DEF Seen
  <2>5. QED
    BY <2>2, <2>3, <2>4, LastOfUpto
<1>2. /\ Seen = [n \in Client |-> Seen[n]]
      /\ \A n \in Client : Seen[n] = [p \in Client |-> Seen[n][p]]
  BY DEF Seen
<1>3. \A n \in Client : Seen[n] \in [Client -> Nat]
  BY <1>1, <1>2
<1>4. QED
  BY <1>1, <1>2, <1>3 DEF SeenInv

(* A callback is a Receive: no number goes down or runs ahead.             *)
LEMMA WrapperIsReceive ==
  ASSUME SyncInv, SeenInv, SeenInv', NEW n \in Client, Wrapper(n)
  PROVE  Traces!Receive(n)
<1>1. /\ tree \in [Client -> [Client -> SeqNo]] /\ tree' \in [Client -> [Client -> SeqNo]]
      /\ curMsgId \in [Client -> Nat]
  BY WrapperEffect DEF SyncInv, TypeOK
<1>2. \A k, p \in Client : /\ tree[k][p] \in Int /\ tree'[k][p] \in Int
                           /\ curMsgId[p] \in Int
  <2>1. \A k, p \in Client : /\ tree[k][p] \in SeqNo /\ tree'[k][p] \in SeqNo
                             /\ curMsgId[p] \in Nat
    BY <1>1
  <2>2. QED
    BY <2>1, SeqNoIsInt
<1>3. \A m \in Client \ {n} : Seen'[m] = Seen[m]
  <2>1. ASSUME NEW m \in Client \ {n}
        PROVE  Seen'[m] = Seen[m]
    <3>1. Seen'[m] \in [Client -> Nat] /\ Seen[m] \in [Client -> Nat]
      BY DEF SeenInv
    <3>2. \A p \in Client : Seen'[m][p] = Seen[m][p]
      BY WrapperEffect DEF SeenInv
    <3>3. QED
      BY <3>1, <3>2
  <2>2. QED
    BY <2>1
<1>4. Seen'[n][n] = Seen[n][n]
  BY WrapperEffect DEF SeenInv
<1>5. \A p \in Client : Seen[n][p] <= Seen'[n][p] /\ Seen'[n][p] <= curMsgId[p]
  <2>1. \A p \in Client : tree[n][p] <= tree'[n][p] /\ tree'[n][p] < curMsgId[p]
    BY WrapperEffect
  <2>2. QED
    BY <1>2, <2>1 DEF SeenInv
<1>6. UNCHANGED curMsgId
  BY WrapperEffect
<1>7. QED
  BY <1>3, <1>4, <1>5, <1>6 DEF Traces!Receive

(* Sending is a Generate.                                                  *)
LEMMA SendIsGenerate ==
  ASSUME SyncInv, SeenInv, SeenInv', NEW n \in Client, SendMessage(n)
  PROVE  Traces!Generate(n)
<1>1. /\ tree \in [Client -> [Client -> SeqNo]]
      /\ curMsgId \in [Client -> Nat]
      /\ tree' = [tree EXCEPT ![n][n] = curMsgId[n]]
      /\ curMsgId' = [curMsgId EXCEPT ![n] = @ + 1]
  BY DEF SyncInv, TypeOK, SendMessage
<1>2. [Seen EXCEPT ![n][n] = curMsgId[n] + 1] \in [Client -> [Client -> Nat]]
  BY <1>1 DEF SeenInv
<1>3. ASSUME NEW k \in Client, NEW p \in Client
      PROVE  Seen'[k][p] = [Seen EXCEPT ![n][n] = curMsgId[n] + 1][k][p]
  <2>1. CASE k = n /\ p = n
    BY <1>1, <2>1 DEF SeenInv
  <2>2. CASE ~(k = n /\ p = n)
    <3>1. tree'[k][p] = tree[k][p]
      BY <1>1, <2>2
    <3>2. QED
      BY <2>2, <3>1 DEF SeenInv
  <2>3. QED
    BY <2>1, <2>2
<1>4. Seen' = [Seen EXCEPT ![n][n] = curMsgId[n] + 1]
  <2>1. Seen' \in [Client -> [Client -> Nat]]
    BY DEF SeenInv
  <2>2. QED
    BY <1>2, <1>3, <2>1
<1>5. QED
  BY <1>1, <1>4 DEF Traces!Generate

LEMMA InitIsTracesInit == Init => Traces!TracesInit
  BY DEF Init, Seen, Traces!TracesInit

LEMMA NextIsTracesNext ==
  SyncInv /\ SeenInv /\ SeenInv' /\ [Next]_vars
    => [Traces!TracesNext]_(Traces!traceVars)
<1> SUFFICES ASSUME SyncInv, SeenInv, SeenInv', [Next]_vars
             PROVE  [Traces!TracesNext]_(Traces!traceVars)
  OBVIOUS
<1>1. ASSUME UNCHANGED << curMsgId, reported >>
      PROVE  UNCHANGED Traces!traceVars
  BY <1>1 DEF Traces!traceVars, Seen
<1>2. ASSUME NEW n \in Client, StartApplication(n)
      PROVE  UNCHANGED Traces!traceVars
  BY <1>1, <1>2 DEF StartApplication
<1>3. ASSUME NEW n \in Client, StopApplication(n)
      PROVE  UNCHANGED Traces!traceVars
  BY <1>1, <1>3 DEF StopApplication
<1>4. CASE UNCHANGED vars
  BY <1>1, <1>4 DEF vars
<1>5. QED
  BY <1>2, <1>3, <1>4, SendIsGenerate, WrapperIsReceive DEF Next, Traces!TracesNext

(* SyncMuc fires its traces as the observers expect: sending fires the     *)
(* next own number, a callback never goes back and never runs ahead        *)
(* (SendMessage, OnDataUpdate).                                            *)
THEOREM TracesAreFired == Spec => TracesImplemented
<1>1. Spec => [](SyncInv /\ SeenInv)
  BY SyncInvariant, SeenIsTree, PTL
<1>2. QED
  BY <1>1, InitIsTracesInit, NextIsTracesNext, PTL
     DEF Spec, TracesImplemented, Traces!TracesSpec
=============================================================================
