-------------------------- MODULE MucFramingProofs --------------------------
(***************************************************************************)
(* Messages are cut out of the streams as they were put in, for any        *)
(* senders, any lengths of bodies, any number of messages and of           *)
(* reconnections, and wherever the deliveries end.                         *)
(*                                                                         *)
(* A reader has decoded a number of headers and stands in the body of the  *)
(* last of these, or behind it: its position and the words that it still   *)
(* has to skip add up to the length of these messages on the wire.         *)
(***************************************************************************)
EXTENDS MucFramingRefinement, SequenceLemmas

Header == [id : Sender, seq : Nat, length : Nat]

First(hs, k) == SubSeq(hs, 1, k)

TypeOK ==
  /\ curMsgId \in [Sender -> Nat]
  /\ written \in [Sender -> Seq(Header)]
  /\ relayed \in [Sender -> Seq(Header)]
  /\ upRead \in [Sender -> Nat]
  /\ srvBody \in [Sender -> Nat]
  /\ DOMAIN upStream = Sender
  /\ attached \in BOOLEAN
  /\ log \in Seq(Header)
  /\ passedOn \in Seq(Header)

(* The k-th header lies within the first n words.                          *)
HeaderIn(hs, k, n) == Len(OnTheWire(First(hs, k - 1))) + HeaderSize <= n

(* A reader of the stream of some headers that has decoded k of them.      *)
StandsAt(hs, p, body, k) ==
  /\ k \in 0 .. Len(hs)
  /\ p \in Nat /\ body \in Nat
  /\ p <= Len(OnTheWire(hs))
  /\ p + body = Len(OnTheWire(First(hs, k)))
  /\ k > 0 => HeaderIn(hs, k, p)

UpInv ==
  \A c \in Sender :
    /\ upStream[c] = OnTheWire(written[c])
    /\ relayed[c] = First(written[c], Len(relayed[c]))
    /\ StandsAt(written[c], upRead[c], srvBody[c], Len(relayed[c]))

DownInv ==
  /\ downStream = OnTheWire(passedOn)
  /\ ~ attached => reported = << >>
  /\ attached /\ Aligned =>
       /\ reported = Pairs(First(passedOn, Len(reported)))
       /\ StandsAt(passedOn, downRead, cliBody, Len(reported))

(* The numbers of a sender go up, and what was relayed on any of its       *)
(* connections has a lower number than what is still to be relayed.        *)
Rising(hs) ==
  \A i, j \in DOMAIN hs : i < j /\ hs[i].id = hs[j].id => hs[i].seq < hs[j].seq

Past(h) ==
  /\ h.seq < curMsgId[h.id]
  /\ \A j \in DOMAIN written[h.id] :
       j > Len(relayed[h.id]) => h.seq < written[h.id][j].seq

NumbersInv ==
  /\ \A c \in Sender :
       /\ Rising(written[c])
       /\ \A i \in DOMAIN written[c] : written[c][i].id = c /\ written[c][i].seq < curMsgId[c]
  /\ Rising(log) /\ \A i \in DOMAIN log : Past(log[i])
  /\ Rising(passedOn) /\ \A i \in DOMAIN passedOn : Past(passedOn[i])

FramingInv == TypeOK /\ UpInv /\ DownInv /\ NumbersInv

(* A connection of the listener is passed on no more than was relayed      *)
(* since it began, and the numbers stay below the bound of the model.      *)
RoomInv ==
  /\ since.log \in Nat /\ since.log + Len(passedOn) <= Len(log)
  /\ earlier \in Seq([src : Sender, seq : Nat])
  /\ SumFunction(curMsgId) <= MaxMessages
-----------------------------------------------------------------------------
(* The first ones of a sequence.                                           *)
LEMMA FirstOnes ==
  ASSUME NEW T, NEW hs \in Seq(T), NEW k \in 0 .. Len(hs)
  PROVE  /\ First(hs, k) \in Seq(T) /\ Len(First(hs, k)) = k
         /\ \A i \in 1 .. k : First(hs, k)[i] = hs[i]
  BY SubSeqProperties DEF First

LEMMA FirstNone == \A hs : First(hs, 0) = << >>
  BY SubSeqEmpty DEF First

LEMMA FirstAll ==
  ASSUME NEW T, NEW hs \in Seq(T)
  PROVE  First(hs, Len(hs)) = hs
  BY SubSeqFull DEF First

(* The first ones, and the others.                                         *)
LEMMA FirstAndRest ==
  ASSUME NEW T, NEW hs \in Seq(T), NEW k \in 0 .. Len(hs), NEW m \in k .. Len(hs)
  PROVE  /\ SubSeq(hs, k + 1, m) \in Seq(T)
         /\ Len(SubSeq(hs, k + 1, m)) = m - k
         /\ \A i \in 1 .. m - k : SubSeq(hs, k + 1, m)[i] = hs[k + i]
         /\ First(hs, m) = First(hs, k) \o SubSeq(hs, k + 1, m)
<1>1. /\ SubSeq(hs, k + 1, m) \in Seq(T)
      /\ Len(SubSeq(hs, k + 1, m)) = m - k
      /\ \A i \in 1 .. m - k : SubSeq(hs, k + 1, m)[i] = hs[k + i]
  OBVIOUS
<1>2. 1 \in 1 .. Len(hs) + 1 /\ k \in 1 - 1 .. Len(hs)
  OBVIOUS
<1>3. SubSeq(hs, 1, k) \o SubSeq(hs, k + 1, m) = SubSeq(hs, 1, m)
  BY <1>2, ConcatAdjacentSubSeq
<1>4. QED
  BY <1>1, <1>3 DEF First

LEMMA OneMore ==
  ASSUME NEW T, NEW hs \in Seq(T), NEW k \in 0 .. Len(hs),
         NEW m \in k .. Len(hs), m < Len(hs)
  PROVE  SubSeq(hs, k + 1, m + 1) = Append(SubSeq(hs, k + 1, m), hs[m + 1])
<1> DEFINE some == SubSeq(hs, k + 1, m)
           more == SubSeq(hs, k + 1, m + 1)
           next == Append(some, hs[m + 1])
<1>1. m + 1 \in k .. Len(hs) /\ hs[m + 1] \in T
  OBVIOUS
<1>2. /\ some \in Seq(T) /\ Len(some) = m - k
      /\ \A i \in 1 .. m - k : some[i] = hs[k + i]
  BY FirstAndRest
<1>3. /\ more \in Seq(T) /\ Len(more) = m + 1 - k
      /\ \A i \in 1 .. m + 1 - k : more[i] = hs[k + i]
  BY <1>1
<1> HIDE DEF some, more
<1>4. /\ next \in Seq(T) /\ Len(next) = m + 1 - k
      /\ \A i \in 1 .. m - k : next[i] = some[i]
      /\ next[m - k + 1] = hs[m + 1]
  BY <1>1, <1>2, AppendProperties
<1> HIDE DEF next
<1>5. ASSUME NEW i \in 1 .. m + 1 - k PROVE more[i] = next[i]
  <2>1. CASE i <= m - k
    BY <1>2, <1>3, <1>4, <2>1
  <2>2. CASE i = m - k + 1
    <3>1. k + i = m + 1
      BY <2>2
    <3>2. QED
      BY <1>3, <1>4, <2>2, <3>1
  <2>3. QED
    BY <2>1, <2>2
<1>6. more = next
  BY <1>3, <1>4, <1>5, SeqEqual
<1>7. QED
  BY <1>6 DEF more, next, some
-----------------------------------------------------------------------------
(* A message on the wire.                                                  *)
Nats(h) == h.id \in Nat /\ h.seq \in Nat /\ h.length \in Nat

LEMMA HeaderNats == \A h \in Header : Nats(h)
  BY FramingAssumption DEF Header, Nats

LEMMA SerializeWords ==
  ASSUME NEW h, Nats(h)
  PROVE  /\ Serialize(h) \in Seq(Nat) /\ Len(Serialize(h)) = HeaderSize + h.length
         /\ Serialize(h)[1] = h.id /\ Serialize(h)[2] = h.seq /\ Serialize(h)[3] = h.length
<1> DEFINE head == << h.id, h.seq, h.length >>
           zeros == [i \in 1 .. h.length |-> 0]
<1>1. h.id \in Nat /\ h.seq \in Nat /\ h.length \in Nat
  BY DEF Nats
<1>2. /\ head \in Seq(Nat) /\ Len(head) = 3
      /\ head[1] = h.id /\ head[2] = h.seq /\ head[3] = h.length
  BY <1>1
<1>3. zeros \in Seq(Nat) /\ Len(zeros) = h.length
  BY <1>1
<1> HIDE DEF head, zeros
<1>4. /\ head \o zeros \in Seq(Nat) /\ Len(head \o zeros) = Len(head) + Len(zeros)
      /\ \A i \in 1 .. Len(head) + Len(zeros) :
           (head \o zeros)[i] = IF i <= Len(head) THEN head[i] ELSE zeros[i - Len(head)]
  BY <1>2, <1>3, ConcatProperties
<1>5. Serialize(h) = head \o zeros
  BY DEF Serialize, head, zeros
<1>6. 1 \in 1 .. 3 + h.length /\ 2 \in 1 .. 3 + h.length /\ 3 \in 1 .. 3 + h.length
  BY <1>1
<1>7. QED
  BY <1>1, <1>2, <1>3, <1>4, <1>5, <1>6 DEF HeaderSize

LEMMA WireEmpty == OnTheWire(<< >>) = << >>
<1>1. [i \in DOMAIN << >> |-> Serialize(<< >>[i])] = << >>
  OBVIOUS
<1>2. QED
  BY <1>1, FlattenSeqEmpty DEF OnTheWire

LEMMA WireAppend ==
  ASSUME NEW hs \in Seq(Header), NEW h \in Header
  PROVE  /\ OnTheWire(hs) \in Seq(Nat)
         /\ OnTheWire(Append(hs, h)) = OnTheWire(hs) \o Serialize(h)
<1> DEFINE parts(q) == [i \in DOMAIN q |-> Serialize(q[i])]
           n == Len(hs)
           longer == Append(hs, h)
<1>1. n \in Nat /\ DOMAIN hs = 1 .. n
  OBVIOUS
<1>2. /\ longer \in Seq(Header) /\ Len(longer) = n + 1 /\ DOMAIN longer = 1 .. n + 1
      /\ longer[n + 1] = h /\ \A i \in 1 .. n : longer[i] = hs[i]
  BY AppendProperties
<1>3. \A g \in Header : Serialize(g) \in Seq(Nat)
  BY HeaderNats, SerializeWords
<1>4. parts(hs) \in Seq(Seq(Nat)) /\ Len(parts(hs)) = n
  BY <1>1, <1>3
<1>5. parts(longer) = Append(parts(hs), Serialize(h))
  <2> HIDE DEF n, longer
  <2>1. parts(longer) \in Seq(Seq(Nat)) /\ Len(parts(longer)) = n + 1
    BY <1>1, <1>2, <1>3
  <2>2. \A i \in 1 .. n : parts(longer)[i] = parts(hs)[i]
    BY <1>1, <1>2
  <2>3. parts(longer)[n + 1] = Serialize(h)
    BY <1>1, <1>2
  <2> DEFINE one == parts(longer)
             two == Append(parts(hs), Serialize(h))
  <2>4. /\ two \in Seq(Seq(Nat)) /\ Len(two) = n + 1
        /\ \A i \in 1 .. n : two[i] = parts(hs)[i]
        /\ two[n + 1] = Serialize(h)
    <3> DEFINE few == parts(hs)
    <3>1. few \in Seq(Seq(Nat)) /\ Len(few) = n /\ Serialize(h) \in Seq(Nat)
      BY <1>3, <1>4
    <3> HIDE DEF few
    <3>2. QED
      BY <3>1, AppendProperties DEF few
  <2>5. \A i \in 1 .. n + 1 : one[i] = two[i]
    <3> HIDE DEF two
    <3>1. \A i \in 1 .. n + 1 : i \in 1 .. n \/ i = n + 1
      BY <1>1
    <3>2. QED
      BY <2>2, <2>3, <2>4, <3>1
  <2> HIDE DEF one, two, parts
  <2>6. one = two
    BY <2>1, <2>4, <2>5, SeqEqual DEF one
  <2>7. QED
    BY <2>6 DEF one, two
<1> HIDE DEF parts
<1>6. /\ FlattenSeq(parts(hs)) \in Seq(Nat)
      /\ FlattenSeq(Append(parts(hs), Serialize(h))) = FlattenSeq(parts(hs)) \o Serialize(h)
  BY <1>3, <1>4, FlattenSeqAppend
<1>7. OnTheWire(hs) = FlattenSeq(parts(hs)) /\ OnTheWire(longer) = FlattenSeq(parts(longer))
  BY DEF OnTheWire, parts
<1>8. QED
  BY <1>5, <1>6, <1>7

LEMMA WireWords ==
  ASSUME NEW hs \in Seq(Header)
  PROVE  OnTheWire(hs) \in Seq(Nat) /\ Len(OnTheWire(hs)) \in Nat
<1>1. CASE Header = {}
  <2>1. hs = << >>
    BY <1>1
  <2>2. OnTheWire(hs) = << >>
    BY <2>1, WireEmpty, Zenon
  <2>3. QED
    BY <2>2
<1>2. CASE Header # {}
  <2>1. PICK h : h \in Header
    BY <1>2
  <2>2. OnTheWire(hs) \in Seq(Nat)
    BY <2>1, WireAppend
  <2>3. QED
    BY <2>2
<1>3. QED
  BY <1>1, <1>2

LEMMA WordsConcat ==
  ASSUME NEW x \in Seq(Nat), NEW y \in Seq(Nat), NEW z \in Seq(Nat)
  PROVE  (x \o y) \o z = x \o (y \o z)
<1> DEFINE left == (x \o y) \o z
           right == x \o (y \o z)
<1>1. left \in Seq(Nat) /\ right \in Seq(Nat) /\ Len(left) = Len(right)
  OBVIOUS
<1>2. \A i \in 1 .. Len(left) : left[i] = right[i]
  OBVIOUS
<1> HIDE DEF left, right
<1>3. left = right
  BY <1>1, <1>2, SeqEqual
<1>4. QED
  BY <1>3 DEF left, right

(* Messages that follow each other are on the wire one behind the other.   *)
LEMMA WireConcat ==
  ASSUME NEW s \in Seq(Header), NEW t \in Seq(Header)
  PROVE  OnTheWire(s \o t) = OnTheWire(s) \o OnTheWire(t)
<1> DEFINE Good == { n \in Nat : n <= Len(t) =>
                       OnTheWire(s \o First(t, n)) = OnTheWire(s) \o OnTheWire(First(t, n)) }
<1>1. 0 \in Good
  <2>1. s \o << >> = s /\ OnTheWire(s) \o << >> = OnTheWire(s)
    BY WireWords, ConcatEmptySeq
  <2>2. QED
    BY <2>1, FirstNone, WireEmpty
<1>2. ASSUME NEW n \in Nat, n \in Good PROVE n + 1 \in Good
  <2>1. SUFFICES ASSUME n + 1 <= Len(t)
                 PROVE  OnTheWire(s \o First(t, n + 1)) = OnTheWire(s) \o OnTheWire(First(t, n + 1))
    OBVIOUS
  <2>2. n \in 0 .. Len(t) /\ n < Len(t) /\ t[n + 1] \in Header
    BY <2>1
  <2> DEFINE few == First(t, n)
             h == t[n + 1]
  <2>3. few \in Seq(Header)
    BY <2>2, FirstOnes
  <2>4. First(t, n + 1) = Append(few, h)
    <3>1. 0 \in 0 .. Len(t) /\ n \in 0 .. Len(t)
      BY <2>2
    <3>2. SubSeq(t, 0 + 1, n + 1) = Append(SubSeq(t, 0 + 1, n), t[n + 1])
      BY <2>2, <3>1, OneMore
    <3>3. QED
      BY <3>2 DEF First
  <2>5. OnTheWire(s \o few) = OnTheWire(s) \o OnTheWire(few)
    BY <1>2, <2>2
  <2>6. h \in Header /\ Serialize(h) \in Seq(Nat)
    BY <2>2, HeaderNats, SerializeWords
  <2> HIDE DEF few, h
  <2>7. s \o few \in Seq(Header)
    BY <2>3, ConcatProperties
  <2>8. s \o Append(few, h) = Append(s \o few, h)
    <3>1. Append(few, h) = few \o << h >>
      BY <2>3, <2>6, AppendIsConcat
    <3>2. Append(s \o few, h) = (s \o few) \o << h >>
      BY <2>6, <2>7, AppendIsConcat
    <3>3. << h >> \in Seq(Header)
      BY <2>6
    <3>4. (s \o few) \o << h >> = s \o (few \o << h >>)
      BY <2>3, <3>3, ConcatAssociative
    <3>5. QED
      BY <3>1, <3>2, <3>4
  <2>9. OnTheWire(Append(s \o few, h)) = OnTheWire(s \o few) \o Serialize(h)
    BY <2>6, <2>7, WireAppend
  <2>10. OnTheWire(Append(few, h)) = OnTheWire(few) \o Serialize(h)
    BY <2>3, <2>6, WireAppend
  <2>11. (OnTheWire(s) \o OnTheWire(few)) \o Serialize(h) = OnTheWire(s) \o (OnTheWire(few) \o Serialize(h))
    <3>1. OnTheWire(s) \in Seq(Nat) /\ OnTheWire(few) \in Seq(Nat)
      BY <2>3, WireWords
    <3>2. QED
      BY <2>6, <3>1, WordsConcat
  <2>12. QED
    BY <2>4, <2>5, <2>8, <2>9, <2>10, <2>11
<1> HIDE DEF Good
<1>3. \A n \in Nat : n \in Good
  BY <1>1, <1>2, SetInduction
<1>4. Len(t) \in Good
  BY <1>3
<1>5. First(t, Len(t)) = t
  BY FirstAll
<1>6. QED
  BY <1>4, <1>5 DEF Good

(* The next message begins where the ones before it end.                   *)
LEMMA NextOnTheWire ==
  ASSUME NEW hs \in Seq(Header), NEW k \in 0 .. Len(hs), k < Len(hs)
  PROVE  LET p == Len(OnTheWire(First(hs, k)))
         IN  /\ hs[k + 1] \in Header
             /\ Deserialize(OnTheWire(hs), p) = hs[k + 1]
             /\ Len(OnTheWire(First(hs, k + 1))) = p + HeaderSize + hs[k + 1].length
             /\ Len(OnTheWire(First(hs, k + 1))) <= Len(OnTheWire(hs))
<1> DEFINE few == First(hs, k)
           h == hs[k + 1]
           more == First(hs, k + 1)
           rest == SubSeq(hs, k + 1 + 1, Len(hs))
<1>1. h \in Header /\ k + 1 \in 0 .. Len(hs) /\ Len(hs) \in k + 1 .. Len(hs)
  OBVIOUS
<1>2. few \in Seq(Header) /\ more \in Seq(Header) /\ rest \in Seq(Header)
  BY <1>1, FirstOnes, FirstAndRest
<1>3. more = Append(few, h)
  <2>1. 0 \in 0 .. Len(hs) /\ k \in 0 .. Len(hs)
    OBVIOUS
  <2>2. SubSeq(hs, 0 + 1, k + 1) = Append(SubSeq(hs, 0 + 1, k), hs[k + 1])
    BY <2>1, OneMore
  <2>3. QED
    BY <2>2 DEF First
<1>4. hs = more \o rest
  <2>1. First(hs, Len(hs)) = hs
    BY FirstAll
  <2>2. First(hs, Len(hs)) = more \o rest
    BY ZenonT(30), <1>1, FirstAndRest
  <2>3. QED
    BY <2>1, <2>2
<1> HIDE DEF few, h, more, rest
<1>5. h.id \in Nat /\ h.seq \in Nat /\ h.length \in Nat /\ Nats(h)
  BY <1>1, HeaderNats DEF Nats
<1>6. /\ Serialize(h) \in Seq(Nat) /\ Len(Serialize(h)) = HeaderSize + h.length
      /\ Serialize(h)[1] = h.id /\ Serialize(h)[2] = h.seq /\ Serialize(h)[3] = h.length
  BY <1>5, SerializeWords
<1> DEFINE a == OnTheWire(few)
           b == Serialize(h)
           c == OnTheWire(rest)
           p == Len(a)
<1>7. a \in Seq(Nat) /\ b \in Seq(Nat) /\ c \in Seq(Nat) /\ p \in Nat
  BY <1>2, <1>6, WireWords
<1>8. OnTheWire(more) = a \o b
  BY <1>1, <1>2, <1>3, WireAppend
<1>9. OnTheWire(hs) = (a \o b) \o c
  BY <1>2, <1>4, <1>8, WireConcat
<1>10. Len(b) = 3 + h.length /\ b[1] = h.id /\ b[2] = h.seq /\ b[3] = h.length
  BY <1>6 DEF HeaderSize
<1> HIDE DEF a, b, c
<1>11. /\ a \o b \in Seq(Nat) /\ Len(a \o b) = p + Len(b)
       /\ \A i \in 1 .. p + Len(b) : (a \o b)[i] = IF i <= p THEN a[i] ELSE b[i - p]
  BY <1>7, ConcatProperties
<1> DEFINE ab == a \o b
<1>12. /\ Len(ab \o c) = Len(ab) + Len(c)
       /\ \A i \in 1 .. Len(ab) + Len(c) : (ab \o c)[i] = IF i <= Len(ab) THEN ab[i] ELSE c[i - Len(ab)]
  <2> HIDE DEF ab
  <2>1. ab \in Seq(Nat)
    BY <1>11 DEF ab
  <2>2. QED
    BY <2>1, <1>7, ConcatProperties
<1>13. Len(c) \in Nat
  BY <1>7
<1> HIDE DEF p
<1>14. ASSUME NEW i \in 1 .. 3 PROVE (ab \o c)[p + i] = b[i]
  <2>1. p \in Nat
    BY <1>7 DEF p
  <2>2. p + i \in 1 .. p + Len(b) /\ p + i > p /\ p + i - p = i
    BY <2>1, <1>5, <1>10
  <2>3. (a \o b)[p + i] = b[i]
    BY <1>11, <2>1, <2>2
  <2>4. p + i \in 1 .. Len(ab) + Len(c) /\ p + i <= Len(ab)
    BY <1>11, <1>13, <2>1, <2>2, <1>5, <1>10
  <2>5. QED
    BY <1>12, <2>3, <2>4
<1>15. Deserialize(OnTheWire(hs), p) = [id |-> h.id, seq |-> h.seq, length |-> h.length]
  <2>1. 1 \in 1 .. 3 /\ 2 \in 1 .. 3 /\ 3 \in 1 .. 3
    OBVIOUS
  <2>2. OnTheWire(hs) = ab \o c
    BY <1>9
  <2> HIDE DEF ab
  <2>3. QED
    BY <2>1, <2>2, <1>10, <1>14 DEF Deserialize
<1>16. h = [id |-> h.id, seq |-> h.seq, length |-> h.length]
  BY <1>1 DEF Header
<1>17. /\ Len(OnTheWire(more)) = p + HeaderSize + h.length
       /\ Len(OnTheWire(more)) <= Len(OnTheWire(hs))
  <2>1. Len(ab) = p + (3 + h.length) /\ Len(OnTheWire(more)) = Len(ab)
    BY <1>8, <1>10, <1>11
  <2>2. Len(OnTheWire(hs)) = Len(ab) + Len(c)
    BY <1>9, <1>12
  <2>3. p \in Nat
    BY <1>7 DEF p
  <2> HIDE DEF ab
  <2>4. QED
    BY SMTT(30), <2>1, <2>2, <2>3, <1>5, <1>13 DEF HeaderSize
<1>18. QED
  BY <1>1, <1>15, <1>16, <1>17 DEF p, a, few, h, more
-----------------------------------------------------------------------------
(* A reader.                                                               *)

(* Of a body and what arrived of it, nothing is left of one of them.       *)
LEMMA ReadBodyEnds ==
  ASSUME NEW p \in Nat, NEW arrived \in Nat, NEW body \in Nat, p <= arrived
  PROVE  LET r == ReadBody(p, arrived, body)
         IN  /\ r.pos \in Nat /\ r.body \in Nat
             /\ r.pos + r.body = p + body
             /\ p <= r.pos /\ r.pos <= arrived
             /\ r.body = 0 \/ r.pos = arrived
  BY DEF ReadBody, Skipped

(* The reader in the loop, having decoded the headers behind the k-th one. *)
InLoop(hs, k, arrived, reader) ==
  /\ reader.pos \in Nat /\ reader.body \in Nat
  /\ reader.pos <= arrived
  /\ reader.body = 0 \/ reader.pos = arrived
  /\ \E m \in k .. Len(hs) :
       /\ reader.headers = SubSeq(hs, k + 1, m)
       /\ reader.pos + reader.body = Len(OnTheWire(First(hs, m)))
       /\ m > 0 => HeaderIn(hs, m, reader.pos)

(* It has read on by the words of a header in every turn, or is done.      *)
Done(arrived, reader) == arrived - reader.pos < HeaderSize

Advanced(n, arrived, reader) == Done(arrived, reader) \/ reader.pos >= HeaderSize * n

LEMMA OneHeaderStep ==
  ASSUME NEW hs \in Seq(Header), NEW k \in 0 .. Len(hs),
         NEW arrived \in 0 .. Len(OnTheWire(hs)), NEW reader,
         InLoop(hs, k, arrived, reader)
  PROVE  /\ InLoop(hs, k, arrived, OneHeader(OnTheWire(hs), arrived, reader))
         /\ \A n \in Nat : Advanced(n, arrived, reader) =>
              Advanced(n + 1, arrived, OneHeader(OnTheWire(hs), arrived, reader))
<1>1. CASE arrived - reader.pos < HeaderSize
  BY <1>1 DEF OneHeader, Advanced, Done
<1>2. CASE ~ (arrived - reader.pos < HeaderSize)
  <2>1. PICK m \in k .. Len(hs) :
          /\ reader.headers = SubSeq(hs, k + 1, m)
          /\ reader.pos + reader.body = Len(OnTheWire(First(hs, m)))
    BY DEF InLoop
  <2>2. PICK p \in Nat : p = reader.pos
    BY DEF InLoop
  <2>3. arrived \in Nat /\ arrived >= p + 3 /\ reader.body = 0
    <3>1. Len(OnTheWire(hs)) \in Nat
      BY WireWords
    <3>2. arrived \in Nat
      BY <3>1
    <3>3. reader.body = 0 \/ p = arrived
      BY <2>2 DEF InLoop
    <3>4. QED
      BY <1>2, <2>2, <3>2, <3>3 DEF HeaderSize
  <2>4. p = Len(OnTheWire(First(hs, m)))
    BY <2>1, <2>2, <2>3
  <2>5. m \in 0 .. Len(hs) /\ m < Len(hs)
    <3>1. ASSUME m = Len(hs) PROVE FALSE
      <4>1. p = Len(OnTheWire(hs))
        BY <2>4, <3>1, FirstAll
      <4>2. QED
        BY <2>3, <4>1
    <3>2. QED
      BY <3>1
  <2> DEFINE h == hs[m + 1]
  <2>6. /\ h \in Header /\ Deserialize(OnTheWire(hs), p) = h
        /\ Len(OnTheWire(First(hs, m + 1))) = p + HeaderSize + h.length
    BY <2>4, <2>5, NextOnTheWire
  <2> HIDE DEF h
  <2>7. h.length \in Nat
    BY <2>6 DEF Header
  <2> DEFINE r == ReadBody(p + HeaderSize, arrived, h.length)
             next == [pos |-> r.pos, body |-> r.body, headers |-> Append(reader.headers, h)]
  <2>8. OneHeader(OnTheWire(hs), arrived, reader) = next
    <3>1. reader.body + h.length = h.length
      BY <2>3, <2>7
    <3>2. QED
      BY <1>2, <2>2, <2>6, <3>1 DEF OneHeader
  <2>9. /\ r.pos \in Nat /\ r.body \in Nat /\ r.pos + r.body = p + HeaderSize + h.length
        /\ p + HeaderSize <= r.pos
        /\ r.pos <= arrived /\ (r.body = 0 \/ r.pos = arrived)
    <3>1. p + HeaderSize \in Nat /\ p + HeaderSize <= arrived
      BY <2>3 DEF HeaderSize
    <3>2. QED
      BY ZenonT(30), <2>3, <2>7, <3>1, ReadBodyEnds
  <2> HIDE DEF r
  <2>10. next.headers = SubSeq(hs, k + 1, m + 1)
    <3>1. SubSeq(hs, k + 1, m + 1) = Append(SubSeq(hs, k + 1, m), hs[m + 1])
      BY <2>5, OneMore
    <3>2. QED
      BY <2>1, <3>1 DEF h
  <2>11. next.pos + next.body = Len(OnTheWire(First(hs, m + 1)))
    BY <2>6, <2>9
  <2>12. m + 1 \in k .. Len(hs)
    BY <2>5
  <2>13. InLoop(hs, k, arrived, next)
    <3>1. /\ next.pos \in Nat /\ next.body \in Nat /\ next.pos <= arrived
          /\ next.body = 0 \/ next.pos = arrived
          /\ p + HeaderSize <= next.pos
      BY <2>9
    <3> HIDE DEF next
    <3>2. HeaderIn(hs, m + 1, next.pos)
      <4>1. m + 1 - 1 = m
        BY <2>5
      <4>2. QED
        BY <2>4, <3>1, <4>1 DEF HeaderIn
    <3>3. QED
      BY <2>10, <2>11, <2>12, <3>1, <3>2 DEF InLoop
  <2>14. ASSUME NEW n \in Nat, Advanced(n, arrived, reader)
         PROVE  Advanced(n + 1, arrived, next)
    <3>1. p >= 3 * n
      BY <1>2, <2>2, <2>14 DEF Advanced, Done, HeaderSize
    <3>2. next.pos \in Nat /\ next.pos >= p + 3
      BY <2>9 DEF HeaderSize
    <3> HIDE DEF next
    <3>3. next.pos >= 3 * (n + 1)
      BY <2>2, <3>1, <3>2
    <3>4. QED
      BY <3>3 DEF Advanced, HeaderSize
  <2>15. QED
    BY <2>8, <2>13, <2>14
<1>3. QED
  BY <1>1, <1>2

(* The loop, turn by turn.                                                 *)
Turns(f, stream, arrived, start, n) ==
  \A turn \in 0 .. n :
    f[turn] = IF turn = 0 THEN start ELSE OneHeader(stream, arrived, f[turn - 1])

LEMMA TurnsExist ==
  ASSUME NEW stream, NEW arrived, NEW start
  PROVE  \A n \in Nat : \E f : DOMAIN f = 0 .. n /\ Turns(f, stream, arrived, start, n)
<1> DEFINE Good == { n \in Nat :
                       \E f : DOMAIN f = 0 .. n /\ Turns(f, stream, arrived, start, n) }
<1>1. 0 \in Good
  <2> DEFINE f == [turn \in 0 .. 0 |-> start]
  <2>1. DOMAIN f = 0 .. 0 /\ Turns(f, stream, arrived, start, 0)
    BY DEF Turns
  <2> HIDE DEF f
  <2>2. QED
    BY <2>1
<1>2. ASSUME NEW n \in Nat, n \in Good PROVE n + 1 \in Good
  <2>1. PICK f : DOMAIN f = 0 .. n /\ Turns(f, stream, arrived, start, n)
    BY <1>2
  <2> DEFINE g == [turn \in 0 .. n + 1 |->
                     IF turn <= n THEN f[turn] ELSE OneHeader(stream, arrived, f[n])]
  <2>2. ASSUME NEW turn \in 0 .. n + 1
        PROVE  g[turn] = IF turn = 0 THEN start ELSE OneHeader(stream, arrived, g[turn - 1])
    <3>1. CASE turn <= n
      <4>1. turn \in 0 .. n /\ (turn # 0 => turn - 1 \in 0 .. n)
        BY <3>1
      <4>2. f[turn] = IF turn = 0 THEN start ELSE OneHeader(stream, arrived, f[turn - 1])
        BY <2>1, <4>1 DEF Turns
      <4>3. g[turn] = f[turn] /\ (turn # 0 => g[turn - 1] = f[turn - 1])
        BY <4>1
      <4> HIDE DEF g
      <4>4. QED
        BY <4>2, <4>3
    <3>2. CASE turn = n + 1
      <4>1. g[turn] = OneHeader(stream, arrived, f[n]) /\ turn # 0
        BY <3>2
      <4>2. turn - 1 = n /\ g[n] = f[n]
        BY <3>2
      <4> HIDE DEF g
      <4>3. QED
        BY <4>1, <4>2
    <3>3. QED
      BY <3>1, <3>2
  <2>3. DOMAIN g = 0 .. n + 1
    OBVIOUS
  <2> HIDE DEF g
  <2>4. Turns(g, stream, arrived, start, n + 1)
    BY <2>2 DEF Turns
  <2>5. QED
    BY <2>3, <2>4
<1> HIDE DEF Good
<1>3. \A n \in Nat : n \in Good
  BY <1>1, <1>2, SetInduction
<1>4. QED
  BY <1>3 DEF Good

LEMMA TurnsUnique ==
  ASSUME NEW stream, NEW arrived, NEW start, NEW f, NEW g, NEW n \in Nat, NEW m \in Nat,
         n <= m, Turns(f, stream, arrived, start, n), Turns(g, stream, arrived, start, m)
  PROVE  f[n] = g[n]
<1> DEFINE Good == { i \in Nat : i <= n => f[i] = g[i] }
<1>1. 0 \in Good
  BY DEF Turns
<1>2. ASSUME NEW i \in Nat, i \in Good PROVE i + 1 \in Good
  <2>1. SUFFICES ASSUME i + 1 <= n PROVE f[i + 1] = g[i + 1]
    OBVIOUS
  <2>2. f[i] = g[i]
    BY <1>2, <2>1
  <2> DEFINE k == i + 1
  <2>3. k \in 0 .. n /\ k \in 0 .. m /\ k # 0 /\ k - 1 = i
    BY <2>1
  <2> HIDE DEF k
  <2>4. f[k] = OneHeader(stream, arrived, f[i])
    BY <2>3 DEF Turns
  <2>5. g[k] = OneHeader(stream, arrived, g[i])
    BY <2>3 DEF Turns
  <2>6. QED
    BY <2>2, <2>4, <2>5 DEF k
<1> HIDE DEF Good
<1>3. n \in Good
  BY <1>1, <1>2, SetInduction
<1>4. QED
  BY <1>3 DEF Good

(* The loop is defined, and keeps what its turns keep.                     *)
IsLoop(f, stream, arrived, start) ==
  f = [turn \in Nat |-> IF turn = 0 THEN start
                        ELSE OneHeader(stream, arrived, f[turn - 1])]

LEMMA LoopExists ==
  ASSUME NEW stream, NEW arrived, NEW start
  PROVE  \E f : IsLoop(f, stream, arrived, start)
<1> DEFINE g(n) == CHOOSE h : DOMAIN h = 0 .. n /\ Turns(h, stream, arrived, start, n)
           f == [n \in Nat |-> g(n)[n]]
<1>1. ASSUME NEW n \in Nat PROVE Turns(g(n), stream, arrived, start, n)
  <2>1. \E h : DOMAIN h = 0 .. n /\ Turns(h, stream, arrived, start, n)
    BY TurnsExist
  <2>2. QED
    BY <2>1
<1>2. ASSUME NEW n \in Nat
      PROVE  f[n] = IF n = 0 THEN start ELSE OneHeader(stream, arrived, f[n - 1])
  <2>1. f[n] = g(n)[n]
    OBVIOUS
  <2> HIDE DEF g
  <2>2. n \in 0 .. n
    OBVIOUS
  <2>3. g(n)[n] = IF n = 0 THEN start ELSE OneHeader(stream, arrived, g(n)[n - 1])
    BY <1>1, <2>2 DEF Turns
  <2>4. CASE n = 0
    BY <2>1, <2>3, <2>4
  <2>5. CASE n # 0
    <3>1. PICK k \in Nat : k = n - 1
      BY <2>5
    <3>2. k <= n
      BY <3>1
    <3>3. g(k)[k] = g(n)[k]
      BY <1>1, <3>2, TurnsUnique
    <3>4. f[k] = g(n)[k]
      BY <3>3
    <3> HIDE DEF f
    <3>5. QED
      BY <2>1, <2>3, <2>5, <3>1, <3>4
  <2>6. QED
    BY <2>4, <2>5
<1> DEFINE Body(h) == [turn \in Nat |-> IF turn = 0 THEN start
                                       ELSE OneHeader(stream, arrived, h[turn - 1])]
<1>3. DOMAIN f = Nat /\ f = [n \in Nat |-> f[n]]
  OBVIOUS
<1> HIDE DEF f
<1>4. f = Body(f)
  BY <1>2, <1>3, Zenon
<1>5. IsLoop(f, stream, arrived, start)
  BY <1>4 DEF IsLoop
<1>6. QED
  BY <1>5

LEMMA LoopKeeps ==
  ASSUME NEW hs \in Seq(Header), NEW k \in 0 .. Len(hs),
         NEW arrived \in 0 .. Len(OnTheWire(hs)), NEW p, NEW body,
         InLoop(hs, k, arrived, [pos |-> p, body |-> body, headers |-> << >>])
  PROVE  /\ InLoop(hs, k, arrived, ReadHeaders(OnTheWire(hs), arrived, p, body))
         /\ Done(arrived, ReadHeaders(OnTheWire(hs), arrived, p, body))
<1> DEFINE start == [pos |-> p, body |-> body, headers |-> << >>]
           stream == OnTheWire(hs)
           loop == CHOOSE f : f = [turn \in Nat |-> IF turn = 0 THEN start
                                       ELSE OneHeader(stream, arrived, f[turn - 1])]
<1>1. ReadHeaders(stream, arrived, p, body) = loop[arrived \div HeaderSize]
  BY DEF ReadHeaders
<1> HIDE DEF start, stream
<1>2. loop = [turn \in Nat |-> IF turn = 0 THEN start
                               ELSE OneHeader(stream, arrived, loop[turn - 1])]
  <2>1. PICK f : IsLoop(f, stream, arrived, start)
    BY LoopExists, Zenon
  <2>2. f = [turn \in Nat |-> IF turn = 0 THEN start
                              ELSE OneHeader(stream, arrived, f[turn - 1])]
    BY <2>1 DEF IsLoop
  <2>3. QED
    BY <2>2
<1> HIDE DEF loop
<1>3. \A turn \in Nat : loop[turn] = IF turn = 0 THEN start
                                     ELSE OneHeader(stream, arrived, loop[turn - 1])
  BY <1>2
<1> DEFINE Good == { n \in Nat : InLoop(hs, k, arrived, loop[n]) /\ Advanced(n, arrived, loop[n]) }
<1>4. 0 \in Good
  <2>1. loop[0] = start
    BY <1>3
  <2>2. InLoop(hs, k, arrived, start)
    BY DEF start
  <2>3. Advanced(0, arrived, start)
    <3>1. start.pos \in Nat
      BY <2>2 DEF InLoop
    <3>2. QED
      BY <3>1 DEF Advanced, HeaderSize
  <2>4. QED
    BY <2>1, <2>2, <2>3
<1>5. ASSUME NEW n \in Nat, n \in Good PROVE n + 1 \in Good
  <2> DEFINE i == n + 1
  <2>1. i \in Nat /\ i # 0 /\ i - 1 = n
    OBVIOUS
  <2> HIDE DEF i
  <2>2. loop[i] = OneHeader(stream, arrived, loop[n])
    BY <1>3, <2>1
  <2>3. InLoop(hs, k, arrived, loop[n]) /\ Advanced(n, arrived, loop[n])
    BY <1>5
  <2>4. /\ InLoop(hs, k, arrived, OneHeader(stream, arrived, loop[n]))
        /\ Advanced(i, arrived, OneHeader(stream, arrived, loop[n]))
    BY <2>3, OneHeaderStep DEF stream, i
  <2>5. i \in Good
    BY <2>1, <2>2, <2>4
  <2>6. QED
    BY <2>5 DEF i
<1> HIDE DEF Good
<1>6. \A n \in Nat : n \in Good
  BY <1>4, <1>5, SetInduction
<1>7. arrived \div HeaderSize \in Nat
  <2>1. arrived \in Nat
    BY WireWords
  <2>2. arrived \div 3 \in Nat
    BY <2>1
  <2>3. QED
    BY <2>2 DEF HeaderSize
<1>8. Done(arrived, loop[arrived \div HeaderSize])
  <2> DEFINE n == arrived \div HeaderSize
  <2>1. InLoop(hs, k, arrived, loop[n]) /\ Advanced(n, arrived, loop[n])
    BY <1>6, <1>7 DEF Good
  <2>2. arrived \in Nat /\ loop[n].pos \in Nat
    BY <2>1, WireWords DEF InLoop
  <2>3. arrived - 3 * n < 3 /\ n \in Nat
    BY <2>2 DEF HeaderSize
  <2> HIDE DEF n
  <2>4. Done(arrived, loop[n])
    BY <2>1, <2>2, <2>3 DEF Advanced, Done, HeaderSize
  <2>5. QED
    BY <2>4 DEF n
<1>9. QED
  BY <1>1, <1>6, <1>7, <1>8 DEF Good, stream

(* A callback decodes some of the next headers.                            *)
LEMMA ReceiveReads ==
  ASSUME NEW hs \in Seq(Header), NEW p, NEW body, NEW k, StandsAt(hs, p, body, k),
         NEW arrived \in p .. Len(OnTheWire(hs))
  PROVE  LET r == Receive(OnTheWire(hs), p, arrived, body)
         IN  /\ r.pos <= arrived /\ Done(arrived, r)
             /\ \E m \in k .. Len(hs) :
                  /\ r.headers = SubSeq(hs, k + 1, m)
                  /\ StandsAt(hs, r.pos, r.body, m)
<1>1. /\ k \in 0 .. Len(hs) /\ p \in Nat /\ body \in Nat
      /\ p + body = Len(OnTheWire(First(hs, k)))
      /\ k > 0 => HeaderIn(hs, k, p)
  BY DEF StandsAt
<1>2. Len(OnTheWire(hs)) \in Nat /\ Len(hs) \in Nat
  BY WireWords
<1>3. arrived \in Nat /\ arrived \in 0 .. Len(OnTheWire(hs)) /\ p <= arrived
  BY <1>1, <1>2
<1> DEFINE q == ReadBody(p, arrived, body)
           start == [pos |-> q.pos, body |-> q.body, headers |-> << >>]
           r == ReadHeaders(OnTheWire(hs), arrived, q.pos, q.body)
<1>4. /\ q.pos \in Nat /\ q.body \in Nat /\ q.pos + q.body = p + body
      /\ p <= q.pos /\ q.pos <= arrived /\ (q.body = 0 \/ q.pos = arrived)
  BY <1>1, <1>3, ReadBodyEnds
<1>5. Receive(OnTheWire(hs), p, arrived, body) = r
  BY DEF Receive
<1> HIDE DEF q
<1>6. InLoop(hs, k, arrived, start)
  <2>1. SubSeq(hs, k + 1, k) = << >>
    BY <1>1, SubSeqEmpty
  <2>2. k \in k .. Len(hs)
    BY <1>1
  <2>3. /\ start.pos = q.pos /\ start.body = q.body /\ start.headers = << >>
    OBVIOUS
  <2> HIDE DEF start
  <2>4. k > 0 => HeaderIn(hs, k, start.pos)
    <3>1. SUFFICES ASSUME k > 0 PROVE HeaderIn(hs, k, q.pos)
      BY <2>3
    <3>2. Len(OnTheWire(First(hs, k - 1))) + HeaderSize <= p
      BY <1>1, <3>1 DEF HeaderIn
    <3>3. Len(OnTheWire(First(hs, k - 1))) \in Nat
      <4>1. k - 1 \in 0 .. Len(hs)
        BY <1>1, <3>1
      <4>2. QED
        BY <4>1, FirstOnes, WireWords
    <3>4. QED
      BY <1>1, <1>4, <3>2, <3>3 DEF HeaderIn, HeaderSize
  <2>5. QED
    BY <1>1, <1>4, <2>1, <2>2, <2>3, <2>4 DEF InLoop
<1>7. InLoop(hs, k, arrived, r) /\ Done(arrived, r)
  BY <1>1, <1>3, <1>6, LoopKeeps
<1> HIDE DEF r
<1>8. PICK m \in k .. Len(hs) :
        /\ r.headers = SubSeq(hs, k + 1, m)
        /\ r.pos + r.body = Len(OnTheWire(First(hs, m)))
        /\ m > 0 => HeaderIn(hs, m, r.pos)
  BY <1>7 DEF InLoop
<1>9. StandsAt(hs, r.pos, r.body, m)
  <2>1. r.pos \in Nat /\ r.body \in Nat /\ r.pos <= arrived
    BY <1>7 DEF InLoop
  <2>2. m \in 0 .. Len(hs) /\ r.pos <= Len(OnTheWire(hs))
    BY <1>1, <1>2, <1>3, <2>1
  <2>3. QED
    BY <1>8, <2>1, <2>2 DEF StandsAt
<1>10. r.pos <= arrived /\ Done(arrived, r)
  BY <1>7 DEF InLoop
<1>11. QED
  BY <1>5, <1>8, <1>9, <1>10

(* A stream that gets longer leaves its reader where it stands.            *)
LEMMA StandsStill ==
  ASSUME NEW hs \in Seq(Header), NEW more \in Seq(Header), NEW p, NEW body, NEW k,
         StandsAt(hs, p, body, k)
  PROVE  /\ StandsAt(hs \o more, p, body, k)
         /\ First(hs \o more, k) = First(hs, k)
<1>1. /\ k \in 0 .. Len(hs) /\ p \in Nat /\ body \in Nat
      /\ p + body = Len(OnTheWire(First(hs, k))) /\ p <= Len(OnTheWire(hs))
      /\ k > 0 => HeaderIn(hs, k, p)
  BY DEF StandsAt
<1> DEFINE all == hs \o more
<1>2. /\ all \in Seq(Header) /\ Len(all) = Len(hs) + Len(more)
      /\ \A i \in 1 .. Len(hs) + Len(more) :
           all[i] = IF i <= Len(hs) THEN hs[i] ELSE more[i - Len(hs)]
  BY ConcatProperties
<1>3. Len(OnTheWire(all)) = Len(OnTheWire(hs)) + Len(OnTheWire(more))
  <2>1. OnTheWire(all) = OnTheWire(hs) \o OnTheWire(more)
    BY WireConcat
  <2>2. QED
    BY <2>1, WireWords, ConcatProperties
<1> HIDE DEF all
<1>4. k \in 0 .. Len(all) /\ k <= Len(hs) /\ Len(hs) \in Nat /\ Len(more) \in Nat
  BY <1>1, <1>2
<1>5. ASSUME NEW i \in 0 .. k PROVE First(all, i) = First(hs, i)
  <2>1. i \in 0 .. Len(hs) /\ i \in 0 .. Len(all)
    BY <1>4
  <2>2. /\ First(hs, i) \in Seq(Header) /\ Len(First(hs, i)) = i
        /\ \A j \in 1 .. i : First(hs, i)[j] = hs[j]
    BY <2>1, FirstOnes
  <2>3. /\ First(all, i) \in Seq(Header) /\ Len(First(all, i)) = i
        /\ \A j \in 1 .. i : First(all, i)[j] = all[j]
    BY <1>2, <2>1, FirstOnes
  <2>4. \A j \in 1 .. i : all[j] = hs[j]
    BY <1>2, <1>4, <2>1
  <2>5. QED
    BY <2>2, <2>3, <2>4, SeqEqual
<1>6. p <= Len(OnTheWire(all))
  BY <1>1, <1>3, WireWords
<1>7. First(all, k) = First(hs, k)
  BY <1>1, <1>5
<1>8. k > 0 => HeaderIn(all, k, p)
  <2>1. SUFFICES ASSUME k > 0 PROVE HeaderIn(all, k, p)
    OBVIOUS
  <2>2. First(all, k - 1) = First(hs, k - 1)
    BY <1>1, <1>5, <2>1
  <2>3. QED
    BY <1>1, <2>1, <2>2 DEF HeaderIn
<1>9. StandsAt(all, p, body, k)
  BY <1>1, <1>4, <1>6, <1>7, <1>8 DEF StandsAt
<1>10. QED
  BY <1>7, <1>9 DEF all

(* Further headers are further on the wire.                                *)
LEMMA WireGrows ==
  ASSUME NEW hs \in Seq(Header), NEW k \in 0 .. Len(hs), NEW m \in k .. Len(hs)
  PROVE  /\ Len(OnTheWire(First(hs, k))) \in Nat /\ Len(OnTheWire(First(hs, m))) \in Nat
         /\ Len(OnTheWire(First(hs, k))) <= Len(OnTheWire(First(hs, m)))
         /\ k < m => Len(OnTheWire(First(hs, k))) + HeaderSize <= Len(OnTheWire(First(hs, m)))
<1> DEFINE w(n) == Len(OnTheWire(First(hs, n)))
           Good == { n \in Nat : k + n <= Len(hs) =>
                       w(k) + HeaderSize * n <= w(k + n) }
<1>1. ASSUME NEW n \in 0 .. Len(hs) PROVE w(n) \in Nat
  BY FirstOnes, WireWords
<1>2. ASSUME NEW n \in 0 .. Len(hs), n < Len(hs) PROVE w(n) + HeaderSize <= w(n + 1)
  <2>1. /\ hs[n + 1] \in Header
        /\ Len(OnTheWire(First(hs, n + 1))) =
             Len(OnTheWire(First(hs, n))) + HeaderSize + hs[n + 1].length
    BY <1>2, NextOnTheWire
  <2>2. hs[n + 1].length \in Nat
    BY <2>1 DEF Header
  <2>3. w(n) \in Nat /\ w(n + 1) = w(n) + HeaderSize + hs[n + 1].length
    BY <1>1, <2>1
  <2> HIDE DEF w
  <2>4. QED
    BY <2>2, <2>3 DEF HeaderSize
<1> HIDE DEF w
<1>3. 0 \in Good
  BY <1>1 DEF HeaderSize
<1>4. ASSUME NEW n \in Nat, n \in Good PROVE n + 1 \in Good
  <2>1. SUFFICES ASSUME k + (n + 1) <= Len(hs) PROVE w(k) + HeaderSize * (n + 1) <= w(k + (n + 1))
    OBVIOUS
  <2>2. w(k) + 3 * n <= w(k + n)
    BY <1>4, <2>1 DEF HeaderSize
  <2>3. k + n \in 0 .. Len(hs) /\ k + n < Len(hs) /\ k + (n + 1) = (k + n) + 1
    BY <2>1
  <2>4. w(k + n) + 3 <= w(k + (n + 1))
    BY <1>2, <2>3 DEF HeaderSize
  <2>5. w(k) \in Nat /\ w(k + n) \in Nat /\ w(k + (n + 1)) \in Nat
    BY <1>1, <2>1, <2>3
  <2>6. QED
    BY <2>2, <2>4, <2>5 DEF HeaderSize
<1> HIDE DEF Good
<1>5. m - k \in Good
  <2>1. m - k \in Nat
    OBVIOUS
  <2>2. QED
    BY <1>3, <1>4, <2>1, SetInduction
<1>6. w(k) + 3 * (m - k) <= w(m)
  <2>1. k + (m - k) = m
    OBVIOUS
  <2>2. QED
    BY <1>5, <2>1 DEF Good, HeaderSize
<1>7. w(k) \in Nat /\ w(m) \in Nat
  BY <1>1
<1>8. w(k) <= w(m) /\ (k < m => w(k) + HeaderSize <= w(m))
  BY <1>6, <1>7 DEF HeaderSize
<1>9. QED
  BY <1>7, <1>8 DEF w

(* A reader that has done with a delivery has decoded what is in it.       *)
LEMMA AllDecoded ==
  ASSUME NEW hs \in Seq(Header), NEW p, NEW body, NEW k, StandsAt(hs, p, body, k),
         NEW arrived \in Nat, p <= arrived, arrived - p < HeaderSize
  PROVE  Cardinality(HeadersIn(hs, arrived)) = k
<1>1. /\ k \in 0 .. Len(hs) /\ p \in Nat /\ body \in Nat
      /\ p + body = Len(OnTheWire(First(hs, k)))
      /\ k > 0 => HeaderIn(hs, k, p)
  BY DEF StandsAt
<1>2. ASSUME NEW i \in 1 .. Len(hs)
      PROVE  HeaderIn(hs, i, arrived) <=> i <= k
  <2> DEFINE w(n) == Len(OnTheWire(First(hs, n)))
  <2>1. i - 1 \in 0 .. Len(hs) /\ i - 1 \in Nat
    OBVIOUS
  <2>2. CASE i <= k
    <3>1. k > 0 /\ k - 1 \in i - 1 .. Len(hs) /\ k - 1 \in 0 .. Len(hs)
      BY <1>1, <2>2
    <3>2. w(k - 1) + HeaderSize <= p
      BY <1>1, <3>1 DEF HeaderIn
    <3>3. w(i - 1) \in Nat /\ w(k - 1) \in Nat /\ w(i - 1) <= w(k - 1)
      BY <2>1, <3>1, WireGrows
    <3> HIDE DEF w
    <3>4. w(i - 1) + HeaderSize <= arrived
      BY <1>1, <3>2, <3>3 DEF HeaderSize
    <3>5. QED
      BY <2>2, <3>4 DEF HeaderIn, w
  <2>3. CASE ~ (i <= k)
    <3>1. i - 1 \in k .. Len(hs)
      BY <1>1, <2>3
    <3>2. w(k) \in Nat /\ w(i - 1) \in Nat /\ w(k) <= w(i - 1) /\ p <= w(k)
      <4>1. w(k) \in Nat /\ w(i - 1) \in Nat /\ w(k) <= w(i - 1)
        BY <1>1, <3>1, WireGrows
      <4>2. p + body = w(k)
        BY <1>1
      <4> HIDE DEF w
      <4>3. QED
        BY <1>1, <4>1, <4>2
    <3> HIDE DEF w
    <3>3. ~ (w(i - 1) + HeaderSize <= arrived)
      BY <1>1, <3>2 DEF HeaderSize
    <3>4. QED
      BY <2>3, <3>3 DEF HeaderIn, w
  <2>4. QED
    BY <2>2, <2>3
<1>3. HeadersIn(hs, arrived) = 1 .. k
  <2>1. DOMAIN hs = 1 .. Len(hs)
    OBVIOUS
  <2>2. HeadersIn(hs, arrived) = { i \in 1 .. Len(hs) : HeaderIn(hs, i, arrived) }
    BY <2>1 DEF HeadersIn, HeaderIn, First
  <2>3. HeadersIn(hs, arrived) = { i \in 1 .. Len(hs) : i <= k }
    BY <1>2, <2>2
  <2>4. QED
    BY <1>1, <2>3
<1>4. Cardinality(1 .. k) = k
  <2>1. k \in Int /\ 1 \in Int
    BY <1>1
  <2>2. Cardinality(1 .. k) = IF 1 > k THEN 0 ELSE k - 1 + 1
    BY <2>1, FS_Interval
  <2>3. QED
    BY <1>1, <2>2
<1>5. QED
  BY <1>3, <1>4
-----------------------------------------------------------------------------
(* The packets that a buffer takes.                                        *)
LEMMA KeptEmpty == \A taken : Kept(<< >>, taken) = << >>
<1>1. ASSUME NEW taken
      PROVE  [i \in DOMAIN << >> |-> IF i \in taken THEN << << >>[i] >> ELSE << >>] = << >>
  OBVIOUS
<1>2. QED
  BY <1>1, FlattenSeqEmpty DEF Kept

LEMMA KeptAppend ==
  ASSUME NEW hs \in Seq(Header), NEW h \in Header, NEW taken
  PROVE  /\ Kept(hs, taken) \in Seq(Header)
         /\ Kept(Append(hs, h), taken) =
              Kept(hs, taken) \o IF Len(hs) + 1 \in taken THEN << h >> ELSE << >>
<1> DEFINE parts(q) == [i \in DOMAIN q |-> IF i \in taken THEN << q[i] >> ELSE << >>]
           n == Len(hs)
           longer == Append(hs, h)
           last == IF n + 1 \in taken THEN << h >> ELSE << >>
<1>1. n \in Nat /\ DOMAIN hs = 1 .. n
  OBVIOUS
<1>2. /\ longer \in Seq(Header) /\ Len(longer) = n + 1 /\ DOMAIN longer = 1 .. n + 1
      /\ longer[n + 1] = h /\ \A i \in 1 .. n : longer[i] = hs[i]
  BY AppendProperties
<1>3. \A g \in Header : << g >> \in Seq(Header)
  OBVIOUS
<1>4. << >> \in Seq(Header) /\ last \in Seq(Header)
  OBVIOUS
<1> HIDE DEF last
<1>5. parts(hs) \in Seq(Seq(Header)) /\ Len(parts(hs)) = n
  BY <1>1, <1>3, <1>4
<1>6. parts(longer) = Append(parts(hs), last)
  <2> HIDE DEF n, longer
  <2>1. parts(longer) \in Seq(Seq(Header)) /\ Len(parts(longer)) = n + 1
    BY <1>1, <1>2, <1>3, <1>4
  <2>2. \A i \in 1 .. n : parts(longer)[i] = parts(hs)[i]
    BY <1>1, <1>2
  <2>3. parts(longer)[n + 1] = last
    BY <1>1, <1>2 DEF last
  <2> DEFINE one == parts(longer)
             two == Append(parts(hs), last)
  <2>4. /\ two \in Seq(Seq(Header)) /\ Len(two) = n + 1
        /\ \A i \in 1 .. n : two[i] = parts(hs)[i]
        /\ two[n + 1] = last
    <3> DEFINE few == parts(hs)
    <3>1. few \in Seq(Seq(Header)) /\ Len(few) = n
      BY <1>5
    <3> HIDE DEF few
    <3>2. QED
      BY <1>4, <3>1, AppendProperties DEF few
  <2>5. \A i \in 1 .. n + 1 : one[i] = two[i]
    <3> HIDE DEF two
    <3>1. \A i \in 1 .. n + 1 : i \in 1 .. n \/ i = n + 1
      BY <1>1
    <3>2. QED
      BY <2>2, <2>3, <2>4, <3>1
  <2> HIDE DEF one, two, parts
  <2>6. one = two
    BY <2>1, <2>4, <2>5, SeqEqual DEF one
  <2>7. QED
    BY <2>6 DEF one, two
<1> HIDE DEF parts
<1>7. /\ FlattenSeq(parts(hs)) \in Seq(Header)
      /\ FlattenSeq(Append(parts(hs), last)) = FlattenSeq(parts(hs)) \o last
  BY <1>4, <1>5, FlattenSeqAppend
<1>8. Kept(hs, taken) = FlattenSeq(parts(hs)) /\ Kept(longer, taken) = FlattenSeq(parts(longer))
  BY DEF Kept, parts
<1>9. QED
  BY <1>6, <1>7, <1>8 DEF last

(* They are some of the headers, in their order.                           *)
SomeOf(some, hs) ==
  /\ some \in Seq(Header) /\ Len(some) <= Len(hs)
  /\ \A i \in DOMAIN some : \E j \in DOMAIN hs : some[i] = hs[j]
  /\ Rising(hs) => Rising(some)

LEMMA SomeOfMore ==
  ASSUME NEW some, NEW hs \in Seq(Header), NEW h \in Header, SomeOf(some, hs)
  PROVE  SomeOf(some, Append(hs, h)) /\ SomeOf(some \o << h >>, Append(hs, h))
<1> DEFINE all == Append(hs, h)
           more == some \o << h >>
           n == Len(hs)
           l == Len(some)
<1>1. /\ some \in Seq(Header) /\ l \in Nat /\ n \in Nat /\ l <= n
      /\ DOMAIN some = 1 .. l /\ DOMAIN hs = 1 .. n
      /\ \A i \in 1 .. l : \E j \in 1 .. n : some[i] = hs[j]
      /\ Rising(hs) => Rising(some)
  BY DEF SomeOf
<1>2. /\ all \in Seq(Header) /\ Len(all) = n + 1 /\ DOMAIN all = 1 .. n + 1
      /\ all[n + 1] = h /\ \A i \in 1 .. n : all[i] = hs[i]
  BY AppendProperties
<1>3. /\ more \in Seq(Header) /\ Len(more) = l + 1 /\ DOMAIN more = 1 .. l + 1
      /\ more[l + 1] = h /\ \A i \in 1 .. l : more[i] = some[i]
  <2>1. more = Append(some, h)
    BY <1>1, AppendIsConcat
  <2> HIDE DEF more
  <2>2. QED
    BY <1>1, <2>1, AppendProperties
<1> HIDE DEF all, more, n, l
<1>4. Rising(all) => Rising(hs)
  BY SMTT(30), <1>1, <1>2 DEF Rising
<1>5. SomeOf(some, all)
  <2>1. \A i \in 1 .. l : \E j \in 1 .. n + 1 : some[i] = all[j]
    BY <1>1, <1>2
  <2>2. Len(some) <= Len(all)
    BY <1>1, <1>2 DEF l
  <2>3. QED
    BY <1>1, <1>2, <1>4, <2>1, <2>2 DEF SomeOf
<1>6. SomeOf(more, all)
  <2>1. ASSUME NEW i \in 1 .. l + 1
        PROVE  \E j \in 1 .. n + 1 : more[i] = all[j] /\ (i <= l => j <= n)
    <3>1. CASE i \in 1 .. l
      BY <1>1, <1>2, <1>3, <3>1
    <3>2. CASE i = l + 1
      BY <1>1, <1>2, <1>3, <3>2
    <3>3. QED
      BY <1>1, <3>1, <3>2
  <2>2. ASSUME Rising(all), NEW i \in 1 .. l + 1, NEW j \in 1 .. l + 1,
               i < j, more[i].id = more[j].id
        PROVE  more[i].seq < more[j].seq
    <3>1. CASE j \in 1 .. l
      <4>1. i \in 1 .. l
        BY <1>1, <2>2, <3>1
      <4>2. Rising(some)
        BY <1>1, <1>4, <2>2
      <4>3. QED
        BY <1>1, <1>3, <2>2, <3>1, <4>1, <4>2 DEF Rising
    <3>2. CASE j = l + 1
      <4>1. PICK k \in 1 .. n : more[i] = all[k]
        <5>1. i <= l
          BY <1>1, <2>2, <3>2
        <5>2. PICK k \in 1 .. n + 1 : more[i] = all[k] /\ (i <= l => k <= n)
          BY <2>1
        <5>3. k \in 1 .. n
          BY <1>1, <5>1, <5>2
        <5>4. QED
          BY <5>2, <5>3
      <4>2. more[j] = all[n + 1]
        BY <1>2, <1>3, <3>2
      <4>3. k \in DOMAIN all /\ n + 1 \in DOMAIN all /\ k < n + 1
        BY <1>1, <1>2, <4>1
      <4>4. QED
        BY <2>2, <4>1, <4>2, <4>3 DEF Rising
    <3>3. QED
      BY <1>1, <3>1, <3>2
  <2>3. Rising(all) => Rising(more)
    BY <1>3, <2>2 DEF Rising
  <2>4. Len(more) <= Len(all)
    BY <1>1, <1>2, <1>3
  <2>5. \A i \in DOMAIN more : \E j \in DOMAIN all : more[i] = all[j]
    BY <1>2, <1>3, <2>1, Zenon
  <2>6. QED
    BY <1>3, <2>3, <2>4, <2>5 DEF SomeOf
<1>7. QED
  BY <1>5, <1>6 DEF all, more

LEMMA KeptOnes ==
  ASSUME NEW hs \in Seq(Header), NEW taken
  PROVE  SomeOf(Kept(hs, taken), hs)
<1> DEFINE Good == { n \in Nat : n <= Len(hs) =>
                       SomeOf(Kept(First(hs, n), taken), First(hs, n)) }
<1>1. 0 \in Good
  <2>1. First(hs, 0) = << >> /\ Kept(<< >>, taken) = << >>
    BY FirstNone, KeptEmpty
  <2>2. SomeOf(<< >>, << >>)
    BY DEF SomeOf, Rising
  <2>3. QED
    BY <2>1, <2>2
<1>2. ASSUME NEW n \in Nat, n \in Good PROVE n + 1 \in Good
  <2>1. SUFFICES ASSUME n + 1 <= Len(hs)
                 PROVE  SomeOf(Kept(First(hs, n + 1), taken), First(hs, n + 1))
    OBVIOUS
  <2>2. n \in 0 .. Len(hs) /\ n < Len(hs) /\ hs[n + 1] \in Header
    BY <2>1
  <2> DEFINE few == First(hs, n)
             h == hs[n + 1]
  <2>3. few \in Seq(Header)
    BY <2>2, FirstOnes
  <2>4. First(hs, n + 1) = Append(few, h)
    <3>1. 0 \in 0 .. Len(hs) /\ n \in 0 .. Len(hs)
      BY <2>2
    <3>2. SubSeq(hs, 0 + 1, n + 1) = Append(SubSeq(hs, 0 + 1, n), hs[n + 1])
      BY <2>2, <3>1, OneMore
    <3>3. QED
      BY <3>2 DEF First
  <2>5. SomeOf(Kept(few, taken), few)
    BY <1>2, <2>2
  <2>6. h \in Header
    BY <2>2
  <2> HIDE DEF few, h
  <2>7. /\ Kept(few, taken) \in Seq(Header)
        /\ Kept(Append(few, h), taken) =
             Kept(few, taken) \o IF Len(few) + 1 \in taken THEN << h >> ELSE << >>
    BY <2>3, <2>6, KeptAppend
  <2>8. /\ SomeOf(Kept(few, taken), Append(few, h))
        /\ SomeOf(Kept(few, taken) \o << h >>, Append(few, h))
    BY <2>3, <2>5, <2>6, SomeOfMore
  <2>9. Kept(few, taken) \o << >> = Kept(few, taken)
    BY <2>7, ConcatEmptySeq
  <2>10. QED
    BY <2>4, <2>7, <2>8, <2>9
<1> HIDE DEF Good
<1>3. \A n \in Nat : n \in Good
  BY <1>1, <1>2, SetInduction
<1>4. Len(hs) \in Good
  BY <1>3
<1>5. First(hs, Len(hs)) = hs
  BY FirstAll
<1>6. QED
  BY <1>4, <1>5 DEF Good

(* What follows later has higher numbers.                                  *)
LEMMA RisingConcat ==
  ASSUME NEW s \in Seq(Header), NEW t \in Seq(Header), Rising(s), Rising(t),
         \A i \in DOMAIN s : \A j \in DOMAIN t :
           s[i].id = t[j].id => s[i].seq < t[j].seq
  PROVE  /\ Rising(s \o t)
         /\ s \o t \in Seq(Header) /\ Len(s \o t) = Len(s) + Len(t)
         /\ \A i \in DOMAIN (s \o t) :
              \/ i \in DOMAIN s /\ (s \o t)[i] = s[i]
              \/ i - Len(s) \in DOMAIN t /\ (s \o t)[i] = t[i - Len(s)] /\ i > Len(s)
<1> DEFINE st == s \o t
           l == Len(s)
           n == Len(t)
<1>1. l \in Nat /\ n \in Nat /\ DOMAIN s = 1 .. l /\ DOMAIN t = 1 .. n
  OBVIOUS
<1>2. /\ st \in Seq(Header) /\ Len(st) = l + n /\ DOMAIN st = 1 .. l + n
      /\ \A i \in 1 .. l + n : st[i] = IF i <= l THEN s[i] ELSE t[i - l]
  BY ConcatProperties
<1> HIDE DEF st
<1>3. ASSUME NEW i \in DOMAIN st
      PROVE  \/ i \in DOMAIN s /\ st[i] = s[i]
             \/ i - l \in DOMAIN t /\ st[i] = t[i - l] /\ i > l
  BY <1>1, <1>2
<1>4. ASSUME NEW i \in DOMAIN st, NEW j \in DOMAIN st, i < j, st[i].id = st[j].id
      PROVE  st[i].seq < st[j].seq
  <2>1. CASE i \in DOMAIN s /\ st[i] = s[i]
    <3>1. CASE j \in DOMAIN s /\ st[j] = s[j]
      BY <1>4, <2>1, <3>1 DEF Rising
    <3>2. CASE j - l \in DOMAIN t /\ st[j] = t[j - l]
      BY <1>4, <2>1, <3>2
    <3>3. QED
      BY <1>3, <3>1, <3>2
  <2>2. CASE i - l \in DOMAIN t /\ st[i] = t[i - l] /\ i > l
    <3>1. j - l \in DOMAIN t /\ st[j] = t[j - l] /\ i - l < j - l
      BY <1>1, <1>2, <1>3, <1>4, <2>2
    <3>2. QED
      BY <1>4, <2>2, <3>1 DEF Rising
  <2>3. QED
    BY <1>3, <2>1, <2>2
<1>5. Rising(st)
  BY <1>4 DEF Rising
<1>6. QED
  BY <1>2, <1>3, <1>5 DEF st

(* What is reported of some headers.                                       *)
LEMMA PairsConcat ==
  ASSUME NEW s \in Seq(Header), NEW t \in Seq(Header)
  PROVE  /\ Len(Pairs(s)) = Len(s) /\ DOMAIN Pairs(s) = DOMAIN s
         /\ Pairs(s) \in Seq([src : Sender, seq : Nat])
         /\ Pairs(s \o t) = Pairs(s) \o Pairs(t)
<1> DEFINE Pair == [src : Sender, seq : Nat]
<1>1. ASSUME NEW q \in Seq(Header)
      PROVE  /\ Pairs(q) \in Seq(Pair) /\ Len(Pairs(q)) = Len(q)
             /\ \A i \in 1 .. Len(q) : Pairs(q)[i] = [src |-> q[i].id, seq |-> q[i].seq]
  <2>1. DOMAIN q = 1 .. Len(q) /\ Len(q) \in Nat /\ \A i \in 1 .. Len(q) : q[i] \in Header
    OBVIOUS
  <2>2. \A h \in Header : [src |-> h.id, seq |-> h.seq] \in Pair
    BY DEF Header
  <2> HIDE DEF Pair
  <2>3. QED
    BY <2>1, <2>2 DEF Pairs
<1> DEFINE st == s \o t
<1>2. /\ st \in Seq(Header) /\ Len(st) = Len(s) + Len(t)
      /\ \A i \in 1 .. Len(s) + Len(t) : st[i] = IF i <= Len(s) THEN s[i] ELSE t[i - Len(s)]
  BY ConcatProperties
<1> HIDE DEF st, Pair
<1> DEFINE one == Pairs(st)
           a == Pairs(s)
           b == Pairs(t)
           two == a \o b
<1>3. /\ a \in Seq(Pair) /\ Len(a) = Len(s)
      /\ \A i \in 1 .. Len(s) : a[i] = [src |-> s[i].id, seq |-> s[i].seq]
  BY <1>1
<1>4. /\ b \in Seq(Pair) /\ Len(b) = Len(t)
      /\ \A i \in 1 .. Len(t) : b[i] = [src |-> t[i].id, seq |-> t[i].seq]
  BY <1>1
<1>5. /\ one \in Seq(Pair) /\ Len(one) = Len(st)
      /\ \A i \in 1 .. Len(st) : one[i] = [src |-> st[i].id, seq |-> st[i].seq]
  BY <1>1, <1>2
<1> HIDE DEF a, b, one
<1>6. /\ two \in Seq(Pair) /\ Len(two) = Len(a) + Len(b)
      /\ \A i \in 1 .. Len(a) + Len(b) : two[i] = IF i <= Len(a) THEN a[i] ELSE b[i - Len(a)]
  <2>1. a \in Seq(Pair) /\ b \in Seq(Pair)
    BY <1>3, <1>4
  <2>2. QED
    BY <2>1, ConcatProperties
<1> HIDE DEF two
<1>7. ASSUME NEW i \in 1 .. Len(st) PROVE one[i] = two[i]
  <2>1. Len(s) \in Nat /\ Len(t) \in Nat
    OBVIOUS
  <2>2. CASE i <= Len(s)
    <3>1. i \in 1 .. Len(s) /\ i \in 1 .. Len(s) + Len(t)
      BY <1>2, <2>1, <2>2
    <3>2. st[i] = s[i]
      BY <1>2, <2>2, <3>1
    <3>3. a[i] = [src |-> s[i].id, seq |-> s[i].seq]
      BY <1>3, <3>1
    <3>4. two[i] = a[i]
      BY <1>3, <1>4, <1>6, <2>2, <3>1
    <3>5. QED
      BY <1>5, <3>2, <3>3, <3>4
  <2>3. CASE i > Len(s)
    <3>1. i - Len(s) \in 1 .. Len(t)
      BY <1>2, <2>1, <2>3
    <3>2. b[i - Len(s)] = [src |-> t[i - Len(s)].id, seq |-> t[i - Len(s)].seq]
      BY <1>4, <3>1
    <3>3. st[i] = t[i - Len(s)]
      BY <1>2, <2>1, <2>3
    <3>4. two[i] = b[i - Len(s)]
      BY <1>2, <1>3, <1>4, <1>6, <2>1, <2>3
    <3>5. QED
      BY <1>5, <3>2, <3>3, <3>4
  <2>4. QED
    BY <2>1, <2>2, <2>3
<1>8. one = two
  BY <1>2, <1>3, <1>4, <1>5, <1>6, <1>7, SeqEqual
<1>9. QED
  BY <1>3, <1>8 DEF one, two, a, b, st, Pair
-----------------------------------------------------------------------------
(* The invariant holds in the beginning, and every action keeps it.        *)
LEMMA NothingToRead ==
  /\ StandsAt(<< >>, 0, 0, 0) /\ OnTheWire(<< >>) = << >> /\ Rising(<< >>)
  /\ First(<< >>, 0) = << >> /\ Pairs(<< >>) = << >>
<1>1. OnTheWire(<< >>) = << >> /\ First(<< >>, 0) = << >>
  BY WireEmpty, FirstNone
<1>2. StandsAt(<< >>, 0, 0, 0)
  BY <1>1 DEF StandsAt
<1>3. Rising(<< >>) /\ Pairs(<< >>) = << >>
  BY DEF Rising, Pairs
<1>4. QED
  BY <1>1, <1>2, <1>3

LEMMA FramingInit == Init => FramingInv
<1> SUFFICES ASSUME Init PROVE FramingInv
  OBVIOUS
<1>1. TypeOK
  <2>1. << >> \in Seq(Header) /\ 0 \in Nat /\ FALSE \in BOOLEAN
    OBVIOUS
  <2>2. written \in [Sender -> Seq(Header)] /\ relayed \in [Sender -> Seq(Header)]
    BY <2>1 DEF Init
  <2>3. /\ curMsgId \in [Sender -> Nat] /\ upRead \in [Sender -> Nat]
        /\ srvBody \in [Sender -> Nat] /\ DOMAIN upStream = Sender
    BY DEF Init
  <2>4. attached \in BOOLEAN /\ log \in Seq(Header) /\ passedOn \in Seq(Header)
    BY <2>1 DEF Init
  <2>5. QED
    BY <2>2, <2>3, <2>4 DEF TypeOK
<1> USE DEF Init
<1>2. UpInv
  <2>1. ASSUME NEW c \in Sender
        PROVE  /\ upStream[c] = << >> /\ written[c] = << >> /\ relayed[c] = << >>
               /\ upRead[c] = 0 /\ srvBody[c] = 0 /\ Len(relayed[c]) = 0
    OBVIOUS
  <2>2. QED
    BY <2>1, NothingToRead DEF UpInv
<1>3. DownInv
  BY NothingToRead DEF DownInv
<1>4. NumbersInv
  BY NothingToRead DEF NumbersInv
<1>5. QED
  BY <1>1, <1>2, <1>3, <1>4 DEF FramingInv

LEMMA SendKeeps ==
  ASSUME FramingInv, NEW c \in Sender, SendMessage(c)
  PROVE  FramingInv'
<1> USE DEF FramingInv
<1>1. PICK length \in BodyLengths :
        LET packet == << [id |-> c, seq |-> curMsgId[c], length |-> length] >> IN
        \E taken \in Taken(packet) :
          /\ curMsgId' = [curMsgId EXCEPT ![c] = @ + 1]
          /\ written' = [written EXCEPT ![c] = @ \o Kept(packet, taken)]
          /\ upStream' = [upStream EXCEPT ![c] = @ \o OnTheWire(Kept(packet, taken))]
          /\ UNCHANGED << upRead, srvBody, relayed, listenerVars, downVars, log, reconnects >>
  BY DEF SendMessage
<1> DEFINE h == [id |-> c, seq |-> curMsgId[c], length |-> length]
           packet == << h >>
<1>2. PICK taken \in Taken(packet) :
          /\ curMsgId' = [curMsgId EXCEPT ![c] = @ + 1]
          /\ written' = [written EXCEPT ![c] = @ \o Kept(packet, taken)]
          /\ upStream' = [upStream EXCEPT ![c] = @ \o OnTheWire(Kept(packet, taken))]
          /\ UNCHANGED << upRead, srvBody, relayed, listenerVars, downVars, log, reconnects >>
  BY <1>1
<1> DEFINE kept == Kept(packet, taken)
<1>3. h \in Header /\ h.id = c /\ h.seq = curMsgId[c] /\ curMsgId[c] \in Nat
  BY FramingAssumption DEF TypeOK, Header
<1> HIDE DEF h
<1>4. packet \in Seq(Header) /\ DOMAIN packet = {1} /\ packet[1] = h /\ Len(packet) = 1
  BY <1>3
<1>5. /\ kept \in Seq(Header) /\ Len(kept) <= 1
      /\ \A i \in DOMAIN kept : kept[i] = h
      /\ Rising(kept)
  <2>1. SomeOf(kept, packet)
    BY <1>4, KeptOnes
  <2>2. Rising(packet)
    BY <1>4 DEF Rising
  <2> HIDE DEF kept, packet
  <2>3. QED
    BY <1>4, <2>1, <2>2 DEF SomeOf
<1> HIDE DEF kept, packet
<1>6. /\ curMsgId' = [curMsgId EXCEPT ![c] = @ + 1]
      /\ written' = [written EXCEPT ![c] = @ \o kept]
      /\ upStream' = [upStream EXCEPT ![c] = @ \o OnTheWire(kept)]
      /\ UNCHANGED << upRead, srvBody, relayed, attached, downRead, cliBody, reported,
                      since, earlier, downStream, passedOn, log >>
  BY <1>2 DEF kept, listenerVars, downVars
<1>7. /\ written[c] \in Seq(Header) /\ written[c] \o kept \in Seq(Header)
      /\ written'[c] = written[c] \o kept
      /\ \A d \in Sender \ {c} : written'[d] = written[d]
      /\ upStream'[c] = upStream[c] \o OnTheWire(kept)
      /\ \A d \in Sender \ {c} : upStream'[d] = upStream[d]
      /\ curMsgId'[c] = curMsgId[c] + 1
      /\ \A d \in Sender \ {c} : curMsgId'[d] = curMsgId[d]
  <2>1. written[c] \in Seq(Header) /\ DOMAIN upStream = Sender
    BY DEF TypeOK
  <2>2. written[c] \o kept \in Seq(Header)
    BY <1>5, <2>1, ConcatProperties
  <2>3. written'[c] = written[c] \o kept /\ \A d \in Sender \ {c} : written'[d] = written[d]
    BY <1>6 DEF TypeOK
  <2>4. /\ upStream'[c] = upStream[c] \o OnTheWire(kept)
        /\ \A d \in Sender \ {c} : upStream'[d] = upStream[d]
    BY <1>6, <2>1
  <2>5. curMsgId'[c] = curMsgId[c] + 1 /\ \A d \in Sender \ {c} : curMsgId'[d] = curMsgId[d]
    BY <1>6 DEF TypeOK
  <2>6. QED
    BY <2>1, <2>2, <2>3, <2>4, <2>5
<1>8. TypeOK'
  <2>1. curMsgId' \in [Sender -> Nat]
    BY <1>3, <1>6 DEF TypeOK
  <2>2. written' \in [Sender -> Seq(Header)]
    BY <1>6, <1>7 DEF TypeOK
  <2>3. DOMAIN upStream' = Sender
    BY <1>6 DEF TypeOK
  <2>4. QED
    BY <1>6, <2>1, <2>2, <2>3 DEF TypeOK
<1>9. UpInv'
  <2>1. ASSUME NEW d \in Sender
        PROVE  /\ upStream'[d] = OnTheWire(written'[d])
               /\ relayed[d] = First(written'[d], Len(relayed[d]))
               /\ StandsAt(written'[d], upRead[d], srvBody[d], Len(relayed[d]))
    <3>1. /\ upStream[d] = OnTheWire(written[d])
          /\ relayed[d] = First(written[d], Len(relayed[d]))
          /\ StandsAt(written[d], upRead[d], srvBody[d], Len(relayed[d]))
      BY DEF UpInv
    <3>2. CASE d # c
      BY <1>7, <3>1, <3>2
    <3>3. CASE d = c
      <4>1. upStream'[c] = OnTheWire(written[c] \o kept)
        BY <1>5, <1>7, <3>1, <3>3, WireConcat
      <4>2. /\ StandsAt(written[c] \o kept, upRead[c], srvBody[c], Len(relayed[c]))
            /\ First(written[c] \o kept, Len(relayed[c])) = First(written[c], Len(relayed[c]))
        BY <1>5, <1>7, <3>1, <3>3, StandsStill
      <4>3. QED
        BY <1>7, <3>1, <3>3, <4>1, <4>2
    <3>4. QED
      BY <3>2, <3>3
  <2>2. QED
    BY <1>6, <2>1 DEF UpInv
<1>10. DownInv'
  BY <1>6 DEF DownInv, Aligned
<1>11. NumbersInv'
  <2>1. ASSUME NEW d \in Sender, NEW j \in DOMAIN written'[d]
        PROVE  \/ j \in DOMAIN written[d] /\ written'[d][j] = written[d][j]
               \/ d = c /\ written'[d][j] = h
    <3>1. CASE d # c
      BY <1>7, <3>1
    <3>2. CASE d = c
      <4> DEFINE w == written[c]
      <4>1. /\ w \in Seq(Header) /\ Len(w) \in Nat /\ Len(kept) \in Nat
            /\ DOMAIN w = 1 .. Len(w) /\ DOMAIN kept = 1 .. Len(kept)
        BY <1>5, <1>7
      <4>2. /\ DOMAIN (w \o kept) = 1 .. Len(w) + Len(kept)
            /\ \A i \in 1 .. Len(w) + Len(kept) :
                 (w \o kept)[i] = IF i <= Len(w) THEN w[i] ELSE kept[i - Len(w)]
        BY <1>5, <4>1, ConcatProperties
      <4>3. written'[d] = w \o kept
        BY <1>7, <3>2
      <4> HIDE DEF w
      <4>4. j \in 1 .. Len(w) + Len(kept)
        BY <2>1, <4>2, <4>3
      <4>5. CASE j <= Len(w)
        BY <3>2, <4>1, <4>2, <4>3, <4>4, <4>5 DEF w
      <4>6. CASE j > Len(w)
        <5>1. j - Len(w) \in DOMAIN kept
          BY <4>1, <4>4, <4>6
        <5>2. written'[d][j] = kept[j - Len(w)]
          BY <4>1, <4>2, <4>3, <4>4, <4>6
        <5>3. QED
          BY <1>5, <3>2, <5>1, <5>2
      <4>7. QED
        BY <4>1, <4>4, <4>5, <4>6
    <3>3. QED
      BY <3>1, <3>2
  <2> DEFINE Later(g) ==
        /\ g.seq < curMsgId'[g.id]
        /\ \A j \in DOMAIN written'[g.id] :
             j > Len(relayed[g.id]) => g.seq < written'[g.id][j].seq
  <2>2. ASSUME NEW g \in Header, Past(g) PROVE Later(g)
    <3>1. g.id \in Sender /\ curMsgId[g.id] \in Nat /\ g.seq \in Nat
      BY DEF Header, TypeOK
    <3>2. g.seq < curMsgId'[g.id]
      <4>1. g.seq < curMsgId[g.id]
        BY <2>2 DEF Past
      <4>2. CASE g.id = c
        BY <1>3, <1>7, <3>1, <4>1, <4>2
      <4>3. CASE g.id # c
        BY <1>7, <3>1, <4>1, <4>3
      <4>4. QED
        BY <4>2, <4>3
    <3>3. ASSUME NEW j \in DOMAIN written'[g.id], j > Len(relayed[g.id])
          PROVE  g.seq < written'[g.id][j].seq
      <4>1. CASE j \in DOMAIN written[g.id] /\ written'[g.id][j] = written[g.id][j]
        BY <2>2, <3>3, <4>1 DEF Past
      <4>2. CASE g.id = c /\ written'[g.id][j] = h
        BY <1>3, <2>2, <4>2 DEF Past
      <4>3. QED
        BY <2>1, <3>1, <4>1, <4>2
    <3>4. QED
      BY <3>2, <3>3
  <2>3. ASSUME NEW d \in Sender, NEW i \in DOMAIN written'[d]
        PROVE  written'[d][i].id = d /\ written'[d][i].seq < curMsgId'[d]
    <3>1. curMsgId[d] \in Nat
      BY DEF TypeOK
    <3>2. CASE i \in DOMAIN written[d] /\ written'[d][i] = written[d][i]
      <4>1. written[d][i].id = d /\ written[d][i].seq < curMsgId[d]
        BY <3>2 DEF NumbersInv
      <4>2. written[d][i].seq \in Nat
        <5>1. written[d] \in Seq(Header)
          BY DEF TypeOK
        <5>2. written[d][i] \in Header
          BY <3>2, <5>1
        <5>3. QED
          BY <5>2 DEF Header
      <4>3. curMsgId[d] <= curMsgId'[d] /\ curMsgId'[d] \in Nat
        BY <1>3, <1>7, <3>1
      <4>4. QED
        BY <3>1, <3>2, <4>1, <4>2, <4>3
    <3>3. CASE d = c /\ written'[d][i] = h
      BY <1>3, <1>7, <3>3
    <3>4. QED
      BY <2>1, <3>2, <3>3
  <2>4. ASSUME NEW d \in Sender PROVE Rising(written'[d])
    <3>1. Rising(written[d])
      BY DEF NumbersInv
    <3>2. CASE d # c
      BY <1>7, <3>1, <3>2
    <3>3. CASE d = c
      <4>1. \A i \in DOMAIN written[c] : \A j \in DOMAIN kept :
              written[c][i].seq < kept[j].seq
        BY <1>3, <1>5 DEF NumbersInv
      <4>2. Rising(written[c] \o kept)
        BY <1>5, <1>7, <3>1, <3>3, <4>1, RisingConcat
      <4>3. QED
        BY <1>7, <3>3, <4>2
    <3>4. QED
      BY <3>2, <3>3
  <2>5. /\ \A i \in DOMAIN log : Later(log[i])
        /\ \A i \in DOMAIN passedOn : Later(passedOn[i])
    <3>1. /\ \A i \in DOMAIN log : log[i] \in Header
          /\ \A i \in DOMAIN passedOn : passedOn[i] \in Header
      <4>1. log \in Seq(Header) /\ passedOn \in Seq(Header)
        BY DEF TypeOK
      <4>2. QED
        BY <4>1
    <3>2. /\ \A i \in DOMAIN log : Past(log[i])
          /\ \A i \in DOMAIN passedOn : Past(passedOn[i])
      BY DEF NumbersInv
    <3> HIDE DEF Later
    <3>3. QED
      BY <2>2, <3>1, <3>2
  <2>6. Rising(log) /\ Rising(passedOn)
    BY DEF NumbersInv
  <2>7. QED
    BY <1>6, <2>3, <2>4, <2>5, <2>6 DEF NumbersInv, Past
<1>12. QED
  BY <1>8, <1>9, <1>10, <1>11

(* A callback of the server relays the next m - k headers of a connection, *)
(* some of which the listener is passed on.                                *)
Relays(c, k, m, pos, body, new, some) ==
  /\ k = Len(relayed[c]) /\ k \in 0 .. Len(written[c]) /\ m \in k .. Len(written[c])
  /\ StandsAt(written[c], pos, body, m)
  /\ new \in Seq(Header) /\ Len(new) = m - k
  /\ \A i \in 1 .. m - k : new[i] = written[c][k + i]
  /\ SomeOf(some, new)
  /\ upRead' = [upRead EXCEPT ![c] = pos]
  /\ srvBody' = [srvBody EXCEPT ![c] = body]
  /\ relayed' = [relayed EXCEPT ![c] = First(written[c], m)]
  /\ log' = log \o new
  /\ passedOn' = passedOn \o some
  /\ downStream' = downStream \o OnTheWire(some)
  /\ UNCHANGED << curMsgId, upStream, written, attached, downRead, cliBody, reported,
                  since, earlier >>

LEMMA RebroadcastReads ==
  ASSUME FramingInv, NEW c \in Sender, RebroadcastIncomingMsg(c)
  PROVE  \E k, m, pos, body, new, some : Relays(c, k, m, pos, body, new, some)
<1> USE DEF FramingInv
<1>1. PICK arrived \in upRead[c] + 1 .. Len(upStream[c]) :
        LET r == Receive(upStream[c], upRead[c], arrived, srvBody[c]) IN
        /\ upRead' = [upRead EXCEPT ![c] = r.pos]
        /\ CountBody(c, r.body)
        /\ relayed' = [relayed EXCEPT ![c] = @ \o r.headers]
        /\ log' = log \o r.headers
        /\ IF attached THEN PassOn(r.headers) ELSE UNCHANGED << downVars, drops >>
        /\ UNCHANGED << curMsgId, upStream, written, listenerVars, reconnects >>
  BY DEF RebroadcastIncomingMsg
<1> DEFINE w == written[c]
           k == Len(relayed[c])
           r == Receive(upStream[c], upRead[c], arrived, srvBody[c])
<1>2. /\ upRead' = [upRead EXCEPT ![c] = r.pos]
      /\ srvBody' = [srvBody EXCEPT ![c] = r.body]
      /\ relayed' = [relayed EXCEPT ![c] = @ \o r.headers]
      /\ log' = log \o r.headers
      /\ IF attached THEN PassOn(r.headers) ELSE UNCHANGED << downVars, drops >>
      /\ UNCHANGED << curMsgId, upStream, written, attached, downRead, cliBody, reported,
                      since, earlier >>
  BY <1>1 DEF CountBody, listenerVars
<1>3. /\ w \in Seq(Header) /\ Len(w) \in Nat /\ DOMAIN w = 1 .. Len(w)
      /\ upStream[c] = OnTheWire(w) /\ relayed[c] = First(w, k)
      /\ StandsAt(w, upRead[c], srvBody[c], k)
      /\ k \in 0 .. Len(w) /\ upRead[c] \in Nat
  BY DEF UpInv, TypeOK, StandsAt
<1>4. arrived \in upRead[c] .. Len(OnTheWire(w))
  BY <1>1, <1>3, WireWords
<1>5. PICK m \in k .. Len(w) :
        r.headers = SubSeq(w, k + 1, m) /\ StandsAt(w, r.pos, r.body, m)
  <2> HIDE DEF w, k
  <2>1. QED
    BY <1>3, <1>4, ReceiveReads
<1> DEFINE new == r.headers
<1>6. m \in 0 .. Len(w) /\ r.pos \in Nat /\ r.body \in Nat
  BY <1>3, <1>5 DEF StandsAt
<1> HIDE DEF w, k, r
<1>7. /\ new \in Seq(Header) /\ Len(new) = m - k
      /\ \A i \in 1 .. m - k : new[i] = w[k + i]
      /\ First(w, m) = First(w, k) \o new
  <2>1. new = SubSeq(w, k + 1, m)
    BY <1>5
  <2> HIDE DEF new
  <2>2. QED
    BY <1>3, <2>1, FirstAndRest
<1> HIDE DEF new
<1>8. /\ relayed' = [relayed EXCEPT ![c] = First(w, m)] /\ log' = log \o new
      /\ First(w, m) \in Seq(Header) /\ Len(First(w, m)) = m
  <2>1. relayed[c] \o r.headers = First(w, m)
    BY <1>3, <1>7 DEF new
  <2>2. First(w, m) \in Seq(Header) /\ Len(First(w, m)) = m
    BY <1>3, <1>6, FirstOnes
  <2>3. QED
    BY <1>2, <2>1, <2>2 DEF new
<1>9. log \in Seq(Header) /\ passedOn \in Seq(Header) /\ relayed \in [Sender -> Seq(Header)]
  BY DEF TypeOK
<1>10. PICK some :
         /\ SomeOf(some, new)
         /\ passedOn' = passedOn \o some
         /\ downStream' = downStream \o OnTheWire(some)
  <2>1. CASE attached
    <3>1. PICK taken \in Taken(new) :
            /\ passedOn' = passedOn \o Kept(new, taken)
            /\ downStream' = downStream \o OnTheWire(Kept(new, taken))
      BY <1>2, <2>1 DEF PassOn, new
    <3>2. SomeOf(Kept(new, taken), new)
      BY <1>7, KeptOnes
    <3>3. QED
      BY <3>1, <3>2
  <2>2. CASE ~ attached
    <3>1. downStream = OnTheWire(passedOn)
      BY DEF DownInv
    <3>2. downStream \o << >> = downStream /\ passedOn \o << >> = passedOn
      BY <1>9, <3>1, WireWords, ConcatEmptySeq
    <3>3. SomeOf(<< >>, new)
      BY <1>7 DEF SomeOf, Rising
    <3>4. passedOn' = passedOn \o << >> /\ downStream' = downStream \o OnTheWire(<< >>)
      BY <1>2, <2>2, <3>2, WireEmpty DEF downVars
    <3>5. QED
      BY <3>3, <3>4
  <2>3. QED
    BY <2>1, <2>2
<1>11. Relays(c, k, m, r.pos, r.body, new, some)
  BY <1>2, <1>3, <1>5, <1>7, <1>8, <1>10 DEF Relays, k, w
<1>12. QED
  BY <1>11

LEMMA RebroadcastKeeps ==
  ASSUME FramingInv, NEW c \in Sender, RebroadcastIncomingMsg(c)
  PROVE  FramingInv'
<1> USE DEF FramingInv
<1>1. PICK k, m, pos, body, new, some : Relays(c, k, m, pos, body, new, some)
  BY RebroadcastReads
<1> DEFINE w == written[c]
<1>2. /\ upRead' = [upRead EXCEPT ![c] = pos]
      /\ srvBody' = [srvBody EXCEPT ![c] = body]
      /\ UNCHANGED << curMsgId, upStream, written, attached, downRead, cliBody, reported,
                      since, earlier >>
  BY <1>1 DEF Relays
<1>3. /\ w \in Seq(Header) /\ Len(w) \in Nat /\ DOMAIN w = 1 .. Len(w)
      /\ upStream[c] = OnTheWire(w)
      /\ k \in 0 .. Len(w) /\ k = Len(relayed[c])
  BY <1>1 DEF UpInv, TypeOK, Relays
<1>5. m \in k .. Len(w) /\ StandsAt(w, pos, body, m)
  BY <1>1 DEF Relays
<1> HIDE DEF w
<1>6. m \in 0 .. Len(w) /\ pos \in Nat /\ body \in Nat
  BY <1>3, <1>5 DEF StandsAt
<1>7. /\ new \in Seq(Header) /\ Len(new) = m - k
      /\ \A i \in 1 .. m - k : new[i] = w[k + i]
  BY <1>1 DEF Relays, w
<1>8. /\ relayed' = [relayed EXCEPT ![c] = First(w, m)] /\ log' = log \o new
      /\ First(w, m) \in Seq(Header) /\ Len(First(w, m)) = m
  <2>1. First(w, m) \in Seq(Header) /\ Len(First(w, m)) = m
    BY <1>3, <1>6, FirstOnes
  <2>2. QED
    BY <1>1, <2>1 DEF Relays, w
<1>9. log \in Seq(Header) /\ passedOn \in Seq(Header) /\ relayed \in [Sender -> Seq(Header)]
  BY DEF TypeOK
<1>10. /\ SomeOf(some, new)
       /\ passedOn' = passedOn \o some
       /\ downStream' = downStream \o OnTheWire(some)
  BY <1>1 DEF Relays
<1>11. some \in Seq(Header) /\ \A i \in DOMAIN some : \E j \in DOMAIN new : some[i] = new[j]
  BY <1>10 DEF SomeOf
<1>12. log \o new \in Seq(Header) /\ passedOn \o some \in Seq(Header)
  BY <1>7, <1>9, <1>11, ConcatProperties
<1>13. TypeOK'
  <2>1. relayed' \in [Sender -> Seq(Header)]
    BY <1>8, <1>9
  <2>2. upRead' \in [Sender -> Nat] /\ srvBody' \in [Sender -> Nat]
    BY <1>2, <1>6 DEF TypeOK
  <2>3. log' \in Seq(Header) /\ passedOn' \in Seq(Header)
    BY <1>8, <1>10, <1>12
  <2>4. QED
    BY <1>2, <2>1, <2>2, <2>3 DEF TypeOK
<1>14. UpInv'
  <2>1. ASSUME NEW d \in Sender
        PROVE  /\ upStream[d] = OnTheWire(written[d])
               /\ relayed'[d] = First(written[d], Len(relayed'[d]))
               /\ StandsAt(written[d], upRead'[d], srvBody'[d], Len(relayed'[d]))
    <3>1. CASE d # c
      <4>1. relayed'[d] = relayed[d] /\ upRead'[d] = upRead[d] /\ srvBody'[d] = srvBody[d]
        BY <1>2, <1>8, <3>1 DEF TypeOK
      <4>2. QED
        BY <4>1 DEF UpInv
    <3>2. CASE d = c
      <4>1. relayed'[c] = First(w, m) /\ upRead'[c] = pos /\ srvBody'[c] = body
        BY <1>2, <1>8 DEF TypeOK
      <4>2. QED
        BY <1>3, <1>5, <1>8, <3>2, <4>1 DEF w
    <3>3. QED
      BY <3>1, <3>2
  <2>2. QED
    BY <1>2, <2>1 DEF UpInv
<1>15. DownInv'
  <2>1. downStream' = OnTheWire(passedOn')
    <3>1. downStream = OnTheWire(passedOn)
      BY DEF DownInv
    <3>2. QED
      BY <1>9, <1>10, <1>11, <3>1, WireConcat
  <2>2. ~ attached' => reported' = << >>
    BY <1>2 DEF DownInv
  <2>3. ASSUME attached, Aligned
        PROVE  /\ reported = Pairs(First(passedOn', Len(reported)))
               /\ StandsAt(passedOn', downRead, cliBody, Len(reported))
    <3>1. /\ reported = Pairs(First(passedOn, Len(reported)))
          /\ StandsAt(passedOn, downRead, cliBody, Len(reported))
      BY <2>3 DEF DownInv
    <3>2. /\ StandsAt(passedOn \o some, downRead, cliBody, Len(reported))
          /\ First(passedOn \o some, Len(reported)) = First(passedOn, Len(reported))
      BY <1>9, <1>11, <3>1, StandsStill
    <3>3. QED
      BY <1>10, <3>1, <3>2
  <2>4. QED
    BY <1>2, <2>1, <2>2, <2>3 DEF DownInv, Aligned
<1>16. NumbersInv'
  <2> DEFINE Later(g) ==
        /\ g.seq < curMsgId[g.id]
        /\ \A j \in DOMAIN written[g.id] :
             j > Len(relayed'[g.id]) => g.seq < written[g.id][j].seq
  <2>1. /\ Len(relayed'[c]) = m /\ Len(relayed[c]) = k
        /\ \A d \in Sender \ {c} : relayed'[d] = relayed[d]
    BY <1>3, <1>8, <1>9
  <2>2. ASSUME NEW g \in Header, Past(g) PROVE Later(g)
    <3>1. g.id \in Sender
      BY DEF Header
    <3>2. \A j \in DOMAIN w : j > m => j > k
      BY <1>3, <1>5
    <3>3. CASE g.id = c
      BY <2>1, <2>2, <3>2, <3>3 DEF Past, w
    <3>4. CASE g.id # c
      BY <2>1, <2>2, <3>1, <3>4 DEF Past
    <3>5. QED
      BY <3>3, <3>4
  <2>3. Rising(w) /\ \A i \in DOMAIN w : w[i].id = c /\ w[i].seq < curMsgId[c]
    BY DEF NumbersInv, w
  <2>4. ASSUME NEW i \in DOMAIN new
        PROVE  /\ k + i \in DOMAIN w /\ k + i > k /\ k + i <= m
               /\ new[i] = w[k + i] /\ new[i].id = c /\ new[i] \in Header
    <3>1. i \in 1 .. m - k
      BY <1>7
    <3>2. k + i \in DOMAIN w /\ k + i > k /\ k + i <= m
      BY <1>3, <1>6, <3>1
    <3>3. new[i] \in Header
      BY <1>7
    <3>4. QED
      BY <1>7, <2>3, <3>1, <3>2, <3>3
  <2>5. ASSUME NEW i \in DOMAIN new PROVE Later(new[i])
    <3>1. k + i \in DOMAIN w /\ k + i <= m /\ new[i] = w[k + i] /\ new[i].id = c
      BY <2>4
    <3>2. ASSUME NEW j \in DOMAIN w, j > m PROVE w[k + i].seq < w[j].seq
      <4>1. k + i < j
        BY <1>3, <1>6, <3>1, <3>2
      <4>2. w[k + i].id = w[j].id
        BY <2>3, <3>1
      <4>3. QED
        BY <2>3, <3>1, <4>1, <4>2 DEF Rising
    <3>3. new[i].seq < curMsgId[c]
      BY <2>3, <3>1
    <3>4. QED
      BY <2>1, <3>1, <3>2, <3>3 DEF w
  <2>6. Rising(new)
    <3>1. ASSUME NEW i \in DOMAIN new, NEW j \in DOMAIN new, i < j
          PROVE  new[i].seq < new[j].seq
      <4>1. k + i \in DOMAIN w /\ new[i] = w[k + i] /\ k + j \in DOMAIN w /\ new[j] = w[k + j]
        BY <2>4
      <4>2. k + i < k + j
        BY <1>3, <1>7, <3>1
      <4>3. QED
        BY <2>3, <4>1, <4>2 DEF Rising
    <3>2. QED
      BY <3>1 DEF Rising
  <2> HIDE DEF Later
  <2>7. ASSUME NEW old \in Seq(Header), NEW more, SomeOf(more, new),
               Rising(old), \A i \in DOMAIN old : Past(old[i])
        PROVE  /\ Rising(old \o more)
               /\ \A i \in DOMAIN (old \o more) : Later((old \o more)[i])
    <3>1. /\ more \in Seq(Header) /\ Rising(more)
          /\ \A i \in DOMAIN more : \E j \in DOMAIN new : more[i] = new[j]
      BY <2>6, <2>7 DEF SomeOf
    <3>2. ASSUME NEW i \in DOMAIN old, NEW j \in DOMAIN more, old[i].id = more[j].id
          PROVE  old[i].seq < more[j].seq
      <4>1. PICK l \in DOMAIN new : more[j] = new[l]
        BY <3>1
      <4>2. k + l \in DOMAIN w /\ k + l > k /\ new[l] = w[k + l] /\ new[l].id = c
        BY <2>4
      <4>3. Past(old[i])
        BY <2>7
      <4>4. QED
        BY <2>1, <3>2, <4>1, <4>2, <4>3 DEF Past, w
    <3>3. /\ Rising(old \o more)
          /\ \A i \in DOMAIN (old \o more) :
              \/ i \in DOMAIN old /\ (old \o more)[i] = old[i]
              \/ i - Len(old) \in DOMAIN more /\ (old \o more)[i] = more[i - Len(old)]
      BY <2>7, <3>1, <3>2, RisingConcat
    <3>4. \A i \in DOMAIN old : Later(old[i])
      <4>1. \A i \in DOMAIN old : old[i] \in Header
        OBVIOUS
      <4>2. QED
        BY <2>2, <2>7, <4>1
    <3>5. \A i \in DOMAIN more : Later(more[i])
      BY <2>5, <3>1
    <3>6. QED
      BY <3>3, <3>4, <3>5
  <2>8. SomeOf(new, new)
    BY <1>7 DEF SomeOf
  <2>9. Rising(log') /\ \A i \in DOMAIN log' : Later(log'[i])
    BY <1>8, <1>9, <2>7, <2>8 DEF NumbersInv
  <2>10. Rising(passedOn') /\ \A i \in DOMAIN passedOn' : Later(passedOn'[i])
    BY <1>9, <1>10, <2>7 DEF NumbersInv
  <2>11. QED
    BY <1>2, <2>9, <2>10 DEF NumbersInv, Past, Later
<1>17. QED
  BY <1>13, <1>14, <1>15, <1>16

LEMMA RecvReads ==
  ASSUME FramingInv, OnRecvMessage, Aligned
  PROVE  \E m \in Len(reported) .. Len(passedOn) :
           /\ reported' = Pairs(First(passedOn, m)) /\ Len(reported') = m
           /\ StandsAt(passedOn, downRead', cliBody', m)
<1> USE DEF FramingInv
<1>1. PICK arrived \in downRead + 1 .. Len(downStream) :
        LET r == Receive(downStream, downRead, arrived, cliBody) IN
        /\ attached
        /\ downRead' = r.pos
        /\ cliBody' = r.body
        /\ reported' = reported \o Pairs(r.headers)
  BY DEF OnRecvMessage
<1> DEFINE r == Receive(downStream, downRead, arrived, cliBody)
           k == Len(reported)
<1>2. passedOn \in Seq(Header) /\ downStream = OnTheWire(passedOn)
  BY DEF TypeOK, DownInv
<1>3. /\ reported = Pairs(First(passedOn, k))
      /\ StandsAt(passedOn, downRead, cliBody, k)
      /\ k \in 0 .. Len(passedOn) /\ downRead \in Nat
  BY <1>1 DEF DownInv, StandsAt
<1>4. arrived \in downRead .. Len(OnTheWire(passedOn))
  BY <1>1, <1>2, <1>3, WireWords
<1>5. PICK m \in k .. Len(passedOn) :
        r.headers = SubSeq(passedOn, k + 1, m) /\ StandsAt(passedOn, r.pos, r.body, m)
  BY <1>2, <1>3, <1>4, ReceiveReads
<1>6. downRead' = r.pos /\ cliBody' = r.body /\ reported' = reported \o Pairs(r.headers)
  BY <1>1
<1> HIDE DEF r
<1>7. m \in k .. Len(passedOn)
  OBVIOUS
<1> HIDE DEF k
<1>8. /\ r.headers \in Seq(Header) /\ First(passedOn, k) \in Seq(Header)
      /\ First(passedOn, m) \in Seq(Header) /\ Len(First(passedOn, m)) = m
      /\ First(passedOn, m) = First(passedOn, k) \o r.headers
  <2>1. m \in 0 .. Len(passedOn) /\ k \in 0 .. Len(passedOn)
    BY <1>3, <1>7
  <2>2. First(passedOn, k) \in Seq(Header)
    BY <1>2, <2>1, FirstOnes
  <2>3. First(passedOn, m) \in Seq(Header) /\ Len(First(passedOn, m)) = m
    BY <1>2, <2>1, FirstOnes
  <2>4. /\ SubSeq(passedOn, k + 1, m) \in Seq(Header)
        /\ First(passedOn, m) = First(passedOn, k) \o SubSeq(passedOn, k + 1, m)
    BY <1>2, <1>7, <2>1, FirstAndRest
  <2>5. QED
    BY <1>5, <2>2, <2>3, <2>4
<1>9. reported' = Pairs(First(passedOn, m))
  BY <1>3, <1>6, <1>8, PairsConcat
<1>10. Len(reported') = m
  BY <1>8, <1>9, PairsConcat
<1>11. QED
  BY <1>5, <1>6, <1>7, <1>9, <1>10 DEF k

LEMMA RecvKeeps == FramingInv /\ OnRecvMessage => FramingInv'
<1> SUFFICES ASSUME FramingInv, OnRecvMessage PROVE FramingInv'
  OBVIOUS
<1> USE DEF FramingInv
<1>1. /\ UNCHANGED << curMsgId, upStream, upRead, srvBody, written, relayed, attached,
                      since, downStream, passedOn, log >>
      /\ attached
  BY DEF OnRecvMessage, upVars, downVars
<1>2. TypeOK' /\ UpInv' /\ NumbersInv'
  BY <1>1 DEF TypeOK, UpInv, NumbersInv, Past
<1>3. ASSUME Aligned
      PROVE  /\ reported' = Pairs(First(passedOn, Len(reported')))
             /\ StandsAt(passedOn, downRead', cliBody', Len(reported'))
  BY <1>3, RecvReads
<1>4. DownInv'
  BY <1>1, <1>3 DEF DownInv, Aligned
<1>5. QED
  BY <1>2, <1>4

LEMMA ReconnectKeeps ==
  ASSUME FramingInv, NEW c \in Sender, ReconnectSender(c)
  PROVE  FramingInv'
<1> USE DEF FramingInv
<1>1. /\ upStream' = [upStream EXCEPT ![c] = << >>]
      /\ upRead' = [upRead EXCEPT ![c] = 0]
      /\ srvBody' = [srvBody EXCEPT ![c] = 0]
      /\ written' = [written EXCEPT ![c] = << >>]
      /\ relayed' = [relayed EXCEPT ![c] = << >>]
      /\ UNCHANGED << curMsgId, attached, downRead, cliBody, reported, since,
                      downStream, passedOn, log >>
  BY DEF ReconnectSender, listenerVars, downVars
<1>2. TypeOK'
  <2>1. << >> \in Seq(Header)
    OBVIOUS
  <2>2. written' \in [Sender -> Seq(Header)] /\ relayed' \in [Sender -> Seq(Header)]
    BY <1>1, <2>1 DEF TypeOK
  <2>3. /\ upRead' \in [Sender -> Nat] /\ srvBody' \in [Sender -> Nat]
        /\ DOMAIN upStream' = Sender
    BY <1>1 DEF TypeOK
  <2>4. QED
    BY <1>1, <2>2, <2>3 DEF TypeOK
<1>3. /\ upStream'[c] = << >> /\ written'[c] = << >> /\ relayed'[c] = << >>
      /\ upRead'[c] = 0 /\ srvBody'[c] = 0
      /\ \A d \in Sender \ {c} :
           /\ upStream'[d] = upStream[d] /\ written'[d] = written[d] /\ relayed'[d] = relayed[d]
           /\ upRead'[d] = upRead[d] /\ srvBody'[d] = srvBody[d]
  BY <1>1 DEF TypeOK
<1>4. UpInv'
  <2>1. ASSUME NEW d \in Sender
        PROVE  /\ upStream'[d] = OnTheWire(written'[d])
               /\ relayed'[d] = First(written'[d], Len(relayed'[d]))
               /\ StandsAt(written'[d], upRead'[d], srvBody'[d], Len(relayed'[d]))
    <3>1. CASE d = c
      <4>1. Len(relayed'[c]) = 0
        BY <1>3
      <4>2. QED
        BY <1>3, <3>1, <4>1, NothingToRead
    <3>2. CASE d # c
      BY <1>3, <3>2 DEF UpInv
    <3>3. QED
      BY <3>1, <3>2
  <2>2. QED
    BY <2>1 DEF UpInv
<1>5. DownInv'
  BY <1>1 DEF DownInv, Aligned
<1>6. NumbersInv'
  <2> DEFINE Later(g) ==
        /\ g.seq < curMsgId[g.id]
        /\ \A j \in DOMAIN written'[g.id] :
             j > Len(relayed'[g.id]) => g.seq < written'[g.id][j].seq
  <2>1. ASSUME NEW g \in Header, Past(g) PROVE Later(g)
    <3>1. g.id \in Sender
      BY DEF Header
    <3>2. CASE g.id = c
      BY <1>3, <2>1, <3>2 DEF Past
    <3>3. CASE g.id # c
      BY <1>3, <2>1, <3>1, <3>3 DEF Past
    <3>4. QED
      BY <3>2, <3>3
  <2>2. /\ \A i \in DOMAIN log : log[i] \in Header
        /\ \A i \in DOMAIN passedOn : passedOn[i] \in Header
    <3>1. log \in Seq(Header) /\ passedOn \in Seq(Header)
      BY DEF TypeOK
    <3>2. QED
      BY <3>1
  <2>3. ASSUME NEW d \in Sender
        PROVE  /\ Rising(written'[d])
               /\ \A i \in DOMAIN written'[d] :
                    written'[d][i].id = d /\ written'[d][i].seq < curMsgId[d]
    <3>1. CASE d = c
      BY <1>3, <3>1, NothingToRead
    <3>2. CASE d # c
      BY <1>3, <3>2 DEF NumbersInv
    <3>3. QED
      BY <3>1, <3>2
  <2> HIDE DEF Later
  <2>4. /\ \A i \in DOMAIN log : Later(log[i])
        /\ \A i \in DOMAIN passedOn : Later(passedOn[i])
    BY <2>1, <2>2 DEF NumbersInv
  <2>5. Rising(log) /\ Rising(passedOn)
    BY DEF NumbersInv
  <2>6. QED
    BY <1>1, <2>3, <2>4, <2>5 DEF NumbersInv, Past, Later
<1>7. QED
  BY <1>2, <1>4, <1>5, <1>6

LEMMA ErrorKeeps == FramingInv /\ OnError => FramingInv'
<1> SUFFICES ASSUME FramingInv, OnError PROVE FramingInv'
  OBVIOUS
<1> USE DEF FramingInv
<1>1. /\ attached' = FALSE /\ reported' = << >>
      /\ UNCHANGED << curMsgId, upStream, upRead, srvBody, written, relayed,
                      downStream, passedOn, log >>
  BY DEF OnError, upVars, downVars
<1>2. TypeOK' /\ UpInv' /\ NumbersInv'
  BY <1>1 DEF TypeOK, UpInv, NumbersInv, Past
<1>3. DownInv'
  BY <1>1 DEF DownInv
<1>4. QED
  BY <1>2, <1>3

LEMMA ConnectKeeps == FramingInv /\ Connect => FramingInv'
<1> SUFFICES ASSUME FramingInv, Connect PROVE FramingInv'
  OBVIOUS
<1> USE DEF FramingInv
<1>1. /\ ~ attached /\ attached' = TRUE /\ downStream' = << >> /\ passedOn' = << >>
      /\ downRead' = 0 /\ since' = [body |-> cliBody, log |-> Len(log)]
      /\ UNCHANGED << curMsgId, upStream, upRead, srvBody, written, relayed, cliBody,
                      reported, log >>
  BY DEF Connect, upVars
<1>2. UpInv'
  BY <1>1 DEF UpInv
<1>3. TypeOK'
  <2>1. << >> \in Seq(Header)
    OBVIOUS
  <2>2. QED
    BY <1>1, <2>1 DEF TypeOK
<1>4. NumbersInv'
  <2>1. Rising(passedOn') /\ DOMAIN passedOn' = {}
    BY <1>1, NothingToRead
  <2>2. QED
    BY <1>1, <2>1 DEF NumbersInv, Past
<1>5. DownInv'
  <2>1. reported = << >> /\ Len(reported) = 0
    BY <1>1 DEF DownInv
  <2>2. Aligned' => cliBody = 0
    BY <1>1 DEF Aligned
  <2>3. QED
    BY <1>1, <2>1, <2>2, NothingToRead DEF DownInv
<1>6. QED
  BY <1>2, <1>3, <1>4, <1>5

THEOREM FramingInvariant == Spec => []FramingInv
<1>1. Init => FramingInv
  BY FramingInit
<1>2. FramingInv /\ [Next]_vars => FramingInv'
  <2> SUFFICES ASSUME FramingInv, [Next]_vars PROVE FramingInv'
    OBVIOUS
  <2>1. ASSUME NEW c \in Sender, SendMessage(c) PROVE FramingInv'
    BY <2>1, SendKeeps
  <2>2. ASSUME NEW c \in Sender, RebroadcastIncomingMsg(c) PROVE FramingInv'
    BY <2>2, RebroadcastKeeps
  <2>3. CASE OnRecvMessage
    BY <2>3, RecvKeeps
  <2>4. ASSUME NEW c \in Sender, ReconnectSender(c) PROVE FramingInv'
    BY <2>4, ReconnectKeeps
  <2>5. CASE OnError
    BY <2>5, ErrorKeeps
  <2>6. CASE Connect
    BY <2>6, ConnectKeeps
  <2>7. CASE UNCHANGED vars
    BY <2>7 DEF FramingInv, TypeOK, UpInv, DownInv, NumbersInv, Past, Aligned, vars,
                upVars, listenerVars, downVars
  <2>8. QED
    BY <2>1, <2>2, <2>3, <2>4, <2>5, <2>6, <2>7 DEF Next
<1>3. QED
  BY <1>1, <1>2, PTL DEF Spec
-----------------------------------------------------------------------------
(* What the invariant gives.                                               *)
LEMMA FirstIsPrefix ==
  ASSUME NEW T, NEW hs \in Seq(T), NEW k \in 0 .. Len(hs)
  PROVE  IsPrefix(First(hs, k), hs)
<1>1. First(hs, k) \in Seq(T) /\ Len(First(hs, k)) = k /\ k <= Len(hs)
  BY FirstOnes
<1>2. SubSeq(hs, 1, k) = First(hs, k)
  BY DEF First
<1>3. QED
  BY <1>1, <1>2 DEF IsPrefix

(* What the server relays of a connection is what its sender wrote on it,  *)
(* from the beginning and in order (MucServer::RebroadcastIncomingMsg,     *)
(* ReadBody).                                                              *)
THEOREM RelayIsExact == Spec => []RelaysWhatWasSent
<1>1. FramingInv => RelaysWhatWasSent
  <2> SUFFICES ASSUME FramingInv, NEW c \in Sender PROVE IsPrefix(relayed[c], written[c])
    BY DEF RelaysWhatWasSent
  <2> DEFINE k == Len(relayed[c])
  <2>1. written[c] \in Seq(Header) /\ k \in 0 .. Len(written[c]) /\ relayed[c] = First(written[c], k)
    BY DEF FramingInv, TypeOK, UpInv, StandsAt
  <2> HIDE DEF k
  <2>2. QED
    BY <2>1, FirstIsPrefix
<1>2. QED
  BY <1>1, FramingInvariant, PTL

(* A listener reports exactly what was written for it on its connection,   *)
(* in order, unless the one before broke in the middle of a body           *)
(* (MucClient::OnRecvMessage, ReadBody).                                   *)
THEOREM ReportIsExact == Spec => []ReportsWhatWasRelayed
<1>1. FramingInv => ReportsWhatWasRelayed
  <2> SUFFICES ASSUME FramingInv, Aligned PROVE IsPrefix(reported, Pairs(passedOn))
    BY DEF ReportsWhatWasRelayed
  <2>1. passedOn \in Seq(Header)
    BY DEF FramingInv, TypeOK
  <2>2. /\ Pairs(passedOn) \in Seq([src : Sender, seq : Nat])
        /\ Len(Pairs(passedOn)) = Len(passedOn)
    BY <2>1, PairsConcat
  <2>3. CASE ~ attached
    <3>1. reported = << >>
      BY <2>3 DEF FramingInv, DownInv
    <3>2. First(Pairs(passedOn), 0) = << >> /\ 0 \in 0 .. Len(Pairs(passedOn))
      BY <2>1, <2>2, FirstNone
    <3>3. QED
      BY <2>2, <3>1, <3>2, FirstIsPrefix
  <2>4. CASE attached
    <3> DEFINE k == Len(reported)
    <3>1. k \in 0 .. Len(passedOn) /\ reported = Pairs(First(passedOn, k))
      BY <2>4 DEF FramingInv, DownInv, StandsAt
    <3> HIDE DEF k
    <3> DEFINE rest == SubSeq(passedOn, k + 1, Len(passedOn))
    <3>2. /\ First(passedOn, k) \in Seq(Header) /\ rest \in Seq(Header)
          /\ passedOn = First(passedOn, k) \o rest /\ Len(First(passedOn, k)) = k
      <4>1. Len(passedOn) \in k .. Len(passedOn)
        BY <2>1, <3>1
      <4>2. First(passedOn, Len(passedOn)) = passedOn
        BY <2>1, FirstAll
      <4>3. QED
        BY <2>1, <3>1, <4>1, <4>2, FirstOnes, FirstAndRest
    <3> HIDE DEF rest
    <3>3. Pairs(passedOn) = reported \o Pairs(rest) /\ Len(reported) = k
      BY <3>1, <3>2, PairsConcat
    <3>4. /\ reported \in Seq([src : Sender, seq : Nat])
          /\ Pairs(rest) \in Seq([src : Sender, seq : Nat])
      BY <3>1, <3>2, PairsConcat
    <3>5. First(Pairs(passedOn), k) = reported
      <4> DEFINE Pair == [src : Sender, seq : Nat]
                 a == reported
                 b == Pairs(rest)
                 all == a \o b
      <4>1. a \in Seq(Pair) /\ b \in Seq(Pair) /\ Len(a) = k
        BY <3>3, <3>4
      <4> HIDE DEF Pair, a, b
      <4>2. /\ all \in Seq(Pair) /\ Len(all) = Len(a) + Len(b) /\ Len(b) \in Nat
            /\ \A i \in 1 .. Len(a) + Len(b) : all[i] = IF i <= Len(a) THEN a[i] ELSE b[i - Len(a)]
        <5>1. a \in Seq(Pair) /\ b \in Seq(Pair)
          BY <4>1
        <5>2. Len(b) \in Nat
          BY <5>1
        <5>3. /\ a \o b \in Seq(Pair) /\ Len(a \o b) = Len(a) + Len(b)
              /\ \A i \in 1 .. Len(a) + Len(b) :
                   (a \o b)[i] = IF i <= Len(a) THEN a[i] ELSE b[i - Len(a)]
          BY <5>1, ConcatProperties
        <5>4. QED
          BY <5>2, <5>3
      <4> HIDE DEF all
      <4>3. k \in 0 .. Len(all)
        BY <2>1, <3>1, <4>1, <4>2
      <4>4. /\ First(all, k) \in Seq(Pair) /\ Len(First(all, k)) = k
            /\ \A i \in 1 .. k : First(all, k)[i] = all[i]
        BY <4>2, <4>3, FirstOnes
      <4>5. \A i \in 1 .. k : all[i] = a[i]
        BY <2>1, <3>1, <4>1, <4>2
      <4>6. First(all, k) = a
        BY <4>1, <4>4, <4>5, SeqEqual
      <4>7. QED
        BY <3>3, <4>6 DEF all, a, b
    <3>6. k \in 0 .. Len(Pairs(passedOn))
      BY <2>2, <3>1
    <3>7. QED
      BY <2>2, <3>5, <3>6, FirstIsPrefix
  <2>5. QED
    BY <2>3, <2>4
<1>2. QED
  BY <1>1, FramingInvariant, PTL

(* A callback and the ones before it have decoded what is in the delivery. *)
LEMMA CallbackDecodes ==
  ASSUME NEW hs \in Seq(Header), NEW p, NEW body, NEW k, StandsAt(hs, p, body, k),
         NEW arrived \in p .. Len(OnTheWire(hs))
  PROVE  k + Len(Receive(OnTheWire(hs), p, arrived, body).headers)
           = Cardinality(HeadersIn(hs, arrived))
<1> DEFINE r == Receive(OnTheWire(hs), p, arrived, body)
<1>1. r.pos <= arrived /\ Done(arrived, r)
  BY ReceiveReads
<1>2. PICK m \in k .. Len(hs) :
        r.headers = SubSeq(hs, k + 1, m) /\ StandsAt(hs, r.pos, r.body, m)
  BY ReceiveReads
<1> HIDE DEF r
<1>3. k \in 0 .. Len(hs) /\ p \in Nat /\ arrived \in Nat
  <2>1. k \in 0 .. Len(hs) /\ p \in Nat
    BY DEF StandsAt
  <2>2. QED
    BY <2>1, WireWords
<1>4. Len(r.headers) = m - k
  BY <1>2, <1>3, FirstAndRest
<1>5. Cardinality(HeadersIn(hs, arrived)) = m
  BY <1>1, <1>2, <1>3, AllDecoded DEF Done
<1>6. QED
  BY <1>3, <1>4, <1>5 DEF r

(* Wherever a delivery ends, the callback has decoded all messages of the  *)
(* connection whose header is there: the rest of a body, a part of a       *)
(* header or nothing is what waits for the next one                        *)
(* (RebroadcastIncomingMsg, OnRecvMessage).                                *)
THEOREM NothingIsLeftBehind == Spec => []NothingLeftBehind
<1>1. FramingInv => NothingLeftBehind
  <2> SUFFICES ASSUME FramingInv PROVE NothingLeftBehind
    OBVIOUS
  <2>1. ASSUME NEW c \in Sender, NEW arrived \in upRead[c] .. Len(upStream[c])
        PROVE  Len(relayed[c])
                 + Len(Receive(upStream[c], upRead[c], arrived, srvBody[c]).headers)
                 = Cardinality(HeadersIn(written[c], arrived))
    <3> DEFINE w == written[c]
               p == upRead[c]
               body == srvBody[c]
               k == Len(relayed[c])
    <3>1. w \in Seq(Header) /\ upStream[c] = OnTheWire(w) /\ StandsAt(w, p, body, k)
      BY DEF FramingInv, TypeOK, UpInv
    <3>2. arrived \in p .. Len(OnTheWire(w))
      BY <3>1
    <3> HIDE DEF w, p, body, k
    <3>3. k + Len(Receive(OnTheWire(w), p, arrived, body).headers)
            = Cardinality(HeadersIn(w, arrived))
      BY <3>1, <3>2, CallbackDecodes
    <3>4. QED
      BY <3>1, <3>3 DEF w, p, body, k
  <2>2. ASSUME attached, Aligned, NEW arrived \in downRead .. Len(downStream)
        PROVE  Len(reported)
                 + Len(Receive(downStream, downRead, arrived, cliBody).headers)
                 = Cardinality(HeadersIn(passedOn, arrived))
    <3>1. /\ passedOn \in Seq(Header) /\ downStream = OnTheWire(passedOn)
          /\ StandsAt(passedOn, downRead, cliBody, Len(reported))
      BY <2>2 DEF FramingInv, TypeOK, DownInv
    <3>2. QED
      BY <2>2, <3>1, CallbackDecodes
  <2>3. QED
    BY <2>1, <2>2 DEF NothingLeftBehind
<1>2. QED
  BY <1>1, FramingInvariant, PTL

(* A full buffer leaves gaps in the numbers and nothing worse              *)
(* (SendMessage, RebroadcastIncomingMsg, OnRecvMessage).                   *)
THEOREM NumbersGoUp == Spec => []OnlyGaps
<1>1. FramingInv => OnlyGaps
  <2> SUFFICES ASSUME FramingInv, Aligned, NEW i \in DOMAIN reported, NEW j \in DOMAIN reported,
                      i < j, reported[i].src = reported[j].src
               PROVE  reported[i].seq < reported[j].seq
    BY DEF OnlyGaps
  <2>1. CASE ~ attached
    <3>1. reported = << >>
      BY <2>1 DEF FramingInv, DownInv
    <3>2. QED
      BY <3>1
  <2>2. CASE attached
    <3> DEFINE k == Len(reported)
               few == First(passedOn, k)
    <3>1. /\ passedOn \in Seq(Header) /\ k \in 0 .. Len(passedOn)
          /\ reported = Pairs(First(passedOn, k)) /\ Rising(passedOn)
      BY <2>2 DEF FramingInv, TypeOK, DownInv, StandsAt, NumbersInv
    <3>2. /\ few \in Seq(Header) /\ Len(few) = k
          /\ \A l \in 1 .. k : few[l] = passedOn[l]
      <4> HIDE DEF k
      <4>1. QED
        BY <3>1, FirstOnes
    <3> HIDE DEF k
    <3>3. reported = Pairs(few)
      BY <3>1
    <3> HIDE DEF few
    <3>4. i \in 1 .. k /\ j \in 1 .. k /\ DOMAIN few = 1 .. k
      BY <3>2, <3>3 DEF Pairs
    <3>5. \A l \in 1 .. k : reported[l] = [src |-> few[l].id, seq |-> few[l].seq]
      BY <3>3, <3>4 DEF Pairs
    <3>6. /\ reported[i].src = passedOn[i].id /\ reported[i].seq = passedOn[i].seq
          /\ reported[j].src = passedOn[j].id /\ reported[j].seq = passedOn[j].seq
      <4>1. /\ reported[i] = [src |-> few[i].id, seq |-> few[i].seq]
            /\ reported[j] = [src |-> few[j].id, seq |-> few[j].seq]
        BY <3>4, <3>5
      <4>2. few[i] = passedOn[i] /\ few[j] = passedOn[j]
        BY <3>2, <3>4
      <4>3. QED
        BY <4>1, <4>2
    <3>7. i \in DOMAIN passedOn /\ j \in DOMAIN passedOn
      BY <3>1, <3>4
    <3>8. QED
      BY <3>1, <3>6, <3>7 DEF Rising
  <2>3. QED
    BY <2>1, <2>2
<1>2. QED
  BY <1>1, FramingInvariant, PTL
-----------------------------------------------------------------------------
(* The refinement.  First, what a listener is shown: the headers that were *)
(* passed on, up to the first that the log does not continue with.         *)
Pair == [src : Sender, seq : Nat]

InOrder(q, l, from) ==
  Cardinality({ i \in DOMAIN q :
     /\ from + i <= Len(l)
     /\ SubSeq(q, 1, i) = SubSeq(l, from + 1, from + i) })

ShownOf(rep, q, l, from) == SubSeq(rep, 1, Min({ Len(rep), InOrder(q, l, from) }))

LEMMA InitialSegment ==
  ASSUME NEW n \in Nat, NEW S, S \subseteq 1 .. n,
         \A i \in S : \A j \in 1 .. i : j \in S
  PROVE  Cardinality(S) \in 0 .. n /\ S = 1 .. Cardinality(S)
<1> DEFINE rest == (1 .. n + 1) \ S
<1>1. rest \subseteq Nat /\ n + 1 \in rest
  OBVIOUS
<1>2. PICK m \in rest : \A i \in rest : m <= i
  <2> HIDE DEF rest
  <2>1. rest # {}
    BY <1>1
  <2>2. QED
    BY <1>1, <2>1, LeastNumber
<1>3. m \in 1 .. n + 1 /\ m \notin S
  OBVIOUS
<1>4. ASSUME NEW i \in 1 .. n PROVE i \in S <=> i < m
  <2>1. ASSUME i \in S, i >= m PROVE FALSE
    <3>1. m \in 1 .. i
      BY <1>3, <2>1
    <3>2. QED
      BY <1>3, <2>1, <3>1
  <2>2. ASSUME i < m, i \notin S PROVE FALSE
    <3>1. i \in rest
      BY <2>2
    <3>2. QED
      BY <1>2, <1>3, <2>2, <3>1
  <2>3. QED
    BY <1>3, <2>1, <2>2
<1> HIDE DEF rest
<1>5. PICK k \in 0 .. n : k = m - 1
  BY <1>3
<1>6. S = 1 .. k
  <2>1. \A i \in S : i \in 1 .. k
    BY <1>3, <1>4, <1>5
  <2>2. \A i \in 1 .. k : i \in S
    BY <1>3, <1>4, <1>5
  <2>3. QED
    BY <2>1, <2>2
<1>7. Cardinality(1 .. k) = k
  BY <1>5, FS_Interval
<1>8. QED
  BY <1>6, <1>7

LEMMA InOrderIs ==
  ASSUME NEW q \in Seq(Header), NEW l \in Seq(Header), NEW from \in Nat,
         from + Len(q) <= Len(l)
  PROVE  /\ InOrder(q, l, from) \in 0 .. Len(q)
         /\ \A i \in 1 .. Len(q) :
              i <= InOrder(q, l, from) <=> \A j \in 1 .. i : q[j] = l[from + j]
<1> DEFINE S == { i \in DOMAIN q :
                    /\ from + i <= Len(l)
                    /\ SubSeq(q, 1, i) = SubSeq(l, from + 1, from + i) }
<1>1. Len(q) \in Nat /\ DOMAIN q = 1 .. Len(q) /\ Len(l) \in Nat
  OBVIOUS
<1>2. ASSUME NEW i \in 1 .. Len(q)
      PROVE  i \in S <=> \A j \in 1 .. i : q[j] = l[from + j]
  <2>1. i \in 0 .. Len(q) /\ from \in 0 .. Len(l) /\ from + i \in from .. Len(l)
    BY <1>1
  <2> DEFINE a == SubSeq(q, 1, i)
             b == SubSeq(l, from + 1, from + i)
  <2>2. a \in Seq(Header) /\ Len(a) = i /\ \A j \in 1 .. i : a[j] = q[j]
    <3>1. First(q, i) \in Seq(Header) /\ Len(First(q, i)) = i
          /\ \A j \in 1 .. i : First(q, i)[j] = q[j]
      BY <2>1, FirstOnes
    <3>2. QED
      BY <3>1 DEF First
  <2>3. b \in Seq(Header) /\ Len(b) = i /\ \A j \in 1 .. i : b[j] = l[from + j]
    <3> DEFINE m == from + i
    <3>1. m \in from .. Len(l) /\ m - from = i
      BY <2>1
    <3> HIDE DEF m
    <3>2. /\ SubSeq(l, from + 1, m) \in Seq(Header)
          /\ Len(SubSeq(l, from + 1, m)) = m - from
          /\ \A j \in 1 .. m - from : SubSeq(l, from + 1, m)[j] = l[from + j]
      BY <2>1, <3>1, FirstAndRest
    <3>3. QED
      BY <3>1, <3>2 DEF m
  <2> HIDE DEF a, b
  <2>4. a = b <=> \A j \in 1 .. i : q[j] = l[from + j]
    <3>1. ASSUME \A j \in 1 .. i : q[j] = l[from + j] PROVE a = b
      <4>1. \A j \in 1 .. i : a[j] = b[j]
        BY <2>2, <2>3, <3>1
      <4>2. QED
        BY <2>2, <2>3, <4>1, SeqEqual
    <3>2. ASSUME a = b PROVE \A j \in 1 .. i : q[j] = l[from + j]
      BY <2>2, <2>3, <3>2
    <3>3. QED
      BY <3>1, <3>2
  <2>5. i \in S <=> a = b
    BY <1>1, <2>1 DEF a, b
  <2>6. QED
    BY <2>4, <2>5
<1>3. S \subseteq 1 .. Len(q)
  BY <1>1
<1>4. InOrder(q, l, from) = Cardinality(S)
  BY DEF InOrder
<1> HIDE DEF S
<1>5. ASSUME NEW i \in S, NEW j \in 1 .. i PROVE j \in S
  <2>1. i \in 1 .. Len(q) /\ j \in 1 .. Len(q) /\ \A h \in 1 .. j : h \in 1 .. i
    BY <1>1, <1>3
  <2>2. QED
    BY <1>2, <2>1
<1>6. Cardinality(S) \in 0 .. Len(q) /\ S = 1 .. Cardinality(S)
  BY <1>1, <1>3, <1>5, InitialSegment
<1>7. \A i \in 1 .. Len(q) : i <= Cardinality(S) <=> i \in S
  BY <1>1, <1>6
<1>8. QED
  BY <1>2, <1>4, <1>6, <1>7

LEMMA LesserOfTwo ==
  ASSUME NEW a \in Nat, NEW b \in Nat
  PROVE  Min({a, b}) = IF a <= b THEN a ELSE b
<1>1. \A x \in {a, b} : (\A y \in {a, b} : x <= y) <=> x = IF a <= b THEN a ELSE b
  OBVIOUS
<1>2. (IF a <= b THEN a ELSE b) \in {a, b}
  OBVIOUS
<1>3. QED
  BY <1>1, <1>2 DEF Min

Shows(n, k, q, l, from) ==
  /\ n \in 0 .. k
  /\ n = IF k <= InOrder(q, l, from) THEN k ELSE InOrder(q, l, from)
  /\ ShownOf(Pairs(First(q, k)), q, l, from) = First(Pairs(q), n)
  /\ First(Pairs(q), n) \in Seq(Pair) /\ Len(First(Pairs(q), n)) = n

LEMMA ShownOfIs ==
  ASSUME NEW q \in Seq(Header), NEW l \in Seq(Header), NEW from \in Nat,
         from + Len(q) <= Len(l), NEW k \in 0 .. Len(q)
  PROVE  \E n : Shows(n, k, q, l, from)
<1> DEFINE rep == Pairs(First(q, k))
           I == InOrder(q, l, from)
           n == IF k <= I THEN k ELSE I
<1>1. I \in 0 .. Len(q) /\ Len(q) \in Nat
  BY InOrderIs
<1> HIDE DEF I
<1>2. n \in 0 .. k /\ n \in 0 .. Len(q)
  BY <1>1
<1>3. /\ First(q, k) \in Seq(Header) /\ Len(First(q, k)) = k
      /\ \A i \in 1 .. k : First(q, k)[i] = q[i]
  BY FirstOnes
<1>4. rep \in Seq(Pair) /\ Len(rep) = k /\ Pairs(q) \in Seq(Pair) /\ Len(Pairs(q)) = Len(q)
  BY <1>3, PairsConcat DEF Pair
<1>5. Min({ Len(rep), I }) = n
  BY <1>1, <1>4, LesserOfTwo
<1>6. ASSUME NEW i \in 1 .. k PROVE rep[i] = Pairs(q)[i]
  <2>1. i \in DOMAIN q /\ i \in DOMAIN First(q, k)
    BY <1>1, <1>3
  <2>2. First(q, k)[i] = q[i]
    BY <1>3
  <2>3. QED
    BY <2>1, <2>2 DEF Pairs
<1> HIDE DEF rep, n
<1>7. First(rep, n) \in Seq(Pair) /\ Len(First(rep, n)) = n
      /\ \A i \in 1 .. n : First(rep, n)[i] = rep[i]
  BY <1>2, <1>4, FirstOnes
<1>8. First(Pairs(q), n) \in Seq(Pair) /\ Len(First(Pairs(q), n)) = n
      /\ \A i \in 1 .. n : First(Pairs(q), n)[i] = Pairs(q)[i]
  BY <1>2, <1>4, FirstOnes
<1>9. First(rep, n) = First(Pairs(q), n)
  <2>1. \A i \in 1 .. n : i \in 1 .. k
    BY <1>2
  <2>2. \A i \in 1 .. n : First(rep, n)[i] = First(Pairs(q), n)[i]
    BY <1>6, <1>7, <1>8, <2>1
  <2>3. QED
    BY <1>7, <1>8, <2>2, SeqEqual
<1>10. ShownOf(rep, q, l, from) = First(rep, n)
  BY <1>5 DEF ShownOf, First, I
<1>11. Shows(n, k, q, l, from)
  BY <1>2, <1>8, <1>9, <1>10 DEF rep, n, I, Shows
<1>12. QED
  BY <1>11

(* What is shown of a connection does not change when the log grows.       *)
LEMMA ShownOfGrows ==
  ASSUME NEW q \in Seq(Header), NEW l \in Seq(Header), NEW from \in Nat,
         from + Len(q) <= Len(l), NEW k \in 0 .. Len(q),
         NEW some \in Seq(Header), NEW new \in Seq(Header), Len(some) <= Len(new)
  PROVE  ShownOf(Pairs(First(q, k)), q \o some, l \o new, from) =
         ShownOf(Pairs(First(q, k)), q, l, from)
<1> DEFINE qq == q \o some
           ll == l \o new
           I == InOrder(q, l, from)
           J == InOrder(qq, ll, from)
           rep == Pairs(First(q, k))
<1>1. /\ qq \in Seq(Header) /\ Len(qq) = Len(q) + Len(some)
      /\ \A i \in 1 .. Len(q) + Len(some) :
           qq[i] = IF i <= Len(q) THEN q[i] ELSE some[i - Len(q)]
  BY ConcatProperties
<1>2. /\ ll \in Seq(Header) /\ Len(ll) = Len(l) + Len(new)
      /\ \A i \in 1 .. Len(l) + Len(new) :
           ll[i] = IF i <= Len(l) THEN l[i] ELSE new[i - Len(l)]
  BY ConcatProperties
<1>3. Len(q) \in Nat /\ Len(some) \in Nat /\ Len(l) \in Nat /\ Len(new) \in Nat
  OBVIOUS
<1> HIDE DEF qq, ll
<1>4. from + Len(qq) <= Len(ll)
  BY <1>1, <1>2, <1>3
<1>5. /\ I \in 0 .. Len(q)
      /\ \A i \in 1 .. Len(q) : i <= I <=> \A j \in 1 .. i : q[j] = l[from + j]
  BY InOrderIs
<1>6. /\ J \in 0 .. Len(qq)
      /\ \A i \in 1 .. Len(qq) : i <= J <=> \A j \in 1 .. i : qq[j] = ll[from + j]
  <2>1. qq \in Seq(Header) /\ ll \in Seq(Header)
    BY <1>1, <1>2
  <2>2. QED
    BY <1>4, <2>1, InOrderIs
<1> HIDE DEF I, J
<1>7. ASSUME NEW i \in 1 .. Len(q) PROVE i <= I <=> i <= J
  <2>1. ASSUME NEW j \in 1 .. i PROVE qq[j] = q[j] /\ ll[from + j] = l[from + j]
    <3>1. j \in 1 .. Len(q) + Len(some) /\ j <= Len(q)
      BY <1>3
    <3>2. from + j \in 1 .. Len(l) + Len(new) /\ from + j <= Len(l)
      BY <1>3, <3>1
    <3>3. QED
      BY <1>1, <1>2, <3>1, <3>2
  <2>2. i \in 1 .. Len(qq)
    BY <1>1, <1>3
  <2>3. QED
    BY <1>5, <1>6, <2>1, <2>2
<1>8. (IF k <= I THEN k ELSE I) = (IF k <= J THEN k ELSE J)
  <2>1. I \in Nat /\ J \in Nat /\ k \in Nat /\ k <= Len(q)
    BY <1>1, <1>3, <1>5, <1>6
  <2>2. CASE k <= I
    <3>1. k = 0 \/ k \in 1 .. Len(q)
      BY <2>1
    <3>2. k <= J
      BY <1>7, <2>1, <2>2, <3>1
    <3>3. QED
      BY <2>2, <3>2
  <2>3. CASE ~ (k <= I)
    <3>1. I + 1 \in 1 .. Len(q) /\ ~ (I + 1 <= I)
      BY <2>1, <2>3
    <3>2. ~ (I + 1 <= J)
      BY <1>7, <3>1
    <3>3. I = 0 \/ I \in 1 .. Len(q)
      BY <1>3, <1>5
    <3>4. I <= J
      BY <1>7, <2>1, <3>3
    <3>5. QED
      BY <2>1, <2>3, <3>2, <3>4
  <2>4. QED
    BY <2>2, <2>3
<1> DEFINE n == IF k <= I THEN k ELSE I
<1>9. rep \in Seq(Pair) /\ Len(rep) = k
  <2>1. First(q, k) \in Seq(Header) /\ Len(First(q, k)) = k
    BY FirstOnes
  <2>2. QED
    BY <2>1, PairsConcat DEF Pair
<1> HIDE DEF rep
<1>10. Min({ Len(rep), I }) = n /\ Min({ Len(rep), J }) = n
  <2>1. I \in Nat /\ J \in Nat /\ k \in Nat
    BY <1>1, <1>3, <1>5, <1>6
  <2>2. Min({ k, I }) = (IF k <= I THEN k ELSE I) /\ Min({ k, J }) = (IF k <= J THEN k ELSE J)
    BY <2>1, LesserOfTwo
  <2>3. QED
    BY <1>8, <1>9, <2>2
<1>11. QED
  BY <1>10 DEF ShownOf, I, J, qq, ll, rep

LEMMA ShownIs ==
  /\ Shown = IF Aligned THEN ShownOf(reported, passedOn, log, since.log) ELSE << >>
  /\ Shown' = IF Aligned' THEN ShownOf(reported', passedOn', log', since'.log) ELSE << >>
<1>1. Complete = InOrder(passedOn, log, since.log)
  BY DEF Complete, InOrder
<1>2. Complete' = InOrder(passedOn', log', since'.log)
  BY DEF Complete, InOrder
<1>3. QED
  BY <1>1, <1>2 DEF Shown, ShownOf

(* The bound of the model, and the place where a connection began.         *)
LEMMA NumbersBounded ==
  ASSUME FramingInv, RoomInv, NEW c \in Sender
  PROVE  /\ curMsgId[c] <= MaxMessages
         /\ SumFunction([curMsgId EXCEPT ![c] = @ + 1]) = SumFunction(curMsgId) + 1
<1> DEFINE others == [x \in Sender \ {c} |-> curMsgId[x]]
           more == [curMsgId EXCEPT ![c] = @ + 1]
<1>1. curMsgId \in [Sender -> Nat] /\ IsFiniteSet(Sender)
  BY FramingAssumption DEF FramingInv, TypeOK
<1>2. /\ more \in [Sender -> Nat] /\ more[c] = curMsgId[c] + 1
      /\ \A x \in Sender \ {c} : more[x] = curMsgId[x]
  BY <1>1
<1>3. others \in [Sender \ {c} -> Nat] /\ \A x \in Sender \ {c} : others[x] = curMsgId[x]
  BY <1>1
<1> HIDE DEF others, more
<1>4. SumFunction(others) \in Nat
  <2>1. IsFiniteSet(Sender \ {c})
    BY <1>1, FS_RemoveElement
  <2>2. PICK S : S = Sender \ {c}
    OBVIOUS
  <2>3. IsFiniteSet(Cells(others, S)) /\ SumFunction(others) = Cardinality(Cells(others, S))
    BY <1>3, <2>1, <2>2, SumIsCells
  <2>4. QED
    BY <2>3, FS_CardinalityType
<1>5. SumFunction(curMsgId) = curMsgId[c] + SumFunction(others)
  BY <1>1, <1>3, SumOfOthers
<1>6. SumFunction(more) = more[c] + SumFunction(others)
  <2>1. \A x \in Sender \ {c} : others[x] = more[x]
    BY <1>2, <1>3
  <2>2. QED
    BY <1>1, <1>2, <1>3, <2>1, SumOfOthers
<1>7. curMsgId[c] \in Nat /\ SumFunction(curMsgId) <= MaxMessages /\ MaxMessages \in Nat
  BY <1>1, FramingAssumption DEF RoomInv
<1>8. QED
  BY <1>2, <1>4, <1>5, <1>6, <1>7 DEF more

LEMMA RoomInvInit == Init => RoomInv
<1> SUFFICES ASSUME Init PROVE RoomInv
  OBVIOUS
<1>1. since.log = 0 /\ passedOn = << >> /\ log = << >> /\ earlier = << >>
  BY DEF Init
<1>2. curMsgId = [c \in Sender |-> 0]
  BY DEF Init
<1>3. SumFunction(curMsgId) = 0
  <2>1. curMsgId \in [Sender -> Nat] /\ IsFiniteSet(Sender)
    BY <1>2, FramingAssumption
  <2>2. Cells(curMsgId, Sender) = {}
    BY <1>2 DEF Cells
  <2>3. QED
    BY <2>1, <2>2, SumIsCells, FS_EmptySet
<1>4. 0 <= MaxMessages
  BY FramingAssumption
<1>5. << >> \in Seq([src : Sender, seq : Nat])
  OBVIOUS
<1>6. QED
  BY <1>1, <1>3, <1>4, <1>5 DEF RoomInv

LEMMA RoomInvKept == FramingInv /\ RoomInv /\ [Next]_vars => RoomInv'
<1> SUFFICES ASSUME FramingInv, RoomInv, [Next]_vars PROVE RoomInv'
  OBVIOUS
<1>0. /\ since.log \in Nat /\ since.log + Len(passedOn) <= Len(log)
      /\ earlier \in Seq(Pair) /\ SumFunction(curMsgId) <= MaxMessages
      /\ log \in Seq(Header) /\ passedOn \in Seq(Header)
  BY DEF FramingInv, TypeOK, RoomInv, Pair
<1>1. ASSUME NEW c \in Sender, SendMessage(c) PROVE RoomInv'
  <2>1. /\ UNCHANGED << since, passedOn, log, earlier >>
        /\ curMsgId' = [curMsgId EXCEPT ![c] = @ + 1]
        /\ SumFunction(curMsgId) < MaxMessages
    BY <1>1 DEF SendMessage, listenerVars, downVars
  <2>2. SumFunction(curMsgId') = SumFunction(curMsgId) + 1
    BY <2>1, NumbersBounded
  <2>3. SumFunction(curMsgId) \in Nat
    <3>1. curMsgId \in [Sender -> Nat] /\ IsFiniteSet(Sender)
      BY FramingAssumption DEF FramingInv, TypeOK
    <3>2. QED
      BY <3>1, SumIsCells, FS_CardinalityType
  <2>4. SumFunction(curMsgId') <= MaxMessages
    BY <2>1, <2>2, <2>3, FramingAssumption
  <2>5. QED
    BY <1>0, <2>1, <2>4 DEF RoomInv, Pair
<1>2. ASSUME NEW c \in Sender, RebroadcastIncomingMsg(c) PROVE RoomInv'
  <2>1. PICK k, m, pos, body, new, some : Relays(c, k, m, pos, body, new, some)
    BY <1>2, RebroadcastReads
  <2>2. /\ new \in Seq(Header) /\ some \in Seq(Header) /\ Len(some) <= Len(new)
        /\ log' = log \o new /\ passedOn' = passedOn \o some
        /\ UNCHANGED << curMsgId, since, earlier >>
    BY <2>1 DEF Relays, SomeOf
  <2>3. Len(log') = Len(log) + Len(new) /\ Len(passedOn') = Len(passedOn) + Len(some)
    BY <1>0, <2>2, ConcatProperties
  <2>4. /\ Len(log) \in Nat /\ Len(new) \in Nat /\ Len(passedOn) \in Nat
        /\ Len(some) \in Nat
    BY <1>0, <2>2
  <2>5. since.log + Len(passedOn') <= Len(log')
    BY <1>0, <2>2, <2>3, <2>4
  <2>6. QED
    BY <1>0, <2>2, <2>5 DEF RoomInv, Pair
<1>3. CASE OnRecvMessage
  <2>1. UNCHANGED << since, passedOn, log, earlier, curMsgId >>
    BY <1>3 DEF OnRecvMessage, upVars, downVars
  <2>2. QED
    BY <1>0, <2>1 DEF RoomInv, Pair
<1>4. ASSUME NEW c \in Sender, ReconnectSender(c) PROVE RoomInv'
  <2>1. UNCHANGED << since, passedOn, log, earlier, curMsgId >>
    BY <1>4 DEF ReconnectSender, listenerVars, downVars
  <2>2. QED
    BY <1>0, <2>1 DEF RoomInv, Pair
<1>5. CASE OnError
  <2>1. UNCHANGED << since, passedOn, log, curMsgId >> /\ earlier' = earlier \o Shown /\ attached
    BY <1>5 DEF OnError, upVars, downVars
  <2>2. Shown \in Seq(Pair)
    <3>1. CASE ~ Aligned
      BY <3>1 DEF Shown
    <3>2. CASE Aligned
      <4> DEFINE k == Len(reported)
      <4>1. k \in 0 .. Len(passedOn) /\ reported = Pairs(First(passedOn, k))
        BY <2>1, <3>2 DEF FramingInv, DownInv, StandsAt
      <4> HIDE DEF k
      <4>2. ShownOf(reported, passedOn, log, since.log) \in Seq(Pair)
        <5>1. PICK n : Shows(n, k, passedOn, log, since.log)
          BY <1>0, <4>1, ShownOfIs
        <5>2. QED
          BY <4>1, <5>1 DEF Shows
      <4>3. QED
        BY <3>2, <4>2, ShownIs
    <3>3. QED
      BY <3>1, <3>2
  <2>3. earlier' \in Seq(Pair)
    BY <1>0, <2>1, <2>2, ConcatProperties
  <2>4. QED
    BY <1>0, <2>1, <2>3 DEF RoomInv, Pair
<1>6. CASE Connect
  <2>1. /\ since'.log = Len(log) /\ passedOn' = << >>
        /\ UNCHANGED << log, earlier, curMsgId >>
    BY <1>6 DEF Connect, upVars
  <2>2. Len(log) \in Nat /\ Len(passedOn') = 0
    BY <1>0, <2>1
  <2>3. since'.log \in Nat /\ since'.log + Len(passedOn') <= Len(log')
    BY <2>1, <2>2
  <2>4. QED
    BY <1>0, <2>1, <2>3 DEF RoomInv, Pair
<1>7. CASE UNCHANGED vars
  <2>1. UNCHANGED << since, passedOn, log, earlier, curMsgId >>
    BY <1>7 DEF vars, upVars, listenerVars, downVars
  <2>2. QED
    BY <1>0, <2>1 DEF RoomInv, Pair
<1>8. QED
  BY <1>1, <1>2, <1>3, <1>4, <1>5, <1>6, <1>7 DEF Next

(* Every step of the chat is a step of the room, or none.                  *)
LEMMA RoomStutters ==
  ASSUME log' = log, Member' <=> Member, earlier' = earlier,
         Member => since'.log = since.log /\ Shown' = Shown
  PROVE  UNCHANGED Room!roomVars
<1>1. Pairs(log)' = Pairs(log)
  BY DEF Pairs
<1>2. Members' = Members
  BY DEF Members
<1>3. Cursors' = Cursors
  BY DEF Cursors
<1>4. Views' = Views
  BY DEF Views
<1>5. QED
  BY <1>1, <1>2, <1>3, <1>4 DEF Room!roomVars

LEMMA LogPosts ==
  ASSUME FramingInv, RoomInv, FramingInv', NEW c \in Sender, RebroadcastIncomingMsg(c)
  PROVE  Room!RoomNext \/ UNCHANGED Room!roomVars
<1>1. PICK k, m, pos, body, new, some : Relays(c, k, m, pos, body, new, some)
  BY RebroadcastReads
<1>2. /\ new \in Seq(Header) /\ some \in Seq(Header) /\ Len(some) <= Len(new)
      /\ log' = log \o new /\ passedOn' = passedOn \o some
      /\ UNCHANGED << curMsgId, written, attached, reported, since, earlier >>
  BY <1>1 DEF Relays, SomeOf
<1>3. /\ log \in Seq(Header) /\ passedOn \in Seq(Header)
      /\ since.log \in Nat /\ since.log + Len(passedOn) <= Len(log)
  BY DEF FramingInv, TypeOK, RoomInv
<1>4. /\ Member' <=> Member
      /\ Member => since'.log = since.log /\ Shown' = Shown
  <2>1. (Member' <=> Member) /\ (Aligned' <=> Aligned)
    BY <1>2 DEF Member, Aligned
  <2>2. ASSUME Member PROVE Shown' = Shown
    <3> DEFINE j == Len(reported)
    <3>1. j \in 0 .. Len(passedOn) /\ reported = Pairs(First(passedOn, j)) /\ Aligned
      BY <2>2 DEF FramingInv, DownInv, StandsAt, Member
    <3> HIDE DEF j
    <3>2. ShownOf(Pairs(First(passedOn, j)), passedOn \o some, log \o new, since.log) =
          ShownOf(Pairs(First(passedOn, j)), passedOn, log, since.log)
      BY <1>2, <1>3, <3>1, ShownOfGrows
    <3>3. Shown = ShownOf(reported, passedOn, log, since.log)
      BY <3>1, ShownIs
    <3>4. Shown' = ShownOf(reported, passedOn', log', since.log)
      <4>1. Shown' = IF Aligned' THEN ShownOf(reported', passedOn', log', since'.log) ELSE << >>
        BY ShownIs
      <4>2. QED
        BY <1>2, <2>1, <3>1, <4>1
    <3>5. QED
      BY <1>2, <3>1, <3>2, <3>3, <3>4
  <2>3. QED
    BY <1>2, <2>1, <2>2
<1>5. CASE new = << >>
  <2>1. log' = log
    BY <1>2, <1>3, <1>5
  <2>2. QED
    BY <1>2, <1>4, <2>1, RoomStutters
<1>6. CASE new # << >>
  <2> DEFINE L == Pairs(log)
             N == Pairs(new)
             LL == L \o N
  <2>1. /\ L \in Seq(Pair) /\ Len(L) = Len(log) /\ N \in Seq(Pair) /\ Len(N) = Len(new)
        /\ Pairs(log') = LL
    BY <1>2, <1>3, PairsConcat DEF Pair
  <2>2. Len(new) \in Nat /\ Len(new) > 0 /\ DOMAIN new = 1 .. Len(new)
    BY <1>2, <1>6
  <2>3. ASSUME NEW i \in 1 .. Len(new)
        PROVE  N[i] \in [src : Sender, seq : 0 .. MaxMessages - 1] /\ N[i].src = c
    <3>1. k + i \in DOMAIN written[c] /\ new[i] = written[c][k + i]
      <4>1. written[c] \in Seq(Header)
        BY DEF FramingInv, TypeOK
      <4>2. /\ k \in 0 .. Len(written[c]) /\ m \in k .. Len(written[c]) /\ Len(new) = m - k
            /\ \A h \in 1 .. m - k : new[h] = written[c][k + h]
        BY <1>1 DEF Relays
      <4>3. Len(written[c]) \in Nat /\ DOMAIN written[c] = 1 .. Len(written[c])
        BY <4>1
      <4>4. k + i \in 1 .. Len(written[c])
        BY <4>2, <4>3
      <4>5. QED
        BY <4>2, <4>3, <4>4
    <3>2. new[i].id = c /\ new[i].seq < curMsgId[c]
      BY <3>1 DEF FramingInv, NumbersInv
    <3>3. new[i] \in Header
      BY <1>2
    <3>4. curMsgId[c] <= MaxMessages /\ curMsgId[c] \in Nat /\ MaxMessages \in Nat
      BY NumbersBounded, FramingAssumption DEF FramingInv, TypeOK
    <3>5. new[i].seq \in 0 .. MaxMessages - 1
      BY <3>2, <3>3, <3>4 DEF Header
    <3>6. N[i] = [src |-> new[i].id, seq |-> new[i].seq]
      BY <2>2 DEF Pairs
    <3>7. QED
      BY <3>2, <3>5, <3>6
  <2> HIDE DEF L, N
  <2>4. /\ LL \in Seq(Pair) /\ Len(LL) = Len(L) + Len(N)
        /\ \A i \in 1 .. Len(L) + Len(N) : LL[i] = IF i <= Len(L) THEN L[i] ELSE N[i - Len(L)]
    <3>1. L \in Seq(Pair) /\ N \in Seq(Pair)
      BY <2>1
    <3>2. QED
      BY <3>1, ConcatProperties
  <2> HIDE DEF LL
  <2>5. Len(L) \in Nat /\ Len(N) \in Nat /\ Len(N) > 0 /\ DOMAIN LL = 1 .. Len(L) + Len(N)
    BY <2>1, <2>2, <2>4
  <2>6. Len(LL) > Len(L)
    BY <2>4, <2>5
  <2>7. SubSeq(LL, 1, Len(L)) = L
    <3>1. Len(L) \in 0 .. Len(LL)
      BY <2>4, <2>5
    <3>2. /\ First(LL, Len(L)) \in Seq(Pair) /\ Len(First(LL, Len(L))) = Len(L)
          /\ \A i \in 1 .. Len(L) : First(LL, Len(L))[i] = LL[i]
      BY <2>4, <3>1, FirstOnes
    <3>3. \A i \in 1 .. Len(L) : LL[i] = L[i]
      BY <2>4, <2>5
    <3>4. First(LL, Len(L)) = L
      BY <2>1, <3>2, <3>3, SeqEqual
    <3>5. QED
      BY <3>4 DEF First
  <2>8. ASSUME NEW i \in DOMAIN LL, i > Len(L)
        PROVE  LL[i] \in [src : Sender, seq : 0 .. MaxMessages - 1] /\ LL[i].src = c
    <3>1. i - Len(L) \in 1 .. Len(new) /\ LL[i] = N[i - Len(L)]
      BY <2>1, <2>4, <2>5, <2>8
    <3>2. QED
      BY <2>3, <3>1
  <2>9. Room!Numbered(LL)
    <3>1. LL = Pairs(log') /\ Rising(log')
      BY <2>1 DEF FramingInv, NumbersInv
    <3>2. \A i \in DOMAIN log' : LL[i] = [src |-> log'[i].id, seq |-> log'[i].seq]
      BY <3>1 DEF Pairs
    <3>3. DOMAIN LL = DOMAIN log'
      BY <3>1 DEF Pairs
    <3>4. QED
      BY <3>1, <3>2, <3>3 DEF Room!Numbered, Rising
  <2>10. Members' = Members /\ Cursors' = Cursors /\ Views' = Views
    BY <1>2, <1>4 DEF Members, Cursors, Views
  <2>11. Pairs(log)' = LL /\ Pairs(log) = L
    BY <2>1 DEF L, Pairs
  <2>12. Room!Post(c)
    BY <2>6, <2>7, <2>8, <2>9, <2>10, <2>11 DEF Room!Post
  <2>13. c \in Everyone
    BY DEF Everyone
  <2>14. QED
    BY <2>12, <2>13 DEF Room!RoomNext
<1>7. QED
  BY <1>5, <1>6

(* From the n-th to the m-th message of a connection, what is shown is     *)
(* what the log has there.                                                 *)
LEMMA ReadsOn ==
  ASSUME NEW q \in Seq(Header), NEW l \in Seq(Header), NEW from \in Nat,
         from + Len(q) <= Len(l), NEW n \in Nat, NEW m \in n .. InOrder(q, l, from)
  PROVE  Room!Reads(SubSeq(Pairs(q), n + 1, m), Pairs(l), Listener, from + n, from + m)
<1> DEFINE I == InOrder(q, l, from)
           P == Pairs(q)
           L == Pairs(l)
           news == SubSeq(P, n + 1, m)
           places == { h \in from + n + 1 .. from + m : L[h].src # Listener }
           at == [i \in DOMAIN news |-> from + n + i]
<1>1. /\ I \in 0 .. Len(q)
      /\ \A i \in 1 .. Len(q) : i <= I <=> \A j \in 1 .. i : q[j] = l[from + j]
  BY InOrderIs
<1>2. Len(q) \in Nat /\ Len(l) \in Nat /\ m \in n .. I /\ I <= Len(q) /\ I \in Nat
  BY <1>1
<1> HIDE DEF I
<1>3. ASSUME NEW i \in 1 .. m PROVE q[i] = l[from + i]
  <2>1. m \in 1 .. Len(q) /\ m <= I /\ i \in 1 .. m
    BY <1>2
  <2>2. QED
    BY <1>1, <2>1
<1>4. /\ P \in Seq(Pair) /\ Len(P) = Len(q) /\ DOMAIN P = 1 .. Len(q)
      /\ \A i \in 1 .. Len(q) : P[i] = [src |-> q[i].id, seq |-> q[i].seq]
  <2>1. P \in Seq(Pair) /\ Len(P) = Len(q)
    BY PairsConcat DEF Pair
  <2>2. DOMAIN q = 1 .. Len(q)
    OBVIOUS
  <2>3. QED
    BY <2>1, <2>2 DEF Pairs
<1>5. /\ DOMAIN L = 1 .. Len(l)
      /\ \A i \in 1 .. Len(l) : L[i] = [src |-> l[i].id, seq |-> l[i].seq]
  BY DEF Pairs
<1>6. \A h \in 1 .. Len(l) : L[h].src # Listener
  <2> SUFFICES ASSUME NEW h \in 1 .. Len(l) PROVE L[h].src # Listener
    OBVIOUS
  <2>1. l[h] \in Header
    OBVIOUS
  <2>2. L[h].src = l[h].id
    BY <1>5
  <2> HIDE DEF L
  <2>3. QED
    BY <2>1, <2>2, ListenerAssumption DEF Header
<1> HIDE DEF P, L
<1>7. /\ news \in Seq(Pair) /\ Len(news) = m - n
      /\ \A i \in 1 .. m - n : news[i] = P[n + i]
  <2>1. n \in 0 .. Len(P) /\ m \in n .. Len(P)
    BY <1>2, <1>4
  <2>2. QED
    BY <1>4, <2>1, FirstAndRest
<1> HIDE DEF news
<1>8. DOMAIN news = 1 .. m - n
  BY <1>2, <1>7
<1>9. ASSUME NEW i \in 1 .. m - n
      PROVE  /\ from + n + i \in from + n + 1 .. from + m
             /\ from + n + i \in 1 .. Len(l)
             /\ news[i] = L[from + n + i]
  <2>1. PICK h \in 1 .. m : h = n + i
    BY <1>2
  <2>2. h \in 1 .. Len(q) /\ from + h \in 1 .. Len(l) /\ from + h = from + n + i
    BY <1>2, <2>1
  <2>3. from + n + i \in from + n + 1 .. from + m
    BY <1>2, <2>1
  <2>4. P[h] = L[from + h]
    BY <1>3, <1>4, <1>5, <2>1, <2>2
  <2>5. news[i] = P[h]
    BY <1>7, <2>1
  <2>6. QED
    BY <2>2, <2>3, <2>4, <2>5
<1>10. \A h \in from + n + 1 .. from + m : h \in 1 .. Len(l)
  BY <1>2
<1>11. at \in [DOMAIN news -> places]
  BY <1>6, <1>8, <1>9
<1>12. \A i, j \in DOMAIN news : i < j => at[i] < at[j]
  BY <1>2, <1>8
<1>13. \A i \in DOMAIN news : news[i] = L[at[i]]
  BY <1>8, <1>9
<1>14. ASSUME NEW h \in from + n + 1 .. from + m
       PROVE  \E i \in DOMAIN news : at[i] = h
  <2>1. PICK i \in 1 .. m - n : h = from + n + i
    <3>1. h - (from + n) \in 1 .. m - n /\ h = from + n + (h - (from + n))
      BY <1>2
    <3>2. QED
      BY <3>1
  <2>2. QED
    BY <1>8, <2>1
<1> HIDE DEF at
<1>15. Room!Reads(news, L, Listener, from + n, from + m)
  BY <1>11, <1>12, <1>13, <1>14 DEF Room!Reads
<1>16. QED
  BY <1>15 DEF news, P, L

LEMMA PairsAssociate ==
  ASSUME NEW x \in Seq(Pair), NEW y \in Seq(Pair), NEW z \in Seq(Pair)
  PROVE  (x \o y) \o z = x \o (y \o z)
<1> DEFINE left == (x \o y) \o z
           right == x \o (y \o z)
<1>1. left \in Seq(Pair) /\ right \in Seq(Pair) /\ Len(left) = Len(right)
  OBVIOUS
<1>2. \A i \in 1 .. Len(left) : left[i] = right[i]
  OBVIOUS
<1> HIDE DEF left, right
<1>3. left = right
  BY <1>1, <1>2, SeqEqual
<1>4. QED
  BY <1>3 DEF left, right

LEMMA RestOfConcat ==
  ASSUME NEW x \in Seq(Pair), NEW y \in Seq(Pair)
  PROVE  SubSeq(x \o y, Len(x) + 1, Len(x \o y)) = y
<1> DEFINE xy == x \o y
           n == Len(x)
           rest == SubSeq(xy, n + 1, Len(xy))
<1>1. /\ xy \in Seq(Pair) /\ Len(xy) = Len(x) + Len(y)
      /\ \A i \in 1 .. Len(x) + Len(y) : xy[i] = IF i <= Len(x) THEN x[i] ELSE y[i - Len(x)]
  BY ConcatProperties
<1>2. n \in Nat /\ Len(y) \in Nat
  OBVIOUS
<1> HIDE DEF xy
<1>3. n \in 0 .. Len(xy) /\ Len(xy) \in n .. Len(xy) /\ Len(xy) - n = Len(y)
  BY <1>1, <1>2
<1>4. /\ rest \in Seq(Pair) /\ Len(rest) = Len(xy) - n
      /\ \A i \in 1 .. Len(xy) - n : rest[i] = xy[n + i]
  BY <1>1, <1>3, FirstAndRest
<1> HIDE DEF rest
<1>5. ASSUME NEW i \in 1 .. Len(y) PROVE rest[i] = y[i]
  <2>1. n + i \in 1 .. Len(x) + Len(y) /\ ~ (n + i <= Len(x)) /\ n + i - Len(x) = i
    BY <1>2
  <2>2. xy[n + i] = y[n + i - Len(x)]
    BY <1>1, <2>1
  <2>3. rest[i] = xy[n + i]
    BY <1>3, <1>4
  <2>4. QED
    BY <2>1, <2>2, <2>3
<1>6. rest = y
  BY <1>3, <1>4, <1>5, SeqEqual
<1>7. QED
  BY <1>6 DEF rest, xy, n

LEMMA ListenerReads ==
  ASSUME FramingInv, RoomInv, FramingInv', OnRecvMessage
  PROVE  Room!RoomNext \/ UNCHANGED Room!roomVars
<1>1. attached /\ UNCHANGED << attached, since, earlier, passedOn, log >>
  BY DEF OnRecvMessage, downVars
<1>2. /\ log \in Seq(Header) /\ passedOn \in Seq(Header) /\ earlier \in Seq(Pair)
      /\ since.log \in Nat /\ since.log + Len(passedOn) <= Len(log)
  BY DEF FramingInv, TypeOK, RoomInv, Pair
<1>3. (Aligned' <=> Aligned) /\ (Member' <=> Member) /\ (Member <=> Aligned)
  BY <1>1 DEF Aligned, Member
<1>4. CASE ~ Aligned
  BY <1>1, <1>3, <1>4, RoomStutters
<1>5. CASE Aligned
  <2> DEFINE k == Len(reported)
             I == InOrder(passedOn, log, since.log)
             P == Pairs(passedOn)
  <2>1. PICK j \in k .. Len(passedOn) : reported' = Pairs(First(passedOn, j)) /\ Len(reported') = j
    BY <1>5, RecvReads
  <2>2. k \in 0 .. Len(passedOn) /\ reported = Pairs(First(passedOn, k))
    BY <1>1, <1>5 DEF FramingInv, DownInv, StandsAt
  <2> HIDE DEF k
  <2>3. j \in 0 .. Len(passedOn) /\ k <= j /\ I \in 0 .. Len(passedOn) /\ Len(passedOn) \in Nat
    BY <1>2, <2>1, <2>2, InOrderIs
  <2>4. PICK n : Shows(n, k, passedOn, log, since.log)
    BY <1>2, <2>2, ShownOfIs
  <2>5. PICK m : Shows(m, j, passedOn, log, since.log)
    BY <1>2, <2>3, ShownOfIs
  <2>6. /\ n \in 0 .. k /\ n = IF k <= I THEN k ELSE I
        /\ ShownOf(Pairs(First(passedOn, k)), passedOn, log, since.log) = First(P, n)
        /\ First(P, n) \in Seq(Pair) /\ Len(First(P, n)) = n
    BY <2>4 DEF Shows
  <2>7. /\ m \in 0 .. j /\ m = IF j <= I THEN j ELSE I
        /\ ShownOf(Pairs(First(passedOn, j)), passedOn, log, since.log) = First(P, m)
        /\ First(P, m) \in Seq(Pair) /\ Len(First(P, m)) = m
    BY <2>5 DEF Shows
  <2>8. Shown = First(P, n) /\ Shown' = First(P, m)
    BY <1>1, <1>3, <1>5, <2>1, <2>2, <2>6, <2>7, ShownIs
  <2>9. P \in Seq(Pair) /\ Len(P) = Len(passedOn)
    BY <1>2, PairsConcat DEF Pair
  <2> HIDE DEF P, I
  <2>10. n \in Nat /\ m \in n .. I /\ n \in 0 .. Len(P) /\ m \in n .. Len(P)
    BY <2>2, <2>3, <2>6, <2>7, <2>9
  <2>11. CASE n = m
    BY <1>1, <1>3, <2>8, <2>11, RoomStutters
  <2>12. CASE n # m
    <3> DEFINE news == SubSeq(P, n + 1, m)
               from == since.log
    <3>1. news \in Seq(Pair) /\ First(P, m) = First(P, n) \o news
      BY <2>9, <2>10, FirstAndRest
    <3> HIDE DEF news
    <3> DEFINE before == earlier \o First(P, n)
               after == earlier \o First(P, m)
    <3>2. before \in Seq(Pair) /\ after \in Seq(Pair)
      BY <1>2, <2>6, <2>7, ConcatProperties
    <3>3. after = before \o news
      <4>1. (earlier \o First(P, n)) \o news = earlier \o (First(P, n) \o news)
        BY <1>2, <2>6, <3>1, PairsAssociate
      <4>2. QED
        BY <3>1, <4>1
    <3> HIDE DEF before, after
    <3>4. SubSeq(after, Len(before) + 1, Len(after)) = news
      BY <3>1, <3>2, <3>3, RestOfConcat
    <3>5. /\ Members[Listener] /\ Members' = Members
      BY <1>3, <1>5 DEF Members, Everyone
    <3>6. Cursors[Listener] = from + n /\ Cursors' = [Cursors EXCEPT ![Listener] = from + m]
      <4>1. Cursors = [c \in Everyone |-> IF c = Listener THEN from + n ELSE 0]
        BY <1>3, <1>5, <2>6, <2>8 DEF Cursors
      <4>2. Cursors' = [c \in Everyone |-> IF c = Listener THEN from + m ELSE 0]
        BY <1>1, <1>3, <1>5, <2>7, <2>8 DEF Cursors
      <4>3. Listener \in Everyone
        BY DEF Everyone
      <4>4. QED
        BY <4>1, <4>2, <4>3
    <3>7. /\ Views[Listener] = before /\ Views'[Listener] = after
          /\ Views' = [Views EXCEPT ![Listener] = before \o news]
      <4>1. Views = [c \in Everyone |-> IF c # Listener THEN << >> ELSE before]
        BY <1>3, <1>5, <2>8 DEF Views, before
      <4>2. Views' = [c \in Everyone |-> IF c # Listener THEN << >> ELSE after]
        BY <1>1, <1>3, <1>5, <2>8 DEF Views, after
      <4>3. Listener \in Everyone
        BY DEF Everyone
      <4>4. QED
        BY <3>3, <4>1, <4>2, <4>3
    <3>8. from + m \in from + n + 1 .. Len(Pairs(log)) /\ Pairs(log)' = Pairs(log)
      <4>1. Len(Pairs(log)) = Len(log) /\ Len(log) \in Nat
        BY <1>2, PairsConcat
      <4>2. Pairs(log)' = Pairs(log)
        BY <1>1 DEF Pairs
      <4>3. QED
        BY <1>2, <2>9, <2>10, <2>12, <4>1, <4>2
    <3>9. Room!Reads(news, Pairs(log), Listener, from + n, from + m)
      BY <1>2, <2>10, ReadsOn DEF I, news, P
    <3> HIDE DEF from
    <3>10. Room!Read(Listener)
      <4>1. SubSeq(Views'[Listener], Len(Views[Listener]) + 1, Len(Views'[Listener])) = news
        BY <3>4, <3>7
      <4>2. from + m \in Cursors[Listener] + 1 .. Len(Pairs(log))
        BY <3>6, <3>8
      <4>3. Room!Reads(news, Pairs(log), Listener, Cursors[Listener], from + m)
        BY <3>6, <3>9
      <4>4. Views' = [Views EXCEPT ![Listener] = @ \o news]
        BY <3>7
      <4>5. QED
        BY <3>5, <3>6, <3>8, <4>1, <4>2, <4>3, <4>4 DEF Room!Read
    <3>11. Listener \in Everyone
      BY DEF Everyone
    <3>12. QED
      BY <3>10, <3>11 DEF Room!RoomNext
  <2>13. QED
    BY <2>11, <2>12
<1>6. QED
  BY <1>4, <1>5

LEMMA ListenerLeaves ==
  ASSUME FramingInv, RoomInv, OnError
  PROVE  Room!RoomNext \/ UNCHANGED Room!roomVars
<1>1. /\ attached /\ attached' = FALSE /\ earlier' = earlier \o Shown
      /\ UNCHANGED << since, log >> /\ ~ Member'
  BY DEF OnError, Member
<1>2. earlier \in Seq(Pair) /\ Pairs(log)' = Pairs(log)
  BY <1>1 DEF RoomInv, Pair, Pairs
<1>3. CASE ~ Aligned
  <2>1. Shown = << >> /\ earlier' = earlier
    BY <1>1, <1>2, <1>3, ConcatEmptySeq DEF Shown
  <2>2. ~ Member
    BY <1>3 DEF Member
  <2>3. QED
    BY <1>1, <2>1, <2>2, RoomStutters
<1>4. CASE Aligned
  <2>1. Member
    BY <1>1, <1>4 DEF Member
  <2>2. Listener \in Everyone
    BY DEF Everyone
  <2>3. Members[Listener] /\ Members' = [Members EXCEPT ![Listener] = FALSE]
    BY <1>1, <2>1, <2>2 DEF Members
  <2>4. Cursors' = [Cursors EXCEPT ![Listener] = 0]
    BY <1>1, <2>2 DEF Cursors
  <2>5. Views' = Views
    BY <1>1, <2>1 DEF Views
  <2>6. Room!Leave(Listener)
    BY <1>2, <2>3, <2>4, <2>5 DEF Room!Leave
  <2>7. QED
    BY <2>2, <2>6 DEF Room!RoomNext
<1>5. QED
  BY <1>3, <1>4

LEMMA ListenerJoins ==
  ASSUME FramingInv, RoomInv, Connect
  PROVE  Room!RoomNext \/ UNCHANGED Room!roomVars
<1>1. /\ ~ attached /\ attached' = TRUE /\ passedOn' = << >>
      /\ since' = [body |-> cliBody, log |-> Len(log)]
      /\ UNCHANGED << reported, earlier, log >>
  BY DEF Connect
<1>2. reported' = << >> /\ log \in Seq(Header) /\ earlier \in Seq(Pair) /\ ~ Member
  BY <1>1 DEF FramingInv, TypeOK, DownInv, RoomInv, Pair, Member
<1>3. CASE ~ Aligned'
  <2>1. ~ Member'
    BY <1>3 DEF Member
  <2>2. QED
    BY <1>1, <1>2, <2>1, RoomStutters
<1>4. CASE Aligned'
  <2>1. Member' /\ since'.log = Len(log)
    BY <1>1, <1>4 DEF Member
  <2>2. Shown' = << >>
    <3>1. Shown' = SubSeq(<< >>, 1, Min({ 0, InOrder(passedOn', log', since'.log) }))
      BY <1>2, <1>4, ShownIs DEF ShownOf
    <3>2. InOrder(passedOn', log', since'.log) = 0
      <4>1. DOMAIN passedOn' = {}
        BY <1>1
      <4>2. QED
        BY <4>1, FS_EmptySet DEF InOrder
    <3>3. Min({0, 0}) = 0
      BY LesserOfTwo
    <3>4. SubSeq(<< >>, 1, 0) = << >>
      BY SubSeqEmpty
    <3>5. QED
      BY <3>1, <3>2, <3>3, <3>4
  <2>3. Listener \in Everyone
    BY DEF Everyone
  <2>4. Pairs(log)' = Pairs(log) /\ Len(Pairs(log)) = Len(log) /\ Len(log) \in Nat
    BY <1>1, <1>2, PairsConcat DEF Pairs
  <2>5. ~ Members[Listener] /\ Members' = [Members EXCEPT ![Listener] = TRUE]
    BY <1>2, <2>1, <2>3 DEF Members
  <2>6. Cursors' = [Cursors EXCEPT ![Listener] = Len(Pairs(log))]
    <3>1. Cursors = [c \in Everyone |-> 0]
      BY <1>2 DEF Cursors
    <3>2. since'.log + Len(Shown') = Len(log)
      BY <2>1, <2>2, <2>4
    <3>3. Cursors' = [c \in Everyone |-> IF c = Listener THEN Len(log) ELSE 0]
      BY <2>1, <3>2 DEF Cursors
    <3>4. QED
      BY <2>3, <2>4, <3>1, <3>3
  <2>7. Views' = Views
    <3>1. earlier \o << >> = earlier
      BY <1>2, ConcatEmptySeq
    <3>2. QED
      BY <1>1, <1>2, <2>1, <2>2, <3>1 DEF Views
  <2>8. Room!Join(Listener)
    BY <2>4, <2>5, <2>6, <2>7 DEF Room!Join
  <2>9. QED
    BY <2>3, <2>8 DEF Room!RoomNext
<1>5. QED
  BY <1>3, <1>4

(* Wherever deliveries end and whichever connection breaks, the chat on    *)
(* the level of words is a chat room (SendMessage, RebroadcastIncomingMsg, *)
(* OnRecvMessage, OnError and the connections).                            *)
THEOREM FramingImplementsChatRoom == Spec => RoomImplemented
<1>1. Init => Room!RoomInit
  <2> SUFFICES ASSUME Init PROVE Room!RoomInit
    OBVIOUS
  <2>1. ~ Member /\ earlier = << >> /\ log = << >>
    BY DEF Init, Member
  <2>2. Pairs(log) = << >>
    BY <2>1, NothingToRead
  <2>3. Members = [c \in Everyone |-> FALSE]
    BY <2>1 DEF Members
  <2>4. Cursors = [c \in Everyone |-> 0]
    BY <2>1 DEF Cursors
  <2>5. Views = [c \in Everyone |-> << >>]
    BY <2>1 DEF Views
  <2>6. QED
    BY <2>2, <2>3, <2>4, <2>5 DEF Room!RoomInit
<1>2. FramingInv /\ RoomInv /\ FramingInv' /\ [Next]_vars => [Room!RoomNext]_(Room!roomVars)
  <2> SUFFICES ASSUME FramingInv, RoomInv, FramingInv', [Next]_vars
               PROVE  Room!RoomNext \/ UNCHANGED Room!roomVars
    OBVIOUS
  <2>1. ASSUME UNCHANGED << attached, reported, passedOn, since, log, earlier >>
        PROVE  UNCHANGED Room!roomVars
    <3>1. (Member' <=> Member) /\ Shown' = Shown
      BY <2>1, ShownIs DEF Member, Aligned
    <3>2. QED
      BY <2>1, <3>1, RoomStutters
  <2>2. ASSUME NEW c \in Sender, SendMessage(c) PROVE UNCHANGED Room!roomVars
    BY <2>1, <2>2 DEF SendMessage, listenerVars, downVars
  <2>3. ASSUME NEW c \in Sender, RebroadcastIncomingMsg(c)
        PROVE  Room!RoomNext \/ UNCHANGED Room!roomVars
    BY <2>3, LogPosts
  <2>4. ASSUME NEW c \in Sender, ReconnectSender(c) PROVE UNCHANGED Room!roomVars
    BY <2>1, <2>4 DEF ReconnectSender, listenerVars, downVars
  <2>5. CASE UNCHANGED vars
    BY <2>1, <2>5 DEF vars, listenerVars, downVars
  <2>6. QED
    BY <2>2, <2>3, <2>4, <2>5, ListenerReads, ListenerLeaves, ListenerJoins DEF Next
<1>3. Spec => [](FramingInv /\ RoomInv)
  <2>1. Init => FramingInv /\ RoomInv
    BY FramingInit, RoomInvInit
  <2>2. FramingInv /\ RoomInv /\ [Next]_vars => RoomInv'
    BY RoomInvKept
  <2>3. QED
    BY <2>1, <2>2, FramingInvariant, PTL DEF Spec
<1>4. QED
  BY <1>1, <1>2, <1>3, PTL DEF Spec, RoomImplemented, Room!RoomSpec
=============================================================================
