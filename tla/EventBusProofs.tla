---------------------------- MODULE EventBusProofs ----------------------------
(***************************************************************************)
(* Theorems about EventBus, for any clients, events and size of the queues:*)
(* what a subscriber gets of the events, whatever the emitting thread and  *)
(* the coroutines of the event loop do in between.                         *)
(***************************************************************************)
EXTENDS EventBus, SequenceTheorems, TLAPS

\* The part of the replay a client has still to get.
Rest(c) == IF Iterating(c) THEN SubSeq(Replayed(c), pos[c], Len(Replayed(c))) ELSE <<>>

Rising(s)   == \A i, j \in 1..Len(s) : i < j => s[i] < s[j]
Below(s, n) == \A i \in 1..Len(s) : s[i] < n

\* The history holds the latest events, as many as it may.
Latest(s, n) ==
  /\ Len(s) = IF n <= MaxQueue THEN n ELSE MaxQueue
  /\ \A i \in 1..Len(s) : s[i] = n - Len(s) + i

HistoryInv == Latest(history, sent)

\* Clients are subscribed from the first step of their request to the last
\* one, and only once.
SubsInv ==
  /\ \A i, j \in 1..Len(subs) : subs[i] = subs[j] => i = j
  /\ \A i \in 1..Len(subs) : cpc[subs[i]] \notin {"out", "gone"}
  /\ \A c \in Clients : cpc[c] \notin {"out", "gone"} => \E i \in 1..Len(subs) : subs[i] = c
  /\ target \in Clients => cpc[target] # "out"

\* A request begins with nothing, and a replay is within its list.
ClientInv ==
  \A c \in Clients :
    /\ cpc[c] = "out" => source[c] = <<>> /\ pos[c] = 1 /\ queue[c] = <<>> /\ got[c] = <<>>
    /\ pos[c] # 0
    /\ Iterating(c) => pos[c] <= Len(Replayed(c)) + 1
    /\ Iterating(c) /\ c \notin raced => epc = "idle"

\* The subscribers the for loop has not come to, and the one it is serving.
Serving(c) == epc \in {"put", "drop", "reput"} /\ target = c
Waiting(c) == epc # "idle" /\ \E i \in idx..Len(subs) : subs[i] = c

LoopInv ==
  /\ epc # "idle" => sent # 0
  /\ idx # 0
  /\ epc \in {"put", "drop", "reput"} =>
       target \in Clients /\ \A i \in idx..Len(subs) : subs[i] # target

\* What has been streamed rises, and the event being emitted is not in it for
\* those it has still to be given to.
OrderInv ==
  \A c \in Clients \ raced :
    /\ Rising(Stream(c))
    /\ Below(Stream(c), sent + 1)
    /\ Serving(c) \/ Waiting(c) => Below(Stream(c), sent)

\* A subscriber gets what has been emitted, and the event being emitted once
\* the for loop has served it.
CopyInv ==
  \A c \in Clients :
    Subscribed(c) /\ c \notin overran /\ ~Shifted(c) =>
      /\ Emitted \subseteq Range(Stream(c))
      /\ epc # "idle" => sent \in Range(Stream(c)) \/ Serving(c) \/ Waiting(c)

BusInv == HistoryInv /\ SubsInv /\ ClientInv /\ LoopInv /\ OrderInv /\ CopyInv

-----------------------------------------------------------------------------
(* Sequences.                                                              *)

\* list.remove takes out one place and closes the gap.
LEMMA RemovesOne ==
  ASSUME NEW s \in Seq(Clients), NEW k \in 1..Len(s),
         \A i \in 1..Len(s) : s[i] = s[k] => i = k
  PROVE  /\ RemoveFirst(s, s[k]) \in Seq(Clients)
         /\ Len(RemoveFirst(s, s[k])) = Len(s) - 1
         /\ \A i \in 1..Len(s)-1 :
              RemoveFirst(s, s[k])[i] = IF i < k THEN s[i] ELSE s[i+1]
<1> DEFINE I == {i \in 1..Len(s) : s[i] = s[k]}
           a == SubSeq(s, 1, k-1)
           b == SubSeq(s, k+1, Len(s))
<1>1. I = {k}
  OBVIOUS
<1>2. Min(I) = k
  BY <1>1 DEF Min
<1>3. SelectInSeq(s, LAMBDA v: v = s[k]) = k
  BY <1>1, <1>2 DEF SelectInSeq
<1>4. RemoveFirst(s, s[k]) = a \o b
  BY <1>3 DEF RemoveFirst, RemoveAt
<1>5. Len(s) \in Nat
  BY LenProperties
<1>6. /\ a \in Seq(Clients) /\ Len(a) = k - 1
      /\ \A i \in 1..k-1 : a[i] = s[i]
  <2>1. \A i \in 1..k-1 : s[i] \in Clients
    BY <1>5, ElementOfSeq
  <2>2. /\ a \in Seq(Clients)
        /\ Len(a) = IF 1 <= k-1 THEN (k-1)-1+1 ELSE 0
        /\ \A i \in 1..(k-1)-1+1 : a[i] = s[1+i-1]
    BY <1>5, <2>1, SubSeqProperties
  <2>. QED  BY <1>5, <2>2
<1>7. /\ b \in Seq(Clients) /\ Len(b) = Len(s) - k
      /\ \A i \in 1..Len(s)-k : b[i] = s[k+i]
  <2>1. \A i \in k+1..Len(s) : s[i] \in Clients
    BY <1>5, ElementOfSeq
  <2>2. /\ b \in Seq(Clients)
        /\ Len(b) = IF k+1 <= Len(s) THEN Len(s)-(k+1)+1 ELSE 0
        /\ \A i \in 1..Len(s)-(k+1)+1 : b[i] = s[(k+1)+i-1]
    BY <1>5, <2>1, SubSeqProperties
  <2>. QED  BY <1>5, <2>2
<1>. HIDE DEF a, b
<1>8. /\ a \o b \in Seq(Clients) /\ Len(a \o b) = Len(a) + Len(b)
      /\ \A i \in 1..Len(a)+Len(b) : (a \o b)[i] = IF i <= Len(a) THEN a[i] ELSE b[i - Len(a)]
  BY <1>6, <1>7, ConcatProperties
<1>9. Len(a \o b) = Len(s) - 1
  BY <1>5, <1>6, <1>7, <1>8
<1>10. ASSUME NEW i \in 1..Len(s)-1
       PROVE  (a \o b)[i] = IF i < k THEN s[i] ELSE s[i+1]
  <2>1. (a \o b)[i] = IF i <= k-1 THEN a[i] ELSE b[i - (k-1)]
    BY <1>5, <1>6, <1>7, <1>8
  <2>2. CASE i < k
    BY <1>5, <1>6, <2>1, <2>2
  <2>3. CASE ~(i < k)
    <3>1. i - (k-1) \in 1..Len(s)-k
      BY <1>5, <2>3
    <3>2. k + (i - (k-1)) = i + 1
      BY <1>5
    <3>3. b[i - (k-1)] = s[i+1]
      BY <1>7, <3>1, <3>2
    <3>. QED  BY <1>5, <2>1, <2>3, <3>3
  <2>. QED  BY <2>2, <2>3
<1>. QED  BY <1>4, <1>8, <1>9, <1>10

\* What occurs in two sequences one after the other.
LEMMA RangeOfConcat ==
  ASSUME NEW s \in Seq(Events), NEW t \in Seq(Events)
  PROVE  Range(s \o t) = Range(s) \cup Range(t)
<1>1. /\ Len(s) \in Nat /\ DOMAIN s = 1..Len(s)
      /\ Len(t) \in Nat /\ DOMAIN t = 1..Len(t)
      /\ s \o t \in Seq(Events)
      /\ Len(s \o t) = Len(s) + Len(t)
      /\ \A i \in 1..Len(s)+Len(t) : (s \o t)[i] = IF i <= Len(s) THEN s[i] ELSE t[i - Len(s)]
  BY LenProperties, ConcatProperties
<1>2. DOMAIN (s \o t) = 1..Len(s)+Len(t)
  BY <1>1, LenProperties
<1>3. ASSUME NEW i \in 1..Len(s) PROVE s[i] \in Range(s \o t)
  <2>1. i \in 1..Len(s)+Len(t) /\ (s \o t)[i] = s[i]
    BY <1>1
  <2>. QED  BY <1>2, <2>1 DEF Range
<1>4. ASSUME NEW i \in 1..Len(t) PROVE t[i] \in Range(s \o t)
  <2>1. i + Len(s) \in 1..Len(s)+Len(t) /\ (s \o t)[i + Len(s)] = t[i]
    BY <1>1
  <2>. QED  BY <1>2, <2>1 DEF Range
<1>5. ASSUME NEW i \in 1..Len(s)+Len(t) PROVE (s \o t)[i] \in Range(s) \cup Range(t)
  <2>1. CASE i <= Len(s)
    <3>1. i \in 1..Len(s) /\ (s \o t)[i] = s[i]
      BY <1>1, <2>1
    <3>. QED  BY <1>1, <3>1 DEF Range
  <2>2. CASE ~(i <= Len(s))
    <3>1. i - Len(s) \in 1..Len(t) /\ (s \o t)[i] = t[i - Len(s)]
      BY <1>1, <2>2
    <3>. QED  BY <1>1, <3>1 DEF Range
  <2>. QED  BY <2>1, <2>2
<1>6. Range(s \o t) = {(s \o t)[i] : i \in 1..Len(s)+Len(t)}
  BY <1>2 DEF Range
<1>7. Range(s) = {s[i] : i \in 1..Len(s)} /\ Range(t) = {t[i] : i \in 1..Len(t)}
  BY <1>1 DEF Range
<1>. QED  BY <1>3, <1>4, <1>5, <1>6, <1>7

\* What occurs in a sequence that has got an element more.
LEMMA RangeOfAppend ==
  ASSUME NEW s \in Seq(Events), NEW e \in Events
  PROVE  Range(Append(s, e)) = Range(s) \cup {e}
<1>1. /\ Len(s) \in Nat /\ DOMAIN s = 1..Len(s)
      /\ Append(s, e) \in Seq(Events)
      /\ Len(Append(s, e)) = Len(s) + 1
      /\ \A i \in 1..Len(s) : Append(s, e)[i] = s[i]
      /\ Append(s, e)[Len(s)+1] = e
  BY LenProperties, AppendProperties
<1>2. DOMAIN Append(s, e) = 1..Len(s)+1
  BY <1>1, LenProperties
<1>3. 1..Len(s)+1 = (1..Len(s)) \cup {Len(s)+1}
  BY <1>1
<1>. QED  BY <1>1, <1>2, <1>3 DEF Range

\* An event later than all of a rising sequence may be appended to it.
LEMMA RisingAppend ==
  ASSUME NEW s \in Seq(Events), NEW e \in Events, Rising(s), Below(s, e)
  PROVE  Rising(Append(s, e)) /\ Below(Append(s, e), e + 1)
<1>1. /\ Len(s) \in Nat /\ Append(s, e) \in Seq(Events)
      /\ Len(Append(s, e)) = Len(s) + 1
      /\ \A i \in 1..Len(s) : Append(s, e)[i] = s[i]
      /\ Append(s, e)[Len(s)+1] = e
  BY LenProperties, AppendProperties
<1>0. e \in Nat /\ \A i \in 1..Len(s) : s[i] \in Nat
  BY BusAssumption, LenProperties, ElementOfSeq DEF Events
<1>2. \A i \in 1..Len(s)+1 : i \in 1..Len(s) \/ i = Len(s)+1
  BY <1>1
<1>. DEFINE a == Append(s, e)
<1>. HIDE DEF a
<1>3. /\ Len(a) = Len(s) + 1 /\ a[Len(s)+1] = e
      /\ \A i \in 1..Len(s) : a[i] = s[i] /\ s[i] \in Nat
      /\ e \in Nat
  BY <1>0, <1>1 DEF a
<1>4. Below(a, e + 1)
  BY <1>1, <1>2, <1>3 DEF Below
<1>5. Rising(a)
  <2>. SUFFICES ASSUME NEW i \in 1..Len(s)+1, NEW j \in 1..Len(s)+1, i < j
                PROVE  a[i] < a[j]
    BY <1>3 DEF Rising
  <2>1. i \in 1..Len(s)
    BY <1>1
  <2>2. CASE j \in 1..Len(s)
    BY <1>3, <2>1, <2>2 DEF Rising
  <2>3. CASE j = Len(s) + 1
    BY <1>3, <2>1, <2>3 DEF Below
  <2>. QED  BY <1>2, <2>2, <2>3
<1>. QED  BY <1>4, <1>5 DEF a

\* What was received, what is queued and the rest of the replay, in either grouping.
LEMMA StreamsAssociate ==
  ASSUME NEW s \in Seq(Events), NEW t \in Seq(Events), NEW u \in Seq(Events)
  PROVE  (s \o t) \o u = s \o (t \o u)
BY ConcatAssociative

\* Reading the head of a queue moves it from one end of a stream to the other.
LEMMA HeadMoves ==
  ASSUME NEW g \in Seq(Events), NEW q \in Seq(Events), q # << >>
  PROVE  /\ Head(q) \in Events /\ Tail(q) \in Seq(Events) /\ Len(Tail(q)) = Len(q) - 1
         /\ Append(g, Head(q)) \in Seq(Events)
         /\ Append(g, Head(q)) \o Tail(q) = g \o q
<1>1. /\ Head(q) \in Events /\ Tail(q) \in Seq(Events) /\ Len(Tail(q)) = Len(q) - 1
      /\ q = << Head(q) >> \o Tail(q)
  BY HeadTailProperties, ConcatSimplifications
<1>2. Append(g, Head(q)) = g \o << Head(q) >> /\ Append(g, Head(q)) \in Seq(Events)
  BY <1>1, AppendIsConcat, AppendProperties
<1>3. << Head(q) >> \in Seq(Events)
  BY <1>1
<1>4. (g \o << Head(q) >>) \o Tail(q) = g \o (<< Head(q) >> \o Tail(q))
  BY <1>1, <1>3, StreamsAssociate
<1>. QED  BY <1>1, <1>2, <1>4

\* A put of the replay moves an event from the list to the queue.
LEMMA PutMoves ==
  ASSUME NEW q \in Seq(Events), NEW r \in Seq(Events), NEW p \in 1..Len(r)
  PROVE  /\ r[p] \in Events
         /\ SubSeq(r, p, Len(r)) \in Seq(Events) /\ SubSeq(r, p + 1, Len(r)) \in Seq(Events)
         /\ Append(q, r[p]) \in Seq(Events)
         /\ Append(q, r[p]) \o SubSeq(r, p + 1, Len(r)) = q \o SubSeq(r, p, Len(r))
<1> DEFINE later == SubSeq(r, p + 1, Len(r))
           all   == SubSeq(r, p, Len(r))
           one   == << r[p] >>
<1>1. Len(r) \in Nat /\ r[p] \in Events
  BY LenProperties, ElementOfSeq
<1>2. \A i \in 1..Len(r) : r[i] \in Events
  BY ElementOfSeq
<1>3. later \in Seq(Events) /\ all \in Seq(Events)
  <2>1. \A i \in p+1..Len(r) : r[i] \in Events
    BY <1>1, <1>2
  <2>2. \A i \in p..Len(r) : r[i] \in Events
    BY <1>1, <1>2
  <2>. QED  BY <1>1, <2>1, <2>2, SubSeqProperties
<1>4. all = one \o later
  BY <1>1, SubSeqRecursiveFirst
<1>5. Append(q, r[p]) = q \o one /\ Append(q, r[p]) \in Seq(Events)
  BY <1>1, AppendIsConcat, AppendProperties
<1>6. one \in Seq(Events)
  BY <1>1
<1>. HIDE DEF later, all, one
<1>7. (q \o one) \o later = q \o (one \o later)
  BY <1>3, <1>6, StreamsAssociate
<1>8. Append(q, r[p]) \o later = q \o all
  BY <1>4, <1>5, <1>7
<1>. QED  BY <1>1, <1>3, <1>5, <1>8 DEF later, all

\* The end of a sequence from a position on.
LEMMA SubSeqTyped ==
  ASSUME NEW r \in Seq(Events), NEW p \in Nat \ {0}
  PROVE  /\ SubSeq(r, p, Len(r)) \in Seq(Events)
         /\ Len(SubSeq(r, p, Len(r))) = IF p <= Len(r) THEN Len(r) - p + 1 ELSE 0
         /\ \A i \in 1..Len(r) - p + 1 : SubSeq(r, p, Len(r))[i] = r[p + i - 1]
<1>1. Len(r) \in Nat /\ \A i \in p..Len(r) : r[i] \in Events
  BY LenProperties, ElementOfSeq
<1>. QED  BY <1>1, SubSeqProperties

\* A replay reads on in a list that has grown meanwhile.
LEMMA RangeOfRest ==
  ASSUME NEW r \in Seq(Events), NEW e \in Events, NEW p \in Nat \ {0}
  PROVE  Range(SubSeq(r, p, Len(r))) \subseteq
           Range(SubSeq(Append(r, e), p, Len(Append(r, e))))
<1> DEFINE a == Append(r, e)
           s == SubSeq(r, p, Len(r))
           t == SubSeq(a, p, Len(a))
<1>1. /\ Len(r) \in Nat /\ a \in Seq(Events) /\ Len(a) = Len(r) + 1
      /\ \A i \in 1..Len(r) : a[i] = r[i]
  BY LenProperties, AppendProperties
<1>. HIDE DEF a
<1>2. /\ s \in Seq(Events) /\ Len(s) = IF p <= Len(r) THEN Len(r) - p + 1 ELSE 0
      /\ \A i \in 1..Len(r) - p + 1 : s[i] = r[p + i - 1]
  BY SubSeqTyped
<1>3. /\ t \in Seq(Events) /\ Len(t) = IF p <= Len(a) THEN Len(a) - p + 1 ELSE 0
      /\ \A i \in 1..Len(a) - p + 1 : t[i] = a[p + i - 1]
  BY <1>1, SubSeqTyped
<1>4. DOMAIN s = 1..Len(s) /\ DOMAIN t = 1..Len(t)
  BY <1>2, <1>3, LenProperties
<1>. HIDE DEF s, t
<1>5. ASSUME NEW i \in 1..Len(s) PROVE s[i] \in Range(t)
  <2>1. p <= Len(r) /\ i \in 1..Len(r) - p + 1
    BY <1>1, <1>2
  <2>2. i \in 1..Len(t) /\ i \in 1..Len(a) - p + 1 /\ p + i - 1 \in 1..Len(r)
    BY <1>1, <1>3, <2>1
  <2>3. s[i] = t[i]
    BY <1>1, <1>2, <1>3, <2>1, <2>2
  <2>. QED  BY <1>4, <2>2, <2>3 DEF Range
<1>6. Range(s) \subseteq Range(t)
  BY <1>4, <1>5 DEF Range
<1>. QED  BY <1>6 DEF a, s, t

-----------------------------------------------------------------------------
(* What the parts of the state are in a typed state.                       *)

\* A history that is trimmed keeps its latest events.
LEMMA HistoryGrows ==
  ASSUME TypeOK, HistoryInv, sent < NumEvents
  PROVE  LET grown == Append(history, sent + 1)
             kept  == LastN(grown, MaxQueue)
         IN  /\ grown \in Seq(Events) /\ kept \in Seq(Events)
             /\ Latest(kept, sent + 1)
             /\ Len(grown) <= MaxQueue => kept = grown
<1> DEFINE grown == Append(history, sent + 1)
           kept  == LastN(grown, MaxQueue)
           m     == Len(history)
<1>. SUFFICES /\ grown \in Seq(Events) /\ kept \in Seq(Events)
              /\ Latest(kept, sent + 1)
              /\ Len(grown) <= MaxQueue => kept = grown
  OBVIOUS
<1>1. /\ sent \in Nat /\ sent + 1 \in Events /\ history \in Seq(Events)
      /\ m \in Nat /\ MaxQueue \in Nat \ {0}
  BY BusAssumption, LenProperties DEF TypeOK, Events
<1>2. /\ grown \in Seq(Events) /\ Len(grown) = m + 1
      /\ \A i \in 1..m : grown[i] = history[i]
      /\ grown[m + 1] = sent + 1
  BY <1>1, AppendProperties
<1>. HIDE DEF grown
<1>3. \A i \in 1..m+1 : grown[i] = sent - m + i
  <2>. SUFFICES ASSUME NEW i \in 1..m+1 PROVE grown[i] = sent - m + i
    OBVIOUS
  <2>1. CASE i \in 1..m
    BY <1>2, <2>1 DEF HistoryInv, Latest
  <2>2. CASE i = m + 1
    BY <1>1, <1>2, <2>2
  <2>. QED  BY <1>1, <2>1, <2>2
<1>4. m = IF sent <= MaxQueue THEN sent ELSE MaxQueue
  BY DEF HistoryInv, Latest
<1>5. CASE m + 1 <= MaxQueue
  <2>1. kept = grown
    BY <1>2, <1>5 DEF LastN
  <2>2. sent = m
    BY <1>1, <1>4, <1>5
  <2>. QED  BY <1>1, <1>2, <1>3, <1>5, <2>1, <2>2 DEF Latest
<1>6. CASE ~(m + 1 <= MaxQueue)
  <2>1. m = MaxQueue /\ MaxQueue <= sent
    BY <1>1, <1>4, <1>6
  <2>2. kept = SubSeq(grown, 2, m + 1)
    <3>1. (m + 1) - MaxQueue + 1 = 2
      BY <1>1, <2>1
    <3>. QED  BY <1>2, <1>6, <3>1 DEF LastN
  <2>3. \A i \in 2..m+1 : grown[i] \in Events
    BY <1>1, <1>2, ElementOfSeq
  <2>4. /\ kept \in Seq(Events)
        /\ Len(kept) = IF 2 <= m+1 THEN (m+1)-2+1 ELSE 0
        /\ \A i \in 1..(m+1)-2+1 : kept[i] = grown[2+i-1]
    BY <1>1, <2>2, <2>3, SubSeqProperties
  <2>. HIDE DEF kept
  <2>5. Len(kept) = MaxQueue
    BY <1>1, <2>1, <2>4
  <2>6. ASSUME NEW i \in 1..MaxQueue PROVE kept[i] = sent + 1 - MaxQueue + i
    <3>1. i \in 1..(m+1)-2+1 /\ i + 1 \in 1..m+1 /\ 2+i-1 = i+1
      BY <1>1, <2>1
    <3>2. kept[i] = grown[i + 1]
      BY <2>4, <3>1
    <3>3. grown[i + 1] = sent - m + (i + 1)
      BY <1>3, <3>1
    <3>. QED  BY <1>1, <2>1, <3>2, <3>3
  <2>7. ~(sent + 1 <= MaxQueue) /\ ~(Len(grown) <= MaxQueue)
    BY <1>1, <1>2, <1>6, <2>1
  <2>8. Latest(kept, sent + 1)
    BY <1>1, <2>5, <2>6, <2>7 DEF Latest
  <2>. QED  BY <1>2, <2>4, <2>7, <2>8
<1>. QED  BY <1>5, <1>6

\* Every step keeps the types.
LEMMA TypesStep == TypeOK /\ BusInv /\ [Next]_vars => TypeOK'
<1>. SUFFICES ASSUME TypeOK, HistoryInv, SubsInv, ClientInv, LoopInv, [Next]_vars
              PROVE  TypeOK'
  BY DEF BusInv
<1>. USE DEF emitter, bus, loop, client, past
<1>0. NumEvents \in Nat \ {0} /\ MaxQueue \in Nat \ {0} /\ NoClient \notin Clients
  BY BusAssumption
<1>1. CASE EmitAppend
  <2> DEFINE grown == Append(history, sent + 1)
             kept  == LastN(grown, MaxQueue)
  <2>1. sent < NumEvents
    BY <1>1 DEF EmitAppend
  <2>2. /\ grown \in Seq(Events) /\ kept \in Seq(Events)
        /\ Latest(kept, sent + 1)
    BY <2>1, HistoryGrows
  <2>3. sent' \in 0..NumEvents
    BY <1>0, <1>1 DEF EmitAppend, TypeOK
  <2>4. history' \in Seq(Events) /\ Len(history') <= MaxQueue
    BY <1>0, <1>1, <2>2 DEF EmitAppend, TypeOK, Latest
  <2>5. source' \in [Clients -> Seq(Events)]
    BY <1>1, <2>2 DEF EmitAppend, TypeOK
  <2>. QED  BY <1>1, <2>3, <2>4, <2>5 DEF EmitAppend, TypeOK
<1>2. CASE NextSubscriber
  <2>1. subs[idx] \in Clients /\ idx + 1 \in Nat
    BY <1>2, ElementOfSeq, LenProperties DEF NextSubscriber, TypeOK, LoopInv
  <2>. QED  BY <1>2, <2>1 DEF NextSubscriber, TypeOK
<1>3. CASE EmitReturns
  BY <1>3 DEF EmitReturns, TypeOK
<1>20. ASSUME NEW c \in Clients, NEW q \in Seq(Events), Len(q) <= MaxQueue,
              queue' = [queue EXCEPT ![c] = q]
       PROVE  /\ queue' \in [Clients -> Seq(Events)]
              /\ \A d \in Clients : Len(queue'[d]) <= MaxQueue
  <2>1. queue' \in [Clients -> Seq(Events)]
    BY <1>20 DEF TypeOK
  <2>2. ASSUME NEW d \in Clients PROVE queue'[d] = IF d = c THEN q ELSE queue[d]
    BY <1>20 DEF TypeOK
  <2>. QED  BY <1>20, <2>1, <2>2 DEF TypeOK
<1>4. ASSUME NEW c \in Clients, NEW e \in Events, Put(c, e), ~Full(c)
      PROVE  /\ queue' \in [Clients -> Seq(Events)]
             /\ \A d \in Clients : Len(queue'[d]) <= MaxQueue
  <2>1. queue[c] \in Seq(Events) /\ Len(queue[c]) \in Nat /\ Len(queue[c]) < MaxQueue
    BY <1>0, <1>4, LenProperties DEF Full, TypeOK
  <2>2. Append(queue[c], e) \in Seq(Events) /\ Len(Append(queue[c], e)) = Len(queue[c]) + 1
    BY <2>1, AppendProperties
  <2>3. queue' = [queue EXCEPT ![c] = Append(queue[c], e)]
    BY <1>4 DEF Put
  <2>4. Len(Append(queue[c], e)) <= MaxQueue
    BY <1>0, <2>1, <2>2
  <2>. QED  BY <1>20, <2>2, <2>3, <2>4
<1>5. ASSUME NEW c \in Clients, queue[c] # <<>>, queue' = [queue EXCEPT ![c] = Tail(@)]
      PROVE  /\ queue' \in [Clients -> Seq(Events)]
             /\ \A d \in Clients : Len(queue'[d]) <= MaxQueue
             /\ Head(queue[c]) \in Events
  <2>1. queue[c] \in Seq(Events) /\ Len(queue[c]) \in Nat /\ Len(queue[c]) <= MaxQueue
    BY LenProperties DEF TypeOK
  <2>2. /\ Head(queue[c]) \in Events /\ Tail(queue[c]) \in Seq(Events)
        /\ Len(Tail(queue[c])) = Len(queue[c]) - 1
    BY <1>5, <2>1, HeadTailProperties
  <2>3. queue' = [queue EXCEPT ![c] = Tail(queue[c])]
    BY <1>5
  <2>4. Len(Tail(queue[c])) <= MaxQueue
    BY <1>0, <2>1, <2>2
  <2>. QED  BY <1>20, <2>2, <2>3, <2>4
<1>6. epc \in {"put", "drop", "reput"} => target \in Clients /\ sent \in Events
  BY <1>0 DEF LoopInv, TypeOK, Events
<1>7. CASE PutNowait
  <2>1. target \in Clients /\ sent \in Events
    BY <1>6, <1>7 DEF PutNowait
  <2>2. /\ queue' \in [Clients -> Seq(Events)]
        /\ \A d \in Clients : Len(queue'[d]) <= MaxQueue
    BY <1>4, <1>7, <2>1 DEF PutNowait, TypeOK
  <2>3. epc' \in {"each", "drop"}
    BY <1>7 DEF PutNowait
  <2>. QED  BY <1>7, <2>2, <2>3 DEF PutNowait, TypeOK
<1>8. CASE DropOldest
  <2>1. target \in Clients
    BY <1>6, <1>8 DEF DropOldest
  <2>2. /\ queue' \in [Clients -> Seq(Events)]
        /\ \A d \in Clients : Len(queue'[d]) <= MaxQueue
    BY <1>5, <1>8, <2>1 DEF DropOldest, TypeOK
  <2>3. overran' \subseteq Clients
    BY <1>8, <2>1 DEF DropOldest, TypeOK
  <2>. QED  BY <1>8, <2>2, <2>3 DEF DropOldest, TypeOK
<1>9. CASE PutAgain
  <2>1. target \in Clients /\ sent \in Events
    BY <1>6, <1>9 DEF PutAgain
  <2>2. /\ queue' \in [Clients -> Seq(Events)]
        /\ \A d \in Clients : Len(queue'[d]) <= MaxQueue
    BY <1>4, <1>9, <2>1 DEF PutAgain, TypeOK
  <2>. QED  BY <1>9, <2>1, <2>2 DEF PutAgain, TypeOK
<1>10. ASSUME NEW c \in Clients, Subscribe(c) PROVE TypeOK'
  <2>1. Append(subs, c) \in Seq(Clients)
    BY AppendProperties DEF TypeOK
  <2>2. raced' \subseteq Clients
    BY <1>10 DEF Subscribe, TypeOK
  <2>. QED  BY <1>10, <2>1, <2>2 DEF Subscribe, TypeOK
<1>11. ASSUME NEW c \in Clients
       PROVE  Replayed(c) \in Seq(Events) /\ Len(Replayed(c)) \in Nat /\ pos[c] \in Nat \ {0}
  BY LenProperties DEF Replayed, TypeOK, ClientInv
<1>12. ASSUME NEW c \in Clients, ReplayPut(c) PROVE TypeOK'
  <2>1. pos[c] \in 1..Len(Replayed(c)) /\ pos[c] + 1 \in Nat
    BY <1>11, <1>12 DEF ReplayPut
  <2>2. Replayed(c)[pos[c]] \in Events
    BY <1>11, <2>1, ElementOfSeq
  <2>3. /\ queue' \in [Clients -> Seq(Events)]
        /\ \A d \in Clients : Len(queue'[d]) <= MaxQueue
    BY <1>4, <1>12, <2>2 DEF ReplayPut
  <2>. QED  BY <1>12, <2>1, <2>3 DEF ReplayPut, TypeOK
<1>13. ASSUME NEW c \in Clients, ReplayBlocks(c) \/ ReplayResumes(c) \/ ReplayDone(c)
       PROVE  TypeOK'
  BY <1>13 DEF ReplayBlocks, ReplayResumes, ReplayDone, TypeOK
<1>14. ASSUME NEW c \in Clients, Deliver(c) PROVE TypeOK'
  <2>1. /\ queue' \in [Clients -> Seq(Events)]
        /\ \A d \in Clients : Len(queue'[d]) <= MaxQueue
        /\ Head(queue[c]) \in Events
    BY <1>5, <1>14 DEF Deliver, MayDeliver
  <2>2. Append(got[c], Head(queue[c])) \in Seq(Events)
    BY <2>1, AppendProperties DEF TypeOK
  <2>3. got' \in [Clients -> Seq(Events)]
    BY <1>14, <2>2 DEF Deliver, TypeOK
  <2>4. cpc' \in [Clients -> {"out", "replay", "blocked", "stream", "leaving", "gone"}]
    BY <1>14 DEF Deliver, MayDeliver, TypeOK
  <2>. QED  BY <1>14, <2>1, <2>3, <2>4 DEF Deliver, TypeOK
<1>15. ASSUME NEW c \in Clients, Disconnect(c) \/ Heartbeat(c) PROVE TypeOK'
  BY <1>15 DEF Disconnect, Heartbeat, TypeOK
<1>16. ASSUME NEW c \in Clients, Unsubscribe(c) PROVE TypeOK'
  <2>1. PICK k \in 1..Len(subs) : subs[k] = c
    BY <1>16 DEF Unsubscribe, MayLeave, SubsInv
  <2>2. RemoveFirst(subs, c) \in Seq(Clients)
    BY <2>1, RemovesOne DEF TypeOK, SubsInv
  <2>. QED  BY <1>16, <2>2 DEF Unsubscribe, TypeOK
<1>17. CASE Sleep
  BY <1>17 DEF Sleep, TypeOK
<1>18. CASE UNCHANGED vars
  BY <1>18 DEF TypeOK, vars
<1>. QED
  BY <1>1, <1>2, <1>3, <1>7, <1>8, <1>9, <1>10, <1>12, <1>13, <1>14, <1>15, <1>16, <1>17, <1>18
     DEF Next, Emit, Serve, Quiet

-----------------------------------------------------------------------------
(* The history, the subscriptions and the for loop.                        *)

\* The history stays the latest events: emit() appends the next one and trims.
LEMMA HistoryStep == TypeOK /\ HistoryInv /\ [Next]_vars => HistoryInv'
<1>. SUFFICES ASSUME TypeOK, HistoryInv, [Next]_vars
              PROVE  HistoryInv'
  OBVIOUS
<1>1. CASE EmitAppend
  <2> DEFINE kept == LastN(Append(history, sent + 1), MaxQueue)
  <2>1. sent < NumEvents /\ history' = kept /\ sent' = sent + 1
    BY <1>1 DEF EmitAppend
  <2>2. Latest(kept, sent + 1)
    BY <2>1, HistoryGrows
  <2>. HIDE DEF kept
  <2>. QED  BY <2>1, <2>2 DEF HistoryInv
<1>2. CASE UNCHANGED <<history, sent>>
  BY <1>2 DEF HistoryInv, Latest
<1>. QED
  BY <1>1, <1>2
     DEF Next, Emit, Serve, Quiet, NextSubscriber, EmitReturns, PutNowait, DropOldest, PutAgain,
         Subscribe, ReplayPut, ReplayBlocks, ReplayResumes, ReplayDone, Deliver, Disconnect,
         Unsubscribe, Sleep, Heartbeat, emitter, bus, vars

\* What list.remove does to the subscriptions.
LEMMA Removal ==
  ASSUME TypeOK, SubsInv, NEW c \in Clients, Unsubscribe(c)
  PROVE  \E k \in 1..Len(subs) :
           /\ subs[k] = c
           /\ Len(subs') = Len(subs) - 1
           /\ \A i \in 1..Len(subs)-1 : subs'[i] = IF i < k THEN subs[i] ELSE subs[i+1]
<1>1. PICK k \in 1..Len(subs) : subs[k] = c
  BY DEF Unsubscribe, MayLeave, SubsInv
<1>2. subs \in Seq(Clients) /\ \A i \in 1..Len(subs) : subs[i] = subs[k] => i = k
  BY DEF TypeOK, SubsInv
<1>3. subs' = RemoveFirst(subs, subs[k])
  BY <1>1 DEF Unsubscribe
<1>. QED  BY <1>1, <1>2, <1>3, RemovesOne

\* The other clients keep their places, or move up by one.
LEMMA RemovalKeeps ==
  ASSUME TypeOK, SubsInv, NEW c \in Clients, Unsubscribe(c)
  PROVE  /\ \A i, j \in 1..Len(subs') : subs'[i] = subs'[j] => i = j
         /\ \A i \in 1..Len(subs') :
              subs'[i] # c /\ \E j \in 1..Len(subs) : j >= i /\ subs'[i] = subs[j]
         /\ \A d \in Clients \ {c} :
              (\E i \in 1..Len(subs) : subs[i] = d) => \E i \in 1..Len(subs') : subs'[i] = d
<1>1. PICK k \in 1..Len(subs) :
        /\ subs[k] = c
        /\ Len(subs') = Len(subs) - 1
        /\ \A i \in 1..Len(subs)-1 : subs'[i] = IF i < k THEN subs[i] ELSE subs[i+1]
  BY Removal
<1>2. Len(subs) \in Nat /\ Len(subs') \in Nat
  BY <1>1, LenProperties DEF TypeOK
<1>3. \A i, j \in 1..Len(subs) : subs[i] = subs[j] => i = j
  BY DEF SubsInv
<1>4. ASSUME NEW i \in 1..Len(subs')
      PROVE  \E j \in 1..Len(subs) :
               j # k /\ (j = IF i < k THEN i ELSE i + 1) /\ subs'[i] = subs[j]
  <2>1. CASE i < k
    BY <1>1, <1>2, <2>1
  <2>2. CASE ~(i < k)
    <3>1. i + 1 \in 1..Len(subs) /\ i + 1 # k
      BY <1>1, <1>2, <2>2
    <3>. QED  BY <1>1, <2>2, <3>1
  <2>. QED  BY <2>1, <2>2
<1>5. \A i, j \in 1..Len(subs') : subs'[i] = subs'[j] => i = j
  <2>. SUFFICES ASSUME NEW i \in 1..Len(subs'), NEW j \in 1..Len(subs'), subs'[i] = subs'[j]
                PROVE  i = j
    OBVIOUS
  <2>1. PICK m \in 1..Len(subs) : (m = IF i < k THEN i ELSE i + 1) /\ subs'[i] = subs[m]
    BY <1>4
  <2>2. PICK n \in 1..Len(subs) : (n = IF j < k THEN j ELSE j + 1) /\ subs'[j] = subs[n]
    BY <1>4
  <2>3. m = n
    BY <1>3, <2>1, <2>2
  <2>. QED  BY <1>2, <2>1, <2>2, <2>3
<1>6. ASSUME NEW i \in 1..Len(subs')
      PROVE  subs'[i] # c /\ \E j \in 1..Len(subs) : j >= i /\ subs'[i] = subs[j]
  <2>1. PICK j \in 1..Len(subs) :
          j # k /\ (j = IF i < k THEN i ELSE i + 1) /\ subs'[i] = subs[j]
    BY <1>4
  <2>2. j >= i
    BY <1>2, <2>1
  <2>. QED  BY <1>1, <1>3, <2>1, <2>2
<1>7. ASSUME NEW d \in Clients \ {c}, NEW j \in 1..Len(subs), subs[j] = d
      PROVE  \E i \in 1..Len(subs') : subs'[i] = d
  <2>1. j # k
    BY <1>1, <1>7
  <2>2. CASE j < k
    BY <1>1, <1>2, <1>7, <2>2
  <2>3. CASE j > k
    <3>1. j - 1 \in 1..Len(subs') /\ j - 1 \in 1..Len(subs)-1 /\ ~(j - 1 < k) /\ (j - 1) + 1 = j
      BY <1>1, <1>2, <2>3
    <3>. QED  BY <1>1, <1>7, <3>1
  <2>. QED  BY <1>2, <2>1, <2>2, <2>3
<1>. QED  BY <1>5, <1>6, <1>7

\* The list of subscribers stays the list of the requests under way.
LEMMA SubsStep == TypeOK /\ SubsInv /\ LoopInv /\ [Next]_vars => SubsInv'
<1>. SUFFICES ASSUME TypeOK, SubsInv, LoopInv, [Next]_vars
              PROVE  SubsInv'
  OBVIOUS
<1>0. /\ Len(subs) \in Nat /\ NoClient \notin Clients
      /\ \A i \in 1..Len(subs) : subs[i] \in Clients
  BY BusAssumption, LenProperties, ElementOfSeq DEF TypeOK
<1>1. CASE NextSubscriber
  <2>1. idx \in 1..Len(subs)
    BY <1>0, <1>1 DEF NextSubscriber, LoopInv, TypeOK
  <2>. QED  BY <1>1, <2>1 DEF NextSubscriber, SubsInv, bus, client
<1>2. CASE EmitReturns
  BY <1>0, <1>2 DEF EmitReturns, SubsInv, bus, client
<1>3. ASSUME NEW c \in Clients, Subscribe(c) PROVE SubsInv'
  <2>0. subs' = Append(subs, c) /\ subs \in Seq(Clients)
    BY <1>3 DEF Subscribe, TypeOK
  <2>7. \A i \in 1..Len(subs) : subs[i] # c
    BY <1>3 DEF Subscribe, SubsInv
  <2>1. /\ Len(subs') = Len(subs) + 1 /\ subs'[Len(subs) + 1] = c
        /\ \A i \in 1..Len(subs) : subs'[i] = subs[i] /\ subs[i] # c
    BY <2>0, <2>7, AppendProperties
  <2>2. /\ target' = target /\ cpc[c] = "out"
        /\ \A d \in Clients : cpc'[d] = IF d = c THEN "replay" ELSE cpc[d]
    BY <1>3 DEF Subscribe, TypeOK, emitter
  <2>3. \A i \in 1..Len(subs)+1 : i \in 1..Len(subs) \/ i = Len(subs) + 1
    BY <1>0
  <2>4. \A i, j \in 1..Len(subs') : subs'[i] = subs'[j] => i = j
    BY <2>1, <2>3 DEF SubsInv
  <2>5. ASSUME NEW i \in 1..Len(subs') PROVE cpc'[subs'[i]] \notin {"out", "gone"}
    <3>1. CASE i \in 1..Len(subs)
      BY <1>0, <2>1, <2>2, <3>1 DEF SubsInv
    <3>2. CASE i = Len(subs) + 1
      BY <2>1, <2>2, <3>2
    <3>. QED  BY <2>1, <2>3, <3>1, <3>2
  <2>6. ASSUME NEW d \in Clients, cpc'[d] \notin {"out", "gone"}
        PROVE  \E i \in 1..Len(subs') : subs'[i] = d
    <3>1. CASE d = c
      BY <1>0, <2>1, <3>1
    <3>2. CASE d # c
      <4>1. PICK i \in 1..Len(subs) : subs[i] = d
        BY <2>2, <2>6, <3>2 DEF SubsInv
      <4>. QED  BY <1>0, <2>1, <4>1
    <3>. QED  BY <3>1, <3>2
  <2>. QED  BY <2>2, <2>4, <2>5, <2>6 DEF SubsInv
<1>4. ASSUME NEW c \in Clients, Unsubscribe(c) PROVE SubsInv'
  <2>1. /\ target' = target
        /\ \A d \in Clients : cpc'[d] = IF d = c THEN "gone" ELSE cpc[d]
    BY <1>4 DEF Unsubscribe, TypeOK, emitter
  <2>2. \A i, j \in 1..Len(subs') : subs'[i] = subs'[j] => i = j
    BY <1>4, RemovalKeeps
  <2>3. \A i \in 1..Len(subs') :
          subs'[i] # c /\ \E j \in 1..Len(subs) : j >= i /\ subs'[i] = subs[j]
    BY <1>4, RemovalKeeps
  <2>4. \A d \in Clients \ {c} :
          (\E i \in 1..Len(subs) : subs[i] = d) => \E i \in 1..Len(subs') : subs'[i] = d
    BY <1>4, RemovalKeeps
  <2>5. ASSUME NEW i \in 1..Len(subs') PROVE cpc'[subs'[i]] \notin {"out", "gone"}
    <3>1. PICK j \in 1..Len(subs) : subs'[i] = subs[j] /\ subs[j] # c
      BY <2>3
    <3>. QED  BY <1>0, <2>1, <3>1 DEF SubsInv
  <2>6. \A d \in Clients : cpc'[d] \notin {"out", "gone"} => \E i \in 1..Len(subs') : subs'[i] = d
    BY <2>1, <2>4 DEF SubsInv
  <2>. QED  BY <2>1, <2>2, <2>5, <2>6 DEF SubsInv
<1>5. ASSUME NEW c \in Clients, NEW p \in {"replay", "blocked", "stream", "leaving"},
             cpc[c] \notin {"out", "gone"}, cpc' = [cpc EXCEPT ![c] = p],
             UNCHANGED <<subs, target>>
      PROVE  SubsInv'
  <2>1. ASSUME NEW d \in Clients
        PROVE  /\ (cpc'[d] = "out") <=> (cpc[d] = "out")
               /\ (cpc'[d] = "gone") <=> (cpc[d] = "gone")
    BY <1>5 DEF TypeOK
  <2>. QED  BY <1>0, <1>5, <2>1 DEF SubsInv
<1>6. ASSUME NEW c \in Clients, ReplayBlocks(c) \/ ReplayResumes(c) \/ ReplayDone(c) PROVE SubsInv'
  BY <1>5, <1>6 DEF ReplayBlocks, ReplayResumes, ReplayDone, Replaying, MayResume, bus, emitter
<1>7. ASSUME NEW c \in Clients, Deliver(c) PROVE SubsInv'
  <2>1. cpc' = [cpc EXCEPT ![c] = IF Head(queue[c]) = Ended THEN "leaving" ELSE "stream"]
    BY <1>7 DEF Deliver, MayDeliver, TypeOK
  <2>. QED  BY <1>5, <1>7, <2>1 DEF Deliver, MayDeliver, bus, emitter
<1>8. ASSUME NEW c \in Clients, Disconnect(c) PROVE SubsInv'
  BY <1>5, <1>8 DEF Disconnect, bus, emitter
<1>9. CASE UNCHANGED <<subs, cpc, target>>
  BY <1>9 DEF SubsInv
<1>. QED
  BY <1>1, <1>2, <1>3, <1>4, <1>6, <1>7, <1>8, <1>9
     DEF Next, Emit, Serve, Quiet, EmitAppend, PutNowait, DropOldest, PutAgain, ReplayPut,
         Sleep, Heartbeat, emitter, bus, client, vars

\* The position of the for loop stays behind the subscriber it is serving, even when
\* the list shrinks.
LEMMA LoopStep == TypeOK /\ SubsInv /\ LoopInv /\ [Next]_vars => LoopInv'
<1>. SUFFICES ASSUME TypeOK, SubsInv, LoopInv, [Next]_vars
              PROVE  LoopInv'
  OBVIOUS
<1>0. /\ Len(subs) \in Nat /\ idx \in Nat /\ sent \in Nat
      /\ \A i \in 1..Len(subs) : subs[i] \in Clients
  BY BusAssumption, LenProperties, ElementOfSeq DEF TypeOK
<1>1. CASE EmitAppend
  BY <1>0, <1>1 DEF EmitAppend, LoopInv
<1>2. CASE NextSubscriber
  <2>1. idx \in 1..Len(subs)
    BY <1>0, <1>2 DEF NextSubscriber, LoopInv
  <2>2. \A i \in idx+1..Len(subs) : i \in 1..Len(subs) /\ i # idx
    BY <1>0, <2>1
  <2>3. \A i \in idx+1..Len(subs) : subs[i] # subs[idx]
    BY <2>1, <2>2 DEF SubsInv
  <2>. QED  BY <1>0, <1>2, <2>1, <2>3 DEF NextSubscriber, LoopInv, bus
<1>3. CASE EmitReturns
  BY <1>3 DEF EmitReturns, LoopInv
<1>4. CASE PutNowait \/ DropOldest \/ PutAgain
  BY <1>4 DEF PutNowait, DropOldest, PutAgain, LoopInv, bus
<1>5. ASSUME NEW c \in Clients, Subscribe(c) PROVE LoopInv'
  <2>1. subs' = Append(subs, c) /\ subs \in Seq(Clients) /\ UNCHANGED <<epc, sent, idx, target>>
    BY <1>5 DEF Subscribe, TypeOK, emitter
  <2>2. /\ Len(subs') = Len(subs) + 1 /\ subs'[Len(subs) + 1] = c
        /\ \A i \in 1..Len(subs) : subs'[i] = subs[i]
    BY <2>1, AppendProperties
  <2>3. target \in Clients => target # c
    BY <1>5 DEF Subscribe, SubsInv
  <2>4. ASSUME epc \in {"put", "drop", "reput"}, NEW i \in idx..Len(subs')
        PROVE  subs'[i] # target
    <3>1. CASE i \in idx..Len(subs)
      <4>1. i \in 1..Len(subs)
        BY <1>0, <3>1 DEF LoopInv
      <4>. QED  BY <2>2, <2>4, <3>1, <4>1 DEF LoopInv
    <3>2. CASE i = Len(subs) + 1
      BY <2>2, <2>3, <2>4, <3>2 DEF LoopInv
    <3>. QED  BY <1>0, <2>2, <3>1, <3>2
  <2>. QED  BY <2>1, <2>4 DEF LoopInv
<1>6. ASSUME NEW c \in Clients, Unsubscribe(c) PROVE LoopInv'
  <2>1. UNCHANGED <<epc, sent, idx, target>>
    BY <1>6 DEF Unsubscribe, emitter
  <2>2. \A i \in 1..Len(subs') : \E j \in 1..Len(subs) : j >= i /\ subs'[i] = subs[j]
    BY <1>6, RemovalKeeps
  <2>3. ASSUME epc \in {"put", "drop", "reput"}, NEW i \in idx..Len(subs')
        PROVE  subs'[i] # target
    <3>1. Len(subs') \in Nat
      BY <1>0, <1>6, Removal
    <3>2. i \in 1..Len(subs')
      BY <1>0, <3>1 DEF LoopInv
    <3>3. PICK j \in 1..Len(subs) : j >= i /\ subs'[i] = subs[j]
      BY <2>2, <3>2
    <3>4. j \in idx..Len(subs)
      BY <1>0, <3>1, <3>3
    <3>. QED  BY <2>3, <3>3, <3>4 DEF LoopInv
  <2>. QED  BY <2>1, <2>3 DEF LoopInv
<1>7. CASE UNCHANGED <<emitter, subs>>
  BY <1>7 DEF LoopInv, emitter
<1>. QED
  BY <1>1, <1>2, <1>3, <1>4, <1>5, <1>6, <1>7
     DEF Next, Emit, Serve, Quiet, ReplayPut, ReplayBlocks, ReplayResumes, ReplayDone, Deliver,
         Disconnect, Sleep, Heartbeat, bus, vars

\* A replay of _history itself goes on in the list the append left, trimmed or not.
LEMMA ReplayedGrows ==
  ASSUME TypeOK, HistoryInv, EmitAppend, NEW c \in Clients
  PROVE  /\ Iterating(c)' = Iterating(c) /\ source[c] \in Seq(Events)
         /\ Iterating(c) => Replayed(c)' = IF source[c] = <<>> THEN Append(history, sent + 1)
                                                              ELSE Replayed(c)
         /\ ~Iterating(c) => source'[c] = source[c]
<1> DEFINE grown == Append(history, sent + 1)
           kept  == LastN(grown, MaxQueue)
<1>1. sent < NumEvents /\ history' = kept
  BY DEF EmitAppend
<1>2. grown \in Seq(Events) /\ (Len(grown) <= MaxQueue => kept = grown)
  BY <1>1, HistoryGrows
<1>3. grown # <<>>
  <2>1. history \in Seq(Events) /\ sent + 1 \in Events
    BY <1>1, BusAssumption DEF TypeOK, Events
  <2>. QED  BY <2>1, AppendProperties
<1>4. source'[c] = IF Iterating(c) /\ source[c] = <<>> /\ Len(grown) > MaxQueue
                     THEN grown ELSE source[c]
  BY DEF EmitAppend, TypeOK
<1>5. Iterating(c)' = Iterating(c) /\ source[c] \in Seq(Events)
  BY DEF EmitAppend, Iterating, TypeOK
<1>6. Len(grown) \in Nat /\ MaxQueue \in Nat
  BY <1>2, LenProperties, BusAssumption
<1>. HIDE DEF grown, kept
<1>7. ASSUME Iterating(c), source[c] = <<>> PROVE Replayed(c)' = grown
  <2>1. CASE Len(grown) > MaxQueue
    BY <1>3, <1>4, <1>7, <2>1 DEF Replayed
  <2>2. CASE Len(grown) <= MaxQueue
    <3>1. source'[c] = <<>>
      BY <1>4, <1>6, <1>7, <2>2
    <3>. QED  BY <1>1, <1>2, <2>2, <3>1 DEF Replayed
  <2>. QED  BY <1>6, <2>1, <2>2
<1>8. ASSUME source[c] # <<>> PROVE Replayed(c)' = Replayed(c)
  BY <1>4, <1>8 DEF Replayed
<1>. QED  BY <1>4, <1>5, <1>7, <1>8 DEF grown

\* A replay stays within the list it iterates over.
LEMMA ClientStep == TypeOK /\ HistoryInv /\ SubsInv /\ LoopInv /\ ClientInv /\ [Next]_vars => ClientInv'
<1>. SUFFICES ASSUME TypeOK, HistoryInv, SubsInv, LoopInv, ClientInv, [Next]_vars, NEW d \in Clients
              PROVE  /\ cpc'[d] = "out" =>
                          source'[d] = <<>> /\ pos'[d] = 1 /\ queue'[d] = <<>> /\ got'[d] = <<>>
                     /\ pos'[d] # 0
                     /\ Iterating(d)' => pos'[d] <= Len(Replayed(d)') + 1
                     /\ Iterating(d)' /\ d \notin raced' => epc' = "idle"
  BY DEF ClientInv
<1>. DEFINE Goal == /\ cpc'[d] = "out" =>
                          source'[d] = <<>> /\ pos'[d] = 1 /\ queue'[d] = <<>> /\ got'[d] = <<>>
                    /\ pos'[d] # 0
                    /\ Iterating(d)' => pos'[d] <= Len(Replayed(d)') + 1
                    /\ Iterating(d)' /\ d \notin raced' => epc' = "idle"
<1>0. /\ cpc[d] = "out" => source[d] = <<>> /\ pos[d] = 1 /\ queue[d] = <<>> /\ got[d] = <<>>
      /\ pos[d] # 0 /\ pos[d] \in Nat
      /\ Iterating(d) => pos[d] <= Len(Replayed(d)) + 1
      /\ Iterating(d) /\ d \notin raced => epc = "idle"
      /\ Replayed(d) \in Seq(Events) /\ Len(Replayed(d)) \in Nat
      /\ history \in Seq(Events) /\ Len(history) \in Nat
  BY LenProperties DEF TypeOK, ClientInv, Replayed
<1>1. CASE EmitAppend
  <2>1. sent + 1 \in Events
    BY <1>1, BusAssumption DEF EmitAppend, TypeOK, Events
  <2>2. UNCHANGED <<cpc, pos, queue, got>> /\ (Iterating(d) => d \in raced')
    BY <1>1 DEF EmitAppend, client
  <2>3. /\ Iterating(d)' = Iterating(d)
        /\ Iterating(d) => Replayed(d)' = IF source[d] = <<>> THEN Append(history, sent + 1)
                                                             ELSE Replayed(d)
        /\ ~Iterating(d) => source'[d] = source[d]
    BY <1>1, ReplayedGrows
  <2>4. Len(Append(history, sent + 1)) = Len(history) + 1
    BY <1>0, <2>1, AppendProperties
  <2>5. Iterating(d) => Len(Replayed(d)') \in Nat /\ Len(Replayed(d)') >= Len(Replayed(d))
    <3>1. source[d] = <<>> => Replayed(d) = history
      BY DEF Replayed
    <3>2. CASE source[d] = <<>>
      BY <1>0, <2>3, <2>4, <3>1, <3>2
    <3>3. CASE source[d] # <<>>
      BY <1>0, <2>3, <3>3
    <3>. QED  BY <3>2, <3>3
  <2>6. Iterating(d) => pos[d] <= Len(Replayed(d)') + 1
    BY <1>0, <2>5
  <2>7. cpc[d] = "out" => ~Iterating(d)
    BY DEF Iterating
  <2>. QED  BY <1>0, <2>2, <2>3, <2>6, <2>7
<1>2. CASE NextSubscriber \/ EmitReturns
  BY <1>0, <1>2 DEF NextSubscriber, EmitReturns, Iterating, Replayed, bus, client, past
<1>3. CASE PutNowait \/ DropOldest \/ PutAgain
  <2>1. target \in Clients /\ cpc[target] # "out"
    BY <1>3 DEF PutNowait, DropOldest, PutAgain, LoopInv, SubsInv
  <2>2. cpc[d] = "out" => queue'[d] = queue[d]
    BY <1>3, <2>1 DEF PutNowait, DropOldest, PutAgain, Put, TypeOK
  <2>3. epc # "idle" /\ raced' = raced /\ UNCHANGED <<history, cpc, source, pos, got>>
    BY <1>3 DEF PutNowait, DropOldest, PutAgain, bus, client, past
  <2>. QED  BY <1>0, <2>2, <2>3 DEF Iterating, Replayed
<1>4. ASSUME NEW c \in Clients, Subscribe(c) PROVE Goal
  <2>1. /\ cpc'[d] = IF d = c THEN "replay" ELSE cpc[d]
        /\ d # c => (d \in raced' <=> d \in raced)
        /\ d = c /\ d \notin raced' => epc = "idle"
        /\ UNCHANGED <<history, source, pos, queue, got, epc>>
    BY <1>4 DEF Subscribe, TypeOK, emitter
  <2>2. CASE d = c
    <3>1. cpc[d] = "out"
      BY <1>4, <2>2 DEF Subscribe
    <3>. QED  BY <1>0, <2>1, <2>2, <3>1 DEF Iterating, Replayed
  <2>3. CASE d # c
    BY <1>0, <2>1, <2>3 DEF Iterating, Replayed
  <2>. QED  BY <2>2, <2>3
<1>5. ASSUME NEW c \in Clients, ReplayPut(c) PROVE Goal
  <2>1. /\ cpc[c] = "replay" /\ pos[c] <= Len(Replayed(c))
        /\ pos'[d] = IF d = c THEN pos[d] + 1 ELSE pos[d]
        /\ queue'[d] = IF d = c THEN Append(queue[d], Replayed(c)[pos[c]]) ELSE queue[d]
        /\ UNCHANGED <<history, source, cpc, got, epc, raced>>
    BY <1>5 DEF ReplayPut, Replaying, Put, TypeOK, emitter, bus, past
  <2>2. CASE d = c
    BY <1>0, <2>1, <2>2 DEF Iterating, Replayed
  <2>3. CASE d # c
    BY <1>0, <2>1, <2>3 DEF Iterating, Replayed
  <2>. QED  BY <2>2, <2>3
<1>6. ASSUME NEW c \in Clients, ReplayBlocks(c) \/ ReplayResumes(c) \/ ReplayDone(c) PROVE Goal
  <2>1. /\ UNCHANGED <<history, source, pos, queue, got, epc, raced>>
        /\ cpc'[d] # "out" \/ cpc'[d] = cpc[d]
        /\ Iterating(d)' => Iterating(d)
    BY <1>6 DEF ReplayBlocks, ReplayResumes, ReplayDone, Replaying, MayResume, Iterating, TypeOK,
                emitter, bus, past
  <2>. QED  BY <1>0, <2>1 DEF Replayed
<1>7. ASSUME NEW c \in Clients, Deliver(c) PROVE Goal
  <2>1. cpc[c] = "stream" /\ cpc'[c] \in {"stream", "leaving"} /\ (d # c => cpc'[d] = cpc[d])
    BY <1>7 DEF Deliver, MayDeliver, TypeOK
  <2>2. /\ UNCHANGED <<history, source, pos, epc, raced>>
        /\ d # c => queue'[d] = queue[d] /\ got'[d] = got[d]
    BY <1>7 DEF Deliver, TypeOK, emitter, bus, past
  <2>. QED  BY <1>0, <2>1, <2>2 DEF Iterating, Replayed
<1>8. ASSUME NEW c \in Clients, Disconnect(c) \/ Unsubscribe(c) PROVE Goal
  <2>1. /\ UNCHANGED <<history, source, pos, queue, got, epc, raced>>
        /\ cpc'[d] # "out" \/ cpc'[d] = cpc[d]
        /\ Iterating(d)' => Iterating(d)
    BY <1>8 DEF Disconnect, Unsubscribe, MayLeave, Iterating, TypeOK, emitter, bus, past
  <2>. QED  BY <1>0, <2>1 DEF Replayed
<1>9. CASE UNCHANGED <<epc, bus, client, queue, past>>
  BY <1>0, <1>9 DEF Iterating, Replayed, bus, client, past
<1>. QED
  BY <1>1, <1>2, <1>3, <1>4, <1>5, <1>6, <1>7, <1>8, <1>9
     DEF Next, Emit, Serve, Quiet, Sleep, Heartbeat, emitter, vars

-----------------------------------------------------------------------------
(* What the steps do to the stream of a client.                            *)

\* A stream is received, queued and replayed events, in this order.
LEMMA StreamTyped ==
  ASSUME TypeOK, ClientInv, NEW c \in Clients
  PROVE  /\ got[c] \in Seq(Events) /\ queue[c] \in Seq(Events) /\ Rest(c) \in Seq(Events)
         /\ got[c] \o queue[c] \in Seq(Events)
         /\ Stream(c) = (got[c] \o queue[c]) \o Rest(c)
         /\ Stream(c) \in Seq(Events)
         /\ ~Iterating(c) => Rest(c) = <<>> /\ Stream(c) = got[c] \o queue[c]
<1>1. got[c] \in Seq(Events) /\ queue[c] \in Seq(Events)
  BY DEF TypeOK
<1>2. Rest(c) \in Seq(Events)
  <2>1. pos[c] \in Nat \ {0} /\ Replayed(c) \in Seq(Events)
    BY DEF TypeOK, ClientInv, Replayed
  <2>2. SubSeq(Replayed(c), pos[c], Len(Replayed(c))) \in Seq(Events)
    BY <2>1, SubSeqTyped
  <2>. QED  BY <2>2 DEF Rest
<1>3. got[c] \o queue[c] \in Seq(Events)
  BY <1>1, ConcatProperties
<1>4. Stream(c) = (got[c] \o queue[c]) \o Rest(c)
  BY DEF Stream, Rest
<1>5. Stream(c) \in Seq(Events)
  BY <1>2, <1>3, <1>4, ConcatProperties
<1>6. ~Iterating(c) => Rest(c) = <<>>
  BY DEF Rest
<1>7. ~Iterating(c) => Stream(c) = got[c] \o queue[c]
  BY <1>3, <1>4, <1>6, ConcatEmptySeq
<1>. QED  BY <1>1, <1>2, <1>3, <1>4, <1>5, <1>6, <1>7

\* Reading, and the puts of the replay, move events along a stream; the other
\* steps of the event loop do not touch it, nor does what is put for others.
LEMMA StreamKept ==
  ASSUME TypeOK, HistoryInv, SubsInv, ClientInv, LoopInv, [Next]_vars, NEW c \in Clients,
         ~(EmitAppend /\ Iterating(c)), ~Subscribe(c),
         ~(target = c /\ (PutNowait \/ DropOldest \/ PutAgain))
  PROVE  Stream(c)' = Stream(c)
<1>0. /\ got[c] \in Seq(Events) /\ queue[c] \in Seq(Events) /\ Rest(c) \in Seq(Events)
      /\ got[c] \o queue[c] \in Seq(Events)
      /\ Stream(c) = (got[c] \o queue[c]) \o Rest(c)
  BY StreamTyped
<1>1. ASSUME Rest(c)' = Rest(c), got'[c] = got[c], queue'[c] = queue[c]
      PROVE  Stream(c)' = Stream(c)
  BY <1>1 DEF Stream, Rest
<1>2. CASE EmitAppend
  <2>1. Iterating(c)' = Iterating(c)
    BY <1>2, ReplayedGrows
  <2>2. Rest(c)' = Rest(c) /\ got'[c] = got[c] /\ queue'[c] = queue[c]
    BY <1>2, <2>1 DEF EmitAppend, Rest
  <2>. QED  BY <1>1, <2>2
<1>3. CASE PutNowait \/ DropOldest \/ PutAgain
  <2>1. target # c /\ target \in Clients
    BY <1>3 DEF PutNowait, DropOldest, PutAgain, LoopInv
  <2>2. queue'[c] = queue[c] /\ UNCHANGED <<history, source, pos, cpc, got>>
    BY <1>3, <2>1 DEF PutNowait, DropOldest, PutAgain, Put, TypeOK, bus, client
  <2>. QED  BY <1>1, <2>2 DEF Rest, Iterating, Replayed
<1>4. CASE NextSubscriber \/ EmitReturns
  BY <1>1, <1>4 DEF NextSubscriber, EmitReturns, Rest, Iterating, Replayed, bus, client
<1>5. ASSUME NEW d \in Clients \ {c}, Subscribe(d) \/ Serve(d) \/ Disconnect(d)
      PROVE  Stream(c)' = Stream(c)
  <2>1. /\ history' = history /\ cpc'[c] = cpc[c] /\ source'[c] = source[c] /\ pos'[c] = pos[c]
        /\ got'[c] = got[c] /\ queue'[c] = queue[c]
    BY <1>5 DEF Serve, Subscribe, ReplayPut, ReplayBlocks, ReplayResumes, ReplayDone, Deliver,
                Heartbeat, Unsubscribe, Disconnect, Put, TypeOK, bus, client
  <2>. QED  BY <1>1, <2>1 DEF Rest, Iterating, Replayed
<1>6. CASE ReplayPut(c)
  <2> DEFINE r == Replayed(c)
             p == pos[c]
             q == queue[c]
             later == SubSeq(r, p + 1, Len(r))
  <2>1. r \in Seq(Events) /\ p \in 1..Len(r) /\ cpc[c] = "replay"
    <3>1. r \in Seq(Events) /\ p \in Nat \ {0}
      BY DEF TypeOK, ClientInv, Replayed
    <3>2. p <= Len(r) /\ cpc[c] = "replay"
      BY <1>6 DEF ReplayPut, Replaying
    <3>. QED  BY <3>1, <3>2, LenProperties
  <2>2. /\ later \in Seq(Events) /\ Append(q, r[p]) \in Seq(Events)
        /\ SubSeq(r, p, Len(r)) \in Seq(Events)
        /\ Append(q, r[p]) \o later = q \o SubSeq(r, p, Len(r))
    BY <1>0, <2>1, PutMoves
  <2>3. /\ UNCHANGED <<history, source, cpc, got>>
        /\ queue'[c] = Append(q, r[p]) /\ pos'[c] = p + 1
    BY <1>6 DEF ReplayPut, Put, TypeOK, bus
  <2>4. Rest(c) = SubSeq(r, p, Len(r)) /\ Rest(c)' = later
    BY <2>1, <2>3 DEF Rest, Iterating, Replayed
  <2>. HIDE DEF r, p, q, later
  <2>5. Stream(c)' = (got[c] \o Append(q, r[p])) \o later
    BY <2>3, <2>4 DEF Stream, Rest
  <2>6. (got[c] \o Append(q, r[p])) \o later = got[c] \o (Append(q, r[p]) \o later)
    BY <1>0, <2>2, StreamsAssociate
  <2>7. (got[c] \o q) \o Rest(c) = got[c] \o (q \o Rest(c))
    BY <1>0, StreamsAssociate DEF q
  <2>8. Stream(c) = (got[c] \o q) \o Rest(c)
    BY <1>0 DEF q
  <2>. QED  BY <2>2, <2>4, <2>5, <2>6, <2>7, <2>8
<1>7. CASE ReplayDone(c)
  <2>1. /\ got'[c] = got[c] /\ queue'[c] = queue[c]
        /\ cpc[c] = "replay" /\ pos[c] > Len(Replayed(c)) /\ cpc'[c] = "stream"
    BY <1>7 DEF ReplayDone, Replaying, TypeOK
  <2>2. pos[c] \in Nat /\ Replayed(c) \in Seq(Events) /\ Len(Replayed(c)) \in Nat
    BY LenProperties DEF TypeOK, Replayed
  <2>3. SubSeq(Replayed(c), pos[c], Len(Replayed(c))) = <<>>
    BY <2>1, <2>2, SubSeqEmpty
  <2>4. Rest(c) = <<>> /\ Rest(c)' = <<>>
    BY <2>1, <2>3 DEF Rest, Iterating
  <2>. QED  BY <1>1, <2>1, <2>4
<1>8. CASE Deliver(c)
  <2>1. /\ queue[c] # <<>> /\ cpc[c] = "stream" /\ cpc'[c] \in {"stream", "leaving"}
        /\ got'[c] = Append(got[c], Head(queue[c])) /\ queue'[c] = Tail(queue[c])
    BY <1>8 DEF Deliver, MayDeliver, TypeOK
  <2>2. Append(got[c], Head(queue[c])) \o Tail(queue[c]) = got[c] \o queue[c]
    BY <1>0, <2>1, HeadMoves
  <2>3. Rest(c) = <<>> /\ Rest(c)' = <<>>
    BY <2>1 DEF Rest, Iterating
  <2>4. Stream(c)' = (got'[c] \o queue'[c]) \o Rest(c)'
    BY DEF Stream, Rest
  <2>. QED  BY <1>0, <2>1, <2>2, <2>3, <2>4
<1>9. CASE ReplayBlocks(c) \/ ReplayResumes(c) \/ Disconnect(c) \/ Unsubscribe(c)
  <2>1. /\ UNCHANGED <<history, source, pos, got, queue>>
        /\ Iterating(c)' <=> Iterating(c)
    BY <1>9 DEF ReplayBlocks, ReplayResumes, Disconnect, Unsubscribe, Replaying, MayResume,
                MayLeave, Iterating, TypeOK, bus
  <2>. QED  BY <1>1, <2>1 DEF Rest, Replayed
<1>10. CASE UNCHANGED <<bus, client, queue>>
  BY <1>1, <1>10 DEF Rest, Iterating, Replayed, bus, client
<1>. QED
  BY <1>2, <1>3, <1>4, <1>5, <1>6, <1>7, <1>8, <1>9, <1>10
     DEF Next, Emit, Serve, Quiet, Sleep, Heartbeat, vars

\* A replay under way loses nothing when emit() appends to the history or trims it.
LEMMA AppendExtendsStreams ==
  ASSUME TypeOK, HistoryInv, ClientInv, EmitAppend, NEW c \in Clients, Iterating(c)
  PROVE  Range(Stream(c)) \subseteq Range(Stream(c)')
<1> DEFINE e == sent + 1
           s == got[c] \o queue[c]
           r == Replayed(c)
<1>1. s \in Seq(Events) /\ Rest(c) \in Seq(Events) /\ Stream(c) = s \o Rest(c)
  BY StreamTyped
<1>2. e \in Events
  BY BusAssumption DEF EmitAppend, TypeOK, Events
<1>3. r \in Seq(Events) /\ pos[c] \in Nat \ {0} /\ history \in Seq(Events)
  BY DEF TypeOK, ClientInv, Replayed
<1>4. Iterating(c)' /\ Replayed(c)' = IF source[c] = <<>> THEN Append(history, e) ELSE r
  BY ReplayedGrows
<1>5. pos' = pos /\ got' = got /\ queue' = queue
  BY DEF EmitAppend
<1>6. Rest(c) = SubSeq(r, pos[c], Len(r))
      /\ Rest(c)' = SubSeq(Replayed(c)', pos[c], Len(Replayed(c)'))
  BY <1>4, <1>5 DEF Rest
<1>7. Rest(c)' \in Seq(Events) /\ Range(Rest(c)) \subseteq Range(Rest(c)')
  <2>1. CASE source[c] = <<>>
    <3>1. r = history
      BY <2>1 DEF Replayed
    <3>2. Append(history, e) \in Seq(Events)
      BY <1>2, <1>3, AppendProperties
    <3>. QED  BY <1>2, <1>3, <1>4, <1>6, <2>1, <3>1, <3>2, RangeOfRest, SubSeqTyped
  <2>2. CASE source[c] # <<>>
    BY <1>1, <1>4, <1>6, <2>2
  <2>. QED  BY <2>1, <2>2
<1>8. Stream(c)' = s \o Rest(c)'
  BY <1>5 DEF Stream, Rest
<1>. HIDE DEF s
<1>. QED  BY <1>1, <1>7, <1>8, RangeOfConcat

\* Full or not, the queue of another subscriber is left alone.
LEMMA PutsInStream ==
  ASSUME TypeOK, ClientInv, LoopInv, NEW c \in Clients, target = c, PutNowait \/ PutAgain
  PROVE  /\ Full(c) => Stream(c)' = Stream(c)
         /\ ~Full(c) => Range(Stream(c)') = Range(Stream(c)) \cup {sent}
         /\ ~Full(c) /\ ~Iterating(c) => Stream(c)' = Append(Stream(c), sent)
<1> DEFINE g == got[c]
           q == queue[c]
           r == Rest(c)
<1>1. /\ g \in Seq(Events) /\ q \in Seq(Events) /\ r \in Seq(Events) /\ g \o q \in Seq(Events)
      /\ Stream(c) = (g \o q) \o r
      /\ ~Iterating(c) => r = <<>>
  BY StreamTyped
<1>2. sent \in Events
  BY BusAssumption DEF LoopInv, TypeOK, PutNowait, PutAgain, Events
<1>3. /\ UNCHANGED <<history, source, pos, cpc, got>>
      /\ queue'[c] = IF Full(c) THEN q ELSE Append(q, sent)
  BY DEF PutNowait, PutAgain, Put, TypeOK, bus, client
<1>4. Rest(c)' = r
  BY <1>3 DEF Rest, Iterating, Replayed
<1>5. Stream(c)' = (g \o queue'[c]) \o r
  BY <1>3, <1>4 DEF Stream, Rest
<1>. HIDE DEF g, q, r
<1>6. Append(q, sent) \in Seq(Events) /\ g \o Append(q, sent) = Append(g \o q, sent)
  <2> DEFINE one == << sent >>
  <2>1. one \in Seq(Events) /\ Append(q, sent) = q \o one /\ Append(q, sent) \in Seq(Events)
        /\ Append(g \o q, sent) = (g \o q) \o one
    BY <1>1, <1>2, AppendIsConcat, AppendProperties
  <2>. HIDE DEF one
  <2>2. (g \o q) \o one = g \o (q \o one)
    BY <1>1, <2>1, StreamsAssociate
  <2>. QED  BY <2>1, <2>2
<1>7. Append(g \o q, sent) \in Seq(Events)
      /\ Range(Append(g \o q, sent)) = Range(g \o q) \cup {sent}
  BY <1>1, <1>2, AppendProperties, RangeOfAppend
<1>8. ASSUME ~Full(c) PROVE Range(Stream(c)') = Range(Stream(c)) \cup {sent}
  <2>1. Stream(c)' = Append(g \o q, sent) \o r
    BY <1>3, <1>5, <1>6, <1>8
  <2>2. Range(Append(g \o q, sent) \o r) = Range(Append(g \o q, sent)) \cup Range(r)
    BY <1>1, <1>7, RangeOfConcat
  <2>3. Range((g \o q) \o r) = Range(g \o q) \cup Range(r)
    BY <1>1, RangeOfConcat
  <2>. QED  BY <1>1, <1>7, <2>1, <2>2, <2>3
<1>9. ASSUME ~Full(c), ~Iterating(c) PROVE Stream(c)' = Append(Stream(c), sent)
  <2>1. r = <<>> /\ Stream(c)' = Append(g \o q, sent) \o r
    BY <1>1, <1>3, <1>5, <1>6, <1>9
  <2>2. (g \o q) \o r = g \o q /\ Append(g \o q, sent) \o r = Append(g \o q, sent)
    BY <1>1, <1>7, <2>1, ConcatEmptySeq
  <2>. QED  BY <1>1, <2>1, <2>2
<1>. QED  BY <1>1, <1>3, <1>5, <1>8, <1>9

\* What a full queue gives up leaves the rest in order.
LEMMA DropKeepsOrder ==
  ASSUME TypeOK, ClientInv, NEW c \in Clients, target = c, DropOldest, ~Iterating(c)
  PROVE  /\ Rising(Stream(c)) => Rising(Stream(c)')
         /\ \A n \in Nat : Below(Stream(c), n) => Below(Stream(c)', n)
<1> DEFINE g == got[c]
           q == queue[c]
           s == Stream(c)
           t == Stream(c)'
<1>1. /\ g \in Seq(Events) /\ q \in Seq(Events) /\ s = g \o q
  BY StreamTyped
<1>2. /\ UNCHANGED <<history, source, pos, cpc, got>>
      /\ queue'[c] = IF q = <<>> THEN q ELSE Tail(q)
  BY DEF DropOldest, TypeOK, bus, client
<1>3. CASE q = <<>>
  <2>1. t = s
    BY <1>2, <1>3 DEF Stream, Iterating, Replayed
  <2>. QED  BY <2>1
<1>4. CASE q # <<>>
  <2>1. /\ Tail(q) \in Seq(Events) /\ Len(Tail(q)) = Len(q) - 1
        /\ \A i \in 1..Len(Tail(q)) : Tail(q)[i] = q[i+1]
    BY <1>1, <1>4, HeadTailProperties
  <2>2. t = g \o Tail(q)
    <3>1. t = (g \o Tail(q)) \o <<>>
      BY <1>2, <1>4 DEF Stream, Iterating
    <3>2. g \o Tail(q) \in Seq(Events)
      BY <1>1, <2>1, ConcatProperties
    <3>. QED  BY <3>1, <3>2, ConcatEmptySeq
  <2>. HIDE DEF g, q, s, t
  <2>3. Len(g) \in Nat /\ Len(q) \in Nat
    BY <1>1, LenProperties
  <2>4. /\ Len(s) = Len(g) + Len(q)
        /\ \A i \in 1..Len(g)+Len(q) : s[i] = IF i <= Len(g) THEN g[i] ELSE q[i - Len(g)]
    BY <1>1, ConcatProperties
  <2>5. /\ Len(t) = Len(g) + Len(Tail(q))
        /\ \A i \in 1..Len(g)+Len(Tail(q)) : t[i] = IF i <= Len(g) THEN g[i] ELSE Tail(q)[i - Len(g)]
    BY <1>1, <2>1, <2>2, ConcatProperties
  <2>6. Len(t) = Len(s) - 1 /\ Len(s) \in Nat
    BY <2>1, <2>3, <2>4, <2>5
  <2>7. ASSUME NEW i \in 1..Len(t)
        PROVE  t[i] = s[IF i <= Len(g) THEN i ELSE i + 1]
    <3>1. i \in 1..Len(g)+Len(q) /\ i + 1 \in 1..Len(g)+Len(q) /\ i \in 1..Len(g)+Len(Tail(q))
      BY <2>3, <2>4, <2>5, <2>6
    <3>2. CASE i <= Len(g)
      BY <2>4, <2>5, <3>1, <3>2
    <3>3. CASE ~(i <= Len(g))
      <4>1. i - Len(g) \in 1..Len(Tail(q)) /\ ~(i + 1 <= Len(g)) /\ (i + 1) - Len(g) = (i - Len(g)) + 1
        BY <2>1, <2>3, <2>5, <3>1, <3>3
      <4>2. t[i] = Tail(q)[i - Len(g)] /\ s[i + 1] = q[(i + 1) - Len(g)]
        BY <2>4, <2>5, <3>1, <3>3, <4>1
      <4>3. Tail(q)[i - Len(g)] = q[(i - Len(g)) + 1]
        BY <2>1, <4>1
      <4>. QED  BY <3>3, <4>1, <4>2, <4>3
    <3>. QED  BY <3>2, <3>3
  <2> DEFINE at(i) == IF i <= Len(g) THEN i ELSE i + 1
  <2>8. /\ \A i \in 1..Len(t) : at(i) \in 1..Len(s)
        /\ \A i, j \in 1..Len(t) : i < j => at(i) < at(j)
    BY <2>3, <2>6
  <2>9. \A i \in 1..Len(t) : t[i] = s[at(i)]
    BY <2>7
  <2>. HIDE DEF at
  <2>. QED  BY <2>8, <2>9 DEF Rising, Below, s, t
<1>. QED  BY <1>3, <1>4

\* A request begins with the replay of the whole history.
LEMMA StreamBegins ==
  ASSUME TypeOK, ClientInv, NEW c \in Clients, Subscribe(c)
  PROVE  Stream(c)' = history
<1>1. /\ source[c] = <<>> /\ pos[c] = 1 /\ queue[c] = <<>> /\ got[c] = <<>>
      /\ UNCHANGED <<history, source, pos, queue, got>> /\ cpc'[c] = "replay"
  BY DEF Subscribe, ClientInv, TypeOK
<1>2. Stream(c)' = (<<>> \o <<>>) \o SubSeq(history, 1, Len(history))
  BY <1>1 DEF Stream, Iterating, Replayed
<1>3. history \in Seq(Events) /\ SubSeq(history, 1, Len(history)) = history
  BY SubSeqFull DEF TypeOK
<1>4. <<>> \o history = history /\ <<>> \o <<>> = <<>>
  BY <1>3, ConcatEmptySeq, EmptySeq
<1>. QED  BY <1>2, <1>3, <1>4

-----------------------------------------------------------------------------
(* Whom the for loop has still to serve.                                   *)

\* The for loop comes to nobody twice: whoever is yet to be served was so before.
LEMMA NobodyIsServedAgain ==
  ASSUME TypeOK, SubsInv, LoopInv, [Next]_vars, NEW c \in Clients,
         ~EmitAppend, ~Subscribe(c), Serving(c)' \/ Waiting(c)'
  PROVE  Serving(c) \/ Waiting(c)
<1>0. Len(subs) \in Nat /\ idx \in Nat \ {0} /\ subs \in Seq(Clients)
  BY LenProperties DEF TypeOK, LoopInv
<1>1. CASE NextSubscriber
  <2>1. idx \in idx..Len(subs) /\ epc = "each" /\ subs' = subs /\ target' = subs[idx]
        /\ idx' = idx + 1 /\ epc' = "put"
    BY <1>0, <1>1 DEF NextSubscriber, bus
  <2>2. \A i \in idx+1..Len(subs) : i \in idx..Len(subs)
    BY <1>0
  <2>. QED  BY <2>1, <2>2 DEF Serving, Waiting
<1>2. CASE EmitReturns
  BY <1>2 DEF EmitReturns, Serving, Waiting
<1>3. CASE PutNowait \/ DropOldest \/ PutAgain
  <2>1. epc \in {"put", "drop", "reput"} /\ UNCHANGED <<idx, target, subs>>
    BY <1>3 DEF PutNowait, DropOldest, PutAgain, bus
  <2>. QED  BY <2>1 DEF Serving, Waiting
<1>4. ASSUME NEW d \in Clients \ {c}, Subscribe(d) PROVE Serving(c) \/ Waiting(c)
  <2>1. subs' = Append(subs, d) /\ UNCHANGED <<epc, idx, target>>
    BY <1>4 DEF Subscribe, emitter
  <2>2. CASE Serving(c)'
    BY <2>1, <2>2 DEF Serving
  <2>3. CASE Waiting(c)'
    <3>1. PICK i \in idx..Len(subs)+1 : subs'[i] = c /\ epc # "idle"
      BY <1>0, <2>1, <2>3, AppendProperties DEF Waiting
    <3>2. i # Len(subs) + 1
      BY <1>0, <1>4, <2>1, <3>1, AppendProperties
    <3>3. i \in idx..Len(subs) /\ i \in 1..Len(subs)
      BY <1>0, <3>2
    <3>4. subs[i] = c
      BY <1>0, <2>1, <3>1, <3>3, AppendProperties
    <3>. QED  BY <3>1, <3>3, <3>4 DEF Waiting
  <2>. QED  BY <2>2, <2>3
<1>5. ASSUME NEW d \in Clients, Unsubscribe(d) PROVE Serving(c) \/ Waiting(c)
  <2>1. UNCHANGED <<epc, idx, target>>
    BY <1>5 DEF Unsubscribe, emitter
  <2>2. CASE Serving(c)'
    BY <2>1, <2>2 DEF Serving
  <2>3. CASE Waiting(c)'
    <3>1. PICK i \in idx..Len(subs') : subs'[i] = c /\ epc # "idle"
      BY <2>1, <2>3 DEF Waiting
    <3>2. Len(subs') \in Nat
      BY <1>0, <1>5, Removal
    <3>3. i \in 1..Len(subs')
      BY <1>0, <3>2
    <3>4. PICK j \in 1..Len(subs) : j >= i /\ subs'[i] = subs[j]
      BY <1>5, <3>3, RemovalKeeps
    <3>5. j \in idx..Len(subs)
      BY <1>0, <3>2, <3>4
    <3>. QED  BY <3>1, <3>4, <3>5 DEF Waiting
  <2>. QED  BY <2>2, <2>3
<1>6. CASE UNCHANGED <<emitter, subs>>
  BY <1>6 DEF Serving, Waiting, emitter
<1>. QED
  BY <1>1, <1>2, <1>3, <1>4, <1>5, <1>6
     DEF Next, Emit, Serve, Quiet, ReplayPut, ReplayBlocks, ReplayResumes, ReplayDone, Deliver,
         Disconnect, Sleep, Heartbeat, bus, vars

\* Whoever is yet to be served stays so until the event is in the queue, unless
\* somebody unsubscribes.
LEMMA NobodyIsForgotten ==
  ASSUME TypeOK, SubsInv, LoopInv, [Next]_vars, NEW c \in Clients,
         ~EmitAppend, \A d \in Clients : ~Unsubscribe(d),
         ~(target = c /\ (PutAgain \/ (PutNowait /\ ~Full(c)))), Serving(c) \/ Waiting(c)
  PROVE  Serving(c)' \/ Waiting(c)'
<1>0. Len(subs) \in Nat /\ idx \in Nat \ {0} /\ subs \in Seq(Clients)
  BY LenProperties DEF TypeOK, LoopInv
<1>1. CASE NextSubscriber
  <2>1. epc = "each" /\ subs' = subs /\ target' = subs[idx] /\ idx' = idx + 1 /\ epc' = "put"
    BY <1>1 DEF NextSubscriber, bus
  <2>2. PICK i \in idx..Len(subs) : subs[i] = c
    BY <2>1 DEF Serving, Waiting
  <2>3. i = idx \/ i \in idx+1..Len(subs)
    BY <1>0
  <2>. QED  BY <2>1, <2>2, <2>3 DEF Serving, Waiting
<1>2. CASE EmitReturns
  <2>1. epc = "each" /\ idx > Len(subs)
    BY <1>2 DEF EmitReturns
  <2>. QED  BY <1>0, <2>1 DEF Serving, Waiting
<1>3. CASE PutNowait \/ DropOldest \/ PutAgain
  <2>1. epc \in {"put", "drop", "reput"} /\ epc' # "idle" /\ UNCHANGED <<idx, target, subs>>
    BY <1>3 DEF PutNowait, DropOldest, PutAgain, bus
  <2>2. target = c => epc' \in {"drop", "reput"}
    BY <1>3 DEF PutNowait, DropOldest
  <2>. QED  BY <2>1, <2>2 DEF Serving, Waiting
<1>4. ASSUME NEW d \in Clients, Subscribe(d) PROVE Serving(c)' \/ Waiting(c)'
  <2>1. subs' = Append(subs, d) /\ UNCHANGED <<epc, idx, target>>
    BY <1>4 DEF Subscribe, emitter
  <2>2. CASE Serving(c)
    BY <2>1, <2>2 DEF Serving
  <2>3. CASE Waiting(c)
    <3>1. PICK i \in idx..Len(subs) : subs[i] = c /\ epc # "idle"
      BY <2>3 DEF Waiting
    <3>2. i \in 1..Len(subs) /\ i \in idx..Len(subs)+1
      BY <1>0
    <3>3. subs'[i] = c /\ Len(subs') = Len(subs) + 1
      BY <1>0, <2>1, <3>1, <3>2, AppendProperties
    <3>. QED  BY <2>1, <3>1, <3>2, <3>3 DEF Waiting
  <2>. QED  BY <2>2, <2>3
<1>5. CASE UNCHANGED <<emitter, subs>>
  BY <1>5 DEF Serving, Waiting, emitter
<1>. QED
  BY <1>1, <1>2, <1>3, <1>4, <1>5
     DEF Next, Emit, Serve, Quiet, ReplayPut, ReplayBlocks, ReplayResumes, ReplayDone, Deliver,
         Disconnect, Sleep, Heartbeat, bus, vars

-----------------------------------------------------------------------------
(* Order.                                                                  *)

\* Streams go on rising.
LEMMA OrderStep ==
  TypeOK /\ HistoryInv /\ SubsInv /\ ClientInv /\ LoopInv /\ OrderInv /\ LoopInv' /\ [Next]_vars
    => OrderInv'
<1>. SUFFICES ASSUME TypeOK, HistoryInv, SubsInv, ClientInv, LoopInv, OrderInv, LoopInv',
                     [Next]_vars, NEW c \in Clients, c \notin raced'
              PROVE  /\ Rising(Stream(c)')
                     /\ Below(Stream(c)', sent' + 1)
                     /\ Serving(c)' \/ Waiting(c)' => Below(Stream(c)', sent')
  BY DEF OrderInv, Rising, Below
<1>1. c \notin raced
  BY DEF Next, Emit, Serve, Quiet, EmitAppend, NextSubscriber, EmitReturns, PutNowait, DropOldest,
         PutAgain, Subscribe, ReplayPut, ReplayBlocks, ReplayResumes, ReplayDone, Deliver,
         Disconnect, Unsubscribe, Sleep, Heartbeat, past, vars
<1>2. /\ Rising(Stream(c)) /\ Below(Stream(c), sent + 1)
      /\ Serving(c) \/ Waiting(c) => Below(Stream(c), sent)
  BY <1>1 DEF OrderInv
<1>3. /\ sent \in Nat /\ Stream(c) \in Seq(Events) /\ Len(Stream(c)) \in Nat
      /\ \A i \in 1..Len(Stream(c)) : Stream(c)[i] \in Nat
  <2>1. Stream(c) \in Seq(Events)
    BY StreamTyped
  <2>2. \A i \in 1..Len(Stream(c)) : Stream(c)[i] \in Events
    BY <2>1, ElementOfSeq
  <2>3. Len(Stream(c)) \in Nat
    BY <2>1, LenProperties
  <2>4. sent \in Nat /\ Events \subseteq Nat
    BY BusAssumption DEF TypeOK, Events
  <2>. QED  BY <2>1, <2>2, <2>3, <2>4
<1>4. CASE EmitAppend
  <2>1. ~Iterating(c) /\ sent' = sent + 1
    BY <1>4 DEF EmitAppend
  <2>2. Stream(c)' = Stream(c)
    <3>1. ~Subscribe(c) /\ ~PutNowait /\ ~DropOldest /\ ~PutAgain
      BY <1>4 DEF EmitAppend, Subscribe, PutNowait, DropOldest, PutAgain, emitter
    <3>. QED  BY <2>1, <3>1, StreamKept
  <2>3. Below(Stream(c), sent + 1 + 1)
    BY <1>2, <1>3 DEF Below
  <2>. QED  BY <1>2, <2>1, <2>2, <2>3
<1>5. CASE target = c /\ (PutNowait \/ PutAgain)
  <2>1. epc \in {"put", "reput"} /\ sent' = sent /\ target' = target
    BY <1>5 DEF PutNowait, PutAgain
  <2>2. ~Iterating(c) /\ Below(Stream(c), sent)
    BY <1>1, <1>2, <1>5, <2>1 DEF ClientInv, Serving
  <2>3. CASE Full(c)
    <3>1. Stream(c)' = Stream(c)
      BY <1>5, <2>3, PutsInStream
    <3>. QED  BY <1>2, <2>1, <2>2, <3>1
  <2>4. CASE ~Full(c)
    <3>1. Stream(c)' = Append(Stream(c), sent)
      BY <1>5, <2>2, <2>4, PutsInStream
    <3>2. sent \in Events
      BY <2>1, BusAssumption DEF LoopInv, TypeOK, Events
    <3>3. Rising(Append(Stream(c), sent)) /\ Below(Append(Stream(c), sent), sent + 1)
      BY <1>2, <1>3, <2>2, <3>2, RisingAppend
    <3>4. epc' = "each" /\ subs' = subs /\ idx' = idx
      BY <1>5, <2>4 DEF PutNowait, PutAgain, bus
    <3>5. ~Serving(c)' /\ ~Waiting(c)'
      BY <1>5, <2>1, <3>4 DEF Serving, Waiting, LoopInv
    <3>. QED  BY <2>1, <3>1, <3>3, <3>5
  <2>. QED  BY <2>3, <2>4
<1>6. CASE target = c /\ DropOldest
  <2>1. epc = "drop" /\ sent' = sent
    BY <1>6 DEF DropOldest
  <2>2. ~Iterating(c) /\ Below(Stream(c), sent)
    BY <1>1, <1>2, <1>6, <2>1 DEF ClientInv, Serving
  <2>3. /\ Rising(Stream(c)') /\ Below(Stream(c)', sent) /\ Below(Stream(c)', sent + 1)
    BY <1>2, <1>3, <1>6, <2>2, DropKeepsOrder
  <2>. QED  BY <2>1, <2>3
<1>7. CASE Subscribe(c)
  <2>1. Stream(c)' = history
    BY <1>7, StreamBegins
  <2>2. epc' = "idle" /\ sent' = sent
    BY <1>7 DEF Subscribe, emitter
  <2>3. Len(history) \in Nat /\ \A i \in 1..Len(history) : history[i] = sent - Len(history) + i
    BY LenProperties DEF TypeOK, HistoryInv, Latest
  <2>4. Rising(history) /\ Below(history, sent + 1)
    BY <1>3, <2>3 DEF Rising, Below
  <2>. QED  BY <2>1, <2>2, <2>4 DEF Serving, Waiting
<1>8. CASE /\ ~EmitAppend /\ ~Subscribe(c)
           /\ ~(target = c /\ (PutNowait \/ DropOldest \/ PutAgain))
  <2>1. Stream(c)' = Stream(c)
    BY <1>8, StreamKept
  <2>2. sent' = sent
    BY <1>8 DEF Next, Emit, Serve, Quiet, NextSubscriber, EmitReturns, PutNowait, DropOldest,
         PutAgain, Subscribe, ReplayPut, ReplayBlocks, ReplayResumes, ReplayDone, Deliver,
         Disconnect, Unsubscribe, Sleep, Heartbeat, emitter, vars
  <2>3. Serving(c)' \/ Waiting(c)' => Serving(c) \/ Waiting(c)
    BY <1>8, NobodyIsServedAgain
  <2>. QED  BY <1>2, <2>1, <2>2, <2>3
<1>. QED  BY <1>4, <1>5, <1>6, <1>7, <1>8

-----------------------------------------------------------------------------
(* Every subscriber gets its copy.                                         *)

\* What has been emitted and is not too old is in the history.
LEMMA HistoryHolds ==
  ASSUME TypeOK, HistoryInv
  PROVE  Emitted \subseteq Range(history) /\ (sent # 0 => sent \in Range(history))
<1>1. /\ sent \in Nat /\ MaxQueue \in Nat \ {0} /\ history \in Seq(Events)
      /\ Events \subseteq Nat \ {0}
  BY BusAssumption DEF TypeOK, Events
<1>2. Len(history) \in Nat /\ DOMAIN history = 1..Len(history)
  BY <1>1, LenProperties
<1>3. /\ Len(history) = IF sent <= MaxQueue THEN sent ELSE MaxQueue
      /\ \A i \in 1..Len(history) : history[i] = sent - Len(history) + i
  BY DEF HistoryInv, Latest
<1>4. ASSUME NEW e \in Nat \ {0}, e > sent - MaxQueue, e <= sent
      PROVE  e \in Range(history)
  <2>1. e - (sent - Len(history)) \in 1..Len(history)
    BY <1>1, <1>2, <1>3, <1>4
  <2>2. history[e - (sent - Len(history))] = e
    BY <1>1, <1>2, <1>3, <1>4, <2>1
  <2>. QED  BY <1>2, <2>1, <2>2 DEF Range
<1>5. ASSUME NEW e \in Emitted
      PROVE  e \in Nat \ {0} /\ e > sent - MaxQueue /\ e <= sent
  BY <1>1 DEF Emitted
<1>6. sent # 0 => sent > sent - MaxQueue
  BY <1>1
<1>. QED  BY <1>1, <1>4, <1>5, <1>6

\* A client that has left does not come back.
LEMMA GoneForGood ==
  ASSUME TypeOK, [Next]_vars, NEW d \in Clients, cpc[d] = "gone"
  PROVE  cpc'[d] = "gone"
<1>1. ASSUME NEW c \in Clients, Subscribe(c) \/ Serve(c) \/ Disconnect(c) PROVE cpc'[d] = "gone"
  BY <1>1 DEF Serve, Subscribe, ReplayPut, ReplayBlocks, ReplayResumes, ReplayDone, Replaying,
              MayResume, Deliver, MayDeliver, Heartbeat, Unsubscribe, MayLeave, Disconnect,
              TypeOK, client
<1>2. CASE UNCHANGED cpc
  BY <1>2
<1>. QED
  BY <1>1, <1>2 DEF Next, Emit, Quiet, Sleep, EmitAppend, NextSubscriber, EmitReturns, PutNowait,
                    DropOldest, PutAgain, client, vars

\* Only its own request makes a client a subscriber.
LEMMA SubscribedBefore ==
  ASSUME TypeOK, [Next]_vars, NEW c \in Clients, ~Subscribe(c), Subscribed(c)'
  PROVE  Subscribed(c)
<1>1. ASSUME NEW d \in Clients, Subscribe(d) \/ Serve(d) \/ Disconnect(d) PROVE Subscribed(c)
  <2>1. CASE d = c
    BY <1>1, <2>1
       DEF Serve, ReplayPut, ReplayBlocks, ReplayResumes, ReplayDone, Replaying,
           MayResume, Deliver, MayDeliver, Heartbeat, Unsubscribe, Disconnect,
           Subscribed, TypeOK, client
  <2>2. CASE d # c
    BY <1>1, <2>2
       DEF Subscribe, Serve, ReplayPut, ReplayBlocks, ReplayResumes, ReplayDone,
           Deliver, Heartbeat, Unsubscribe, Disconnect, Subscribed, TypeOK, client
  <2>. QED  BY <2>1, <2>2
<1>2. CASE UNCHANGED cpc
  BY <1>2 DEF Subscribed
<1>. QED
  BY <1>1, <1>2 DEF Next, Emit, Quiet, Sleep, EmitAppend, NextSubscriber, EmitReturns, PutNowait,
                    DropOldest, PutAgain, client, vars

\* What has been emitted stays in the stream of every subscriber.
LEMMA CopyStep ==
  TypeOK /\ HistoryInv /\ SubsInv /\ ClientInv /\ LoopInv /\ CopyInv /\ [Next]_vars => CopyInv'
<1>. SUFFICES ASSUME TypeOK, HistoryInv, SubsInv, ClientInv, LoopInv, CopyInv, [Next]_vars,
                     NEW c \in Clients, Subscribed(c)', c \notin overran', ~Shifted(c)'
              PROVE  /\ Emitted' \subseteq Range(Stream(c)')
                     /\ epc' # "idle" => sent' \in Range(Stream(c)') \/ Serving(c)' \/ Waiting(c)'
  BY DEF CopyInv
<1>0. sent \in Nat /\ MaxQueue \in Nat \ {0} /\ Events \subseteq Nat
  BY BusAssumption DEF TypeOK, Events
<1>1. c \notin overran
  BY DEF Next, Emit, Serve, Quiet, EmitAppend, NextSubscriber, EmitReturns, PutNowait, DropOldest,
         PutAgain, Subscribe, ReplayPut, ReplayBlocks, ReplayResumes, ReplayDone, Deliver,
         Disconnect, Unsubscribe, Sleep, Heartbeat, past, vars
<1>2. ~Shifted(c)
  BY GoneForGood DEF Shifted
<1>3. ASSUME ~Subscribe(c)
      PROVE  /\ Emitted \subseteq Range(Stream(c))
             /\ epc # "idle" => sent \in Range(Stream(c)) \/ Serving(c) \/ Waiting(c)
  BY <1>1, <1>2, <1>3, SubscribedBefore DEF CopyInv
<1>4. CASE EmitAppend
  <2>1. epc = "idle" /\ sent' = sent + 1 /\ idx' = 1 /\ epc' = "each" /\ UNCHANGED <<cpc, subs>>
    BY <1>4 DEF EmitAppend
  <2>2. ~Subscribe(c) /\ ~PutNowait /\ ~DropOldest /\ ~PutAgain
    BY <2>1 DEF Subscribe, PutNowait, DropOldest, PutAgain, emitter
  <2>3. Range(Stream(c)) \subseteq Range(Stream(c)')
    <3>1. CASE Iterating(c)
      BY <1>4, <3>1, AppendExtendsStreams
    <3>2. CASE ~Iterating(c)
      <4>1. Stream(c)' = Stream(c)
        BY <2>2, <3>2, StreamKept
      <4>. QED  BY <4>1
    <3>. QED  BY <3>1, <3>2
  <2>4. Emitted' \subseteq Emitted
    <3>. SUFFICES ASSUME NEW e \in Emitted' PROVE e \in Emitted
      OBVIOUS
    <3>1. e \in Events /\ e > sent + 1 - MaxQueue /\ e <= sent + 1 - 1
      BY <1>0, <2>1 DEF Emitted
    <3>2. e > sent - MaxQueue /\ e <= sent
      BY <1>0, <3>1
    <3>. QED  BY <2>1, <3>1, <3>2 DEF Emitted
  <2>5. Waiting(c)'
    <3>1. cpc[c] \notin {"out", "gone"}
      BY <2>1 DEF Subscribed
    <3>2. \E i \in 1..Len(subs) : subs[i] = c
      BY <3>1 DEF SubsInv
    <3>. QED  BY <2>1, <3>2 DEF Waiting
  <2>. QED  BY <1>3, <2>2, <2>3, <2>4, <2>5
<1>5. CASE target = c /\ PutNowait
  <2>1. /\ epc = "put" /\ sent' = sent /\ target' = target /\ ~Subscribe(c)
        /\ epc' = IF Full(c) THEN "drop" ELSE "each"
    BY <1>5 DEF PutNowait, Subscribe, emitter
  <2>2. Emitted' = Emitted
    BY <2>1 DEF Emitted
  <2>3. CASE Full(c)
    <3>1. Stream(c)' = Stream(c)
      BY <1>5, <2>3, PutsInStream
    <3>2. Serving(c)'
      BY <1>5, <2>1, <2>3 DEF Serving
    <3>. QED  BY <1>3, <2>1, <2>2, <3>1, <3>2
  <2>4. CASE ~Full(c)
    <3>1. Range(Stream(c)') = Range(Stream(c)) \cup {sent}
      BY <1>5, <2>4, PutsInStream
    <3>. QED  BY <1>3, <2>1, <2>2, <3>1
  <2>. QED  BY <2>3, <2>4
<1>6. ~(target = c /\ PutAgain)
  BY DEF PutAgain
<1>7. CASE target = c /\ DropOldest
  <2>1. /\ epc = "drop" /\ epc' = "reput" /\ sent' = sent /\ target' = target /\ ~Subscribe(c)
        /\ UNCHANGED <<bus, client, queue>>
    BY <1>7 DEF DropOldest, Subscribe, emitter, bus, client
  <2>2. Stream(c)' = Stream(c)
    BY <2>1 DEF Stream, Iterating, Replayed, bus, client
  <2>3. Emitted' = Emitted /\ Serving(c)'
    BY <1>7, <2>1 DEF Emitted, Serving
  <2>. QED  BY <1>3, <2>1, <2>2, <2>3
<1>8. CASE Subscribe(c)
  <2>1. Stream(c)' = history
    BY <1>8, StreamBegins
  <2>2. UNCHANGED <<epc, sent>>
    BY <1>8 DEF Subscribe, emitter
  <2>3. Emitted' = Emitted
    BY <2>2 DEF Emitted
  <2>. QED  BY <2>1, <2>2, <2>3, HistoryHolds DEF LoopInv
<1>9. CASE EmitReturns
  <2>1. /\ epc = "each" /\ idx > Len(subs) /\ epc' = "idle" /\ sent' = sent
        /\ ~Subscribe(c) /\ ~PutNowait /\ ~DropOldest /\ ~PutAgain /\ ~EmitAppend
    BY <1>9 DEF EmitReturns, Subscribe, PutNowait, DropOldest, PutAgain, EmitAppend, emitter
  <2>2. Stream(c)' = Stream(c)
    BY <2>1, StreamKept
  <2>3. ~Serving(c) /\ ~Waiting(c)
    <3>1. Len(subs) \in Nat /\ idx \in Nat
      BY LenProperties DEF TypeOK
    <3>. QED  BY <2>1, <3>1 DEF Serving, Waiting
  <2>4. Emitted' \subseteq Emitted \cup {sent}
    <3>. SUFFICES ASSUME NEW e \in Events, e <= sent, e # sent
                  PROVE  e <= sent - 1
      BY <2>1 DEF Emitted
    <3>. QED  BY <1>0
  <2>. QED  BY <1>3, <2>1, <2>2, <2>3, <2>4
<1>10. \A d \in Clients : ~Unsubscribe(d)
  <2>. SUFFICES ASSUME NEW d \in Clients, Unsubscribe(d) PROVE FALSE
    OBVIOUS
  <2>1. cpc'[d] = "gone"
    BY DEF Unsubscribe, TypeOK
  <2>. QED  BY <2>1 DEF Shifted, Subscribed
<1>11. CASE /\ ~EmitAppend /\ ~EmitReturns /\ ~Subscribe(c)
            /\ ~(target = c /\ (PutNowait \/ DropOldest \/ PutAgain))
  <2>1. Stream(c)' = Stream(c)
    BY <1>11, StreamKept
  <2>2. sent' = sent /\ (epc' = "idle" <=> epc = "idle")
    BY <1>11 DEF Next, Emit, Serve, Quiet, NextSubscriber, PutNowait, DropOldest,
         PutAgain, Subscribe, ReplayPut, ReplayBlocks, ReplayResumes, ReplayDone, Deliver,
         Disconnect, Unsubscribe, Sleep, Heartbeat, emitter, vars
  <2>3. Serving(c) \/ Waiting(c) => Serving(c)' \/ Waiting(c)'
    BY <1>10, <1>11, NobodyIsForgotten
  <2>4. Emitted' = Emitted
    BY <2>2 DEF Emitted
  <2>. QED  BY <1>3, <1>11, <2>1, <2>2, <2>3, <2>4
<1>. QED  BY <1>4, <1>5, <1>6, <1>7, <1>8, <1>9, <1>11

-----------------------------------------------------------------------------
(* Theorems.                                                               *)

\* The invariant holds before the first event and the first request.
LEMMA BusInit == Init => TypeOK /\ BusInv
<1>. SUFFICES ASSUME Init PROVE TypeOK /\ BusInv
  OBVIOUS
<1>0. NumEvents \in Nat \ {0} /\ MaxQueue \in Nat \ {0} /\ NoClient \notin Clients
  BY BusAssumption
<1>1. TypeOK
  <2>1. <<>> \in Seq(Events) /\ <<>> \in Seq(Clients) /\ Len(<<>>) = 0 /\ 0 <= MaxQueue
    BY <1>0, EmptySeq
  <2>2. /\ cpc \in [Clients -> {"out", "replay", "blocked", "stream", "leaving", "gone"}]
        /\ source \in [Clients -> Seq(Events)] /\ pos \in [Clients -> Nat]
        /\ queue \in [Clients -> Seq(Events)] /\ got \in [Clients -> Seq(Events)]
    BY <2>1 DEF Init
  <2>3. \A c \in Clients : Len(queue[c]) <= MaxQueue
    BY <2>1 DEF Init
  <2>4. /\ sent \in 0..NumEvents /\ idx \in Nat
        /\ history \in Seq(Events) /\ Len(history) <= MaxQueue /\ subs \in Seq(Clients)
    BY <1>0, <2>1 DEF Init
  <2>5. /\ epc \in {"idle", "each", "put", "drop", "reput"} /\ target \in Clients \cup {NoClient}
        /\ lock \in Clients \cup {NoClient} /\ running \in Clients \cup {NoClient}
        /\ overran \subseteq Clients /\ raced \subseteq Clients /\ asleep \in BOOLEAN
    BY DEF Init
  <2>. QED  BY <2>2, <2>3, <2>4, <2>5 DEF TypeOK
<1>2. HistoryInv
  BY <1>0 DEF Init, HistoryInv, Latest
<1>3. SubsInv
  BY <1>0 DEF Init, SubsInv
<1>4. ClientInv
  BY DEF Init, ClientInv, Iterating
<1>5. LoopInv
  BY DEF Init, LoopInv
<1>6. OrderInv
  <2>1. ASSUME NEW c \in Clients PROVE Stream(c) = <<>>
    <3>1. Stream(c) = (<<>> \o <<>>) \o <<>>
      BY DEF Init, Stream, Iterating
    <3>. QED  BY <3>1, ConcatEmptySeq, EmptySeq
  <2>. QED  BY <2>1, EmptySeq DEF Init, OrderInv, Rising, Below, Serving, Waiting
<1>7. CopyInv
  BY DEF Init, CopyInv, Subscribed
<1>. QED  BY <1>1, <1>2, <1>3, <1>4, <1>5, <1>6, <1>7 DEF BusInv

\* Whatever the emitting thread and the event loop do in between, the state of
\* the bus has its types, the history holds the latest events, and each
\* subscriber is served, has been served or will be.
THEOREM BusInvariant == Spec => [](TypeOK /\ BusInv)
<1>1. Init => TypeOK /\ BusInv
  BY BusInit
<1>2. TypeOK /\ BusInv /\ [Next]_vars => (TypeOK /\ BusInv)'
  <2>. SUFFICES ASSUME TypeOK, BusInv, [Next]_vars PROVE (TypeOK /\ BusInv)'
    OBVIOUS
  <2>1. TypeOK'
    BY TypesStep
  <2>2. HistoryInv'
    BY HistoryStep DEF BusInv
  <2>3. SubsInv'
    BY SubsStep DEF BusInv
  <2>4. LoopInv'
    BY LoopStep DEF BusInv
  <2>5. ClientInv'
    BY ClientStep DEF BusInv
  <2>6. OrderInv'
    BY <2>4, OrderStep DEF BusInv
  <2>7. CopyInv'
    BY CopyStep DEF BusInv
  <2>. QED  BY <2>1, <2>2, <2>3, <2>4, <2>5, <2>6, <2>7 DEF BusInv
<1>. QED  BY <1>1, <1>2, PTL DEF Spec

\* The type invariant of the bus and the SSE requests (EventBus, session_events).
THEOREM BusTypes == Spec => []TypeOK
BY BusInvariant, PTL

\* emit() reaches every subscriber (events.py:47): between the replay of the
\* history and the live queue no event falls through, and a replay that no
\* emit() overlapped gives each event once and in order.
THEOREM CopiesArrive == Spec => []SubscriberGetsCopy
<1>1. BusInv => SubscriberGetsCopy
  BY DEF BusInv, OrderInv, CopyInv, Rising, SubscriberGetsCopy
<1>. QED  BY <1>1, BusInvariant, PTL
=============================================================================
