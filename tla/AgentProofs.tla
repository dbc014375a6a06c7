----------------------------- MODULE AgentProofs -----------------------------
(***************************************************************************)
(* Theorems about what the agent of a goal is shown: its prompt and the    *)
(* answers to its calls (Conversation), for any sizes and limits, and its  *)
(* todo list (TodoList), for any ids and lists of any length.              *)
(***************************************************************************)
EXTENDS Conversation, TodoList, SequenceTheorems, FiniteSetTheorems, TLAPS

-----------------------------------------------------------------------------
(* The conversation of a goal and its prompt.                              *)

Asking == stage \in {"pack", "chat", "overflow"}

\* The sections of a call are those of its iteration, until it is answered.
SectionsInv == Asking => \E diff \in Sizes : sections = Sections(iter, diff)

\* From the second iteration on the log of the one before is at hand.
FailureInv ==
  /\ iter = 0 => stage = "build"
  /\ stage # "build" => fails < iter
  /\ iter > 0 /\ stage = "build" => failure # <<>> /\ failure[1].text = <<"log", iter>>
  /\ iter > 1 /\ stage # "build" => failure # <<>> /\ failure[1].text = <<"log", iter - 1>>

\* At the beginning of an iteration the advice is the last message, and after
\* a rollback there is none.
AdviceInv ==
  stage \in {"build", "pack", "chat", "overflow"} =>
    /\ StrategyAfter > 0 /\ fails >= StrategyAfter =>
         running # <<>> /\ running[Len(running)] = Advice(fails)
    /\ fails = 0 => running = <<>>

\* The calls that were carried out, of the turn that is under way.
Done == Len(asked) - Len(waiting)

CallsInv ==
  stage = "calls" =>
    /\ \A k \in 1..Len(waiting) : waiting[k] = asked[Done + k]
    /\ Len(recorded) = Done /\ \A k \in 1..Done : recorded[k] = asked[k].id
    /\ FitsWindow =>
         LET turn == Len(running) - Done IN
         /\ turn > 0 /\ running[turn] = Turn(asked)
         /\ \A k \in 1..Done : running[turn + k].text[2] = asked[k].id

\* pack() takes the messages from the oldest on, and then the diff; it goes on
\* only as long as what is left does not fit.
Dropped == DOMAIN sections \ kept
Latest  == IF 4 \in Dropped THEN 4 ELSE Sets!Max(Dropped)

PackInv ==
  Asking =>
    /\ DOMAIN sections \ Droppable(sections) \subseteq kept
    /\ \A i \in Talk \cap kept : 4 \in kept /\ \A j \in Talk : i < j => j \in kept
    /\ Dropped # {} => ~Fits(kept \cup {Latest})
    /\ stage = "overflow" => ~Fits(kept) /\ MayDrop = {}
    /\ stage = "chat" => prompt = Packed(sections, kept)

GoalInv == SectionsInv /\ FailureInv /\ AdviceInv /\ CallsInv /\ PackInv /\ OrderKept
-----------------------------------------------------------------------------
(* Sorting the sections that are kept.                                     *)

\* A set of numbers that is not empty has a least one.
LEMMA LeastOf ==
  ASSUME NEW S \in SUBSET Nat, S # {}
  PROVE  \E m \in S : \A n \in S : m <= n
<1>1. PICK m \in S : \A n \in S : ~(<<n, m>> \in OpToRel(<, Nat))
  BY WFMin, NatLessThanWellFounded
<1>2. ASSUME NEW n \in S PROVE m <= n
  <2>1. m \in Nat /\ n \in Nat  OBVIOUS
  <2>2. ~(n < m)  BY <1>1, <2>1 DEF OpToRel
  <2> QED  BY <2>1, <2>2
<1> QED  BY <1>2

\* The index of a section is that of the first one equal to it.
LEMMA IndexIs ==
  ASSUME NEW T, NEW secs \in Seq(T), NEW i \in DOMAIN secs
  PROVE  /\ IndexOf(secs, i) \in DOMAIN secs /\ IndexOf(secs, i) \in Nat
         /\ secs[IndexOf(secs, i)] = secs[i]
         /\ \A j \in DOMAIN secs : secs[j] = secs[i] => IndexOf(secs, i) <= j
<1> DEFINE E == {j \in DOMAIN secs : secs[j] = secs[i]}
<1>1. DOMAIN secs = 1..Len(secs) /\ Len(secs) \in Nat  BY LenProperties
<1>2. E \in SUBSET Nat /\ E # {}  BY <1>1
<1>3. PICK m \in E : \A n \in E : m <= n
  <2> HIDE DEF E
  <2> QED  BY <1>2, LeastOf
<1>4. IndexOf(secs, i) = CHOOSE x \in E : \A y \in E : x <= y
  BY DEF IndexOf, Sets!Min
<1>5. IndexOf(secs, i) \in E /\ \A y \in E : IndexOf(secs, i) <= y
  <2> HIDE DEF E
  <2> QED  BY <1>3, <1>4
<1> QED  BY <1>1, <1>5

\* The order of the last sort is strict and total.
LEMMA PrecedesIsOrder ==
  ASSUME NEW T, NEW secs \in Seq(T)
  PROVE  /\ \A i \in DOMAIN secs : ~Precedes(secs, i, i)
         /\ \A i, j \in DOMAIN secs : i = j \/ Precedes(secs, i, j) \/ Precedes(secs, j, i)
         /\ \A i, j, k \in DOMAIN secs :
              Precedes(secs, i, j) /\ Precedes(secs, j, k) => Precedes(secs, i, k)
<1>1. \A i \in DOMAIN secs : i \in Nat /\ IndexOf(secs, i) \in Nat
  BY IndexIs, LenProperties
<1> QED  BY <1>1 DEF Precedes

\* Sorting takes each section once, and in that order.
LEMMA PackedSorts ==
  ASSUME NEW T, NEW secs \in Seq(T), NEW from \in SUBSET DOMAIN secs
  PROVE  LET p == Packed(secs, from)
             n == Cardinality(from)
         IN  /\ n \in Nat /\ p \in [1..n -> from]
             /\ \A i \in from : \E k \in 1..n : p[k] = i
             /\ \A k, l \in 1..n : k < l => Precedes(secs, p[k], p[l])
<1> DEFINE n         == Cardinality(from)
           before(i) == {j \in from : Precedes(secs, j, i)}
           rank      == [i \in from |-> Cardinality(before(i)) + 1]
<1>1. IsFiniteSet(from) /\ n \in Nat
  <2>1. DOMAIN secs = 1..Len(secs) /\ Len(secs) \in Nat  BY LenProperties
  <2>2. IsFiniteSet(DOMAIN secs)  BY <2>1, FS_Interval
  <2> QED  BY <2>2, FS_Subset, FS_CardinalityType
<1>2. ASSUME NEW i \in from
      PROVE  IsFiniteSet(before(i)) /\ Cardinality(before(i)) \in Nat /\ rank[i] \in 1..n
  <2>1. before(i) \in SUBSET (from \ {i})  BY PrecedesIsOrder
  <2>2. IsFiniteSet(from \ {i}) /\ Cardinality(from \ {i}) = n - 1
    BY <1>1, FS_RemoveElement
  <2>3. IsFiniteSet(before(i)) /\ Cardinality(before(i)) <= n - 1
    <3> HIDE DEF before
    <3> QED  BY <2>1, <2>2, FS_Subset
  <2>4. Cardinality(before(i)) \in Nat
    <3> HIDE DEF before
    <3> QED  BY <2>3, FS_CardinalityType
  <2> HIDE DEF before, n
  <2> QED  BY <1>1, <2>3, <2>4
<1>3. ASSUME NEW i \in from, NEW j \in from, Precedes(secs, i, j)
      PROVE  rank[i] < rank[j]
  <2>1. before(i) \cup {i} \in SUBSET before(j) /\ i \notin before(i)
    BY <1>3, PrecedesIsOrder
  <2>2. IsFiniteSet(before(i)) /\ IsFiniteSet(before(j))  BY <1>2
  <2>3. Cardinality(before(i) \cup {i}) = Cardinality(before(i)) + 1
    <3> HIDE DEF before
    <3> QED  BY <2>1, <2>2, FS_AddElement
  <2>4. Cardinality(before(i) \cup {i}) <= Cardinality(before(j))
    <3> HIDE DEF before
    <3> QED  BY <2>1, <2>2, FS_Subset
  <2>5. Cardinality(before(i)) \in Nat /\ Cardinality(before(j)) \in Nat  BY <1>2
  <2>6. rank[i] = Cardinality(before(i)) + 1 /\ rank[j] = Cardinality(before(j)) + 1
    OBVIOUS
  <2> HIDE DEF before, rank
  <2> QED  BY <2>3, <2>4, <2>5, <2>6
<1>4. ASSUME NEW i \in from, NEW j \in from, rank[i] = rank[j]
      PROVE  i = j
  <2>1. rank[i] \in Nat /\ rank[j] \in Nat
    <3>1. rank[i] \in 1..n /\ rank[j] \in 1..n  BY <1>2
    <3> HIDE DEF rank, n
    <3> QED  BY <1>1, <3>1
  <2>2. i = j \/ Precedes(secs, i, j) \/ Precedes(secs, j, i)  BY PrecedesIsOrder
  <2>3. ~(rank[i] < rank[j]) /\ ~(rank[j] < rank[i])
    <3> HIDE DEF rank
    <3> QED  BY <1>4, <2>1
  <2> HIDE DEF rank
  <2> QED  BY <1>3, <2>2, <2>3
<1>5. rank \in Surjection(from, 1..n)
  <2>1. rank \in [from -> 1..n]  BY <1>2
  <2>2. rank \in Injection(from, 1..n)
    <3> HIDE DEF rank, n
    <3> QED  BY <1>4, <2>1 DEF Injection, IsInjective
  <2>3. IsFiniteSet(1..n) /\ Cardinality(1..n) = n
    <3> HIDE DEF n
    <3> QED  BY <1>1, FS_Interval
  <2> HIDE DEF rank
  <2> QED  BY <2>2, <2>3, FS_Injection
<1> DEFINE p == Packed(secs, from)
<1>6. p = [k \in 1..n |-> CHOOSE i \in from : rank[i] = k]
  <2>1. \A k \in 1..n, i \in from : Cardinality(before(i)) = k - 1 <=> rank[i] = k
    <3>1. \A i \in from : rank[i] = Cardinality(before(i)) + 1  OBVIOUS
    <3>2. \A i \in from : Cardinality(before(i)) \in Nat  BY <1>2
    <3> HIDE DEF rank, before, n
    <3> QED  BY <1>1, <3>1, <3>2
  <2>2. p = [k \in 1..n |-> CHOOSE i \in from : Cardinality(before(i)) = k - 1]
    BY DEF Packed
  <2>3. ASSUME NEW k \in 1..n
        PROVE  (CHOOSE i \in from : Cardinality(before(i)) = k - 1)
                 = (CHOOSE i \in from : rank[i] = k)
    <3> HIDE DEF rank, before
    <3> QED  BY <2>1
  <2> DEFINE c(k) == CHOOSE i \in from : Cardinality(before(i)) = k - 1
             d(k) == CHOOSE i \in from : rank[i] = k
  <2>4. \A k \in 1..n : c(k) = d(k)  BY <2>3
  <2>5. p = [k \in 1..n |-> c(k)]  BY <2>2
  <2>6. [k \in 1..n |-> c(k)] = [k \in 1..n |-> d(k)]
    <3> HIDE DEF c, d, n
    <3> QED  BY <2>4
  <2> QED  BY <2>5, <2>6
<1>7. ASSUME NEW k \in 1..n PROVE p[k] \in from /\ rank[p[k]] = k
  <2>1. PICK i \in from : rank[i] = k
    <3> HIDE DEF rank
    <3> QED  BY <1>5 DEF Surjection
  <2>2. p[k] = CHOOSE i1 \in from : rank[i1] = k
    <3> HIDE DEF p, rank
    <3> QED  BY <1>6
  <2> HIDE DEF p, rank
  <2> QED  BY <2>1, <2>2
<1>8. p \in [1..n -> from]
  <2>1. p = [k \in 1..n |-> p[k]]
    <3>1. p = [k \in 1..n |-> CHOOSE i \in from : rank[i] = k]  BY <1>6
    <3> HIDE DEF p, rank
    <3> QED  BY <3>1
  <2> HIDE DEF p, rank
  <2> QED  BY <1>7, <2>1
<1> HIDE DEF p, rank, n
<1>9. ASSUME NEW i \in from PROVE \E k \in 1..n : p[k] = i
  <2>1. rank[i] \in 1..n  BY <1>2
  <2>2. p[rank[i]] = i  BY <1>4, <1>7, <2>1
  <2> QED  BY <2>1, <2>2
<1>10. ASSUME NEW k \in 1..n, NEW l \in 1..n, k < l
       PROVE  Precedes(secs, p[k], p[l])
  <2>1. p[k] \in from /\ p[l] \in from /\ rank[p[k]] = k /\ rank[p[l]] = l  BY <1>7
  <2>2. p[k] = p[l] \/ Precedes(secs, p[k], p[l]) \/ Precedes(secs, p[l], p[k])
    BY <2>1, PrecedesIsOrder
  <2>3. ~Precedes(secs, p[l], p[k])
    <3>1. SUFFICES ASSUME Precedes(secs, p[l], p[k]) PROVE FALSE  OBVIOUS
    <3>2. rank[p[l]] < rank[p[k]]  BY <1>3, <2>1, <3>1
    <3> QED  BY <1>1, <1>10, <2>1, <3>2
  <2>4. p[k] # p[l]  BY <1>1, <1>10, <2>1
  <2> QED  BY <2>2, <2>3, <2>4
<1> QED  BY <1>1, <1>8, <1>9, <1>10 DEF p, n

-----------------------------------------------------------------------------
(* Sections and messages.                                                  *)

AnySection == Others \cup Logs \cup Messages

\* What the actions say are messages.
LEMMA MessagesAre ==
  /\ \A c \in Seq(Calls) : Turn(c) \in Messages
  /\ \A n \in 0..MaxIter : Advice(n) \in Messages
  /\ \A id \in CallIds :
       /\ Section("attempt", <<"rejected", id>>, 1) \in Messages
       /\ \A n \in ResultSizes : Section("attempt", <<"result", id>>, n) \in Messages
<1> DEFINE Texts == ({"turn"} \X Seq(Calls)) \cup ({"rejected", "result"} \X CallIds)
                      \cup ({"advice"} \X (0..MaxIter))
<1>1. \A t \in Texts, n \in Nat \ {0} : Section("attempt", t, n) \in Messages
  BY DEF Section, Messages
<1>2. \A c \in Seq(Calls) : <<"turn", c>> \in Texts  OBVIOUS
<1>3. \A n \in 0..MaxIter : <<"advice", n>> \in Texts  OBVIOUS
<1>4. \A id \in CallIds : <<"rejected", id>> \in Texts /\ <<"result", id>> \in Texts
  OBVIOUS
<1>5. 1 \in Nat \ {0} /\ ResultSizes \subseteq Nat \ {0}  BY ConversationAssumption
<1> HIDE DEF Texts
<1>6. \A c \in Seq(Calls) : Turn(c) \in Messages  BY <1>1, <1>2, <1>5 DEF Turn
<1>7. \A n \in 0..MaxIter : Advice(n) \in Messages  BY <1>1, <1>3, <1>5 DEF Advice
<1>8. \A id \in CallIds :
        /\ Section("attempt", <<"rejected", id>>, 1) \in Messages
        /\ \A n \in ResultSizes : Section("attempt", <<"result", id>>, n) \in Messages
  BY <1>1, <1>4, <1>5
<1> QED  BY <1>6, <1>7, <1>8

\* An answer is a sequence of at most MaxCalls calls.
LEMMA AnswersAreCalls ==
  ASSUME iter \in 0..MaxIter, NEW c \in Answers
  PROVE  c \in Seq(Calls) /\ Len(c) <= MaxCalls /\ Len(c) \in Nat
<1>1. PICK n \in 0..MaxCalls, m \in {0, iter} :
        c \in [1..n -> [id : {<<m, k>> : k \in 1..n}, bad : BOOLEAN]]
  <2> DEFINE A(n, m) == [1..n -> [id : {<<m, k>> : k \in 1..n}, bad : BOOLEAN]]
  <2>1. c \in ServerCalls \/ c \in RecoveredCalls  BY DEF Answers
  <2>2. ServerCalls = UNION {A(n, iter) : n \in 0..MaxCalls}  BY DEF ServerCalls
  <2>3. RecoveredCalls = UNION {A(n, 0) : n \in 1..MaxCalls}  BY DEF RecoveredCalls
  <2>4. 1..MaxCalls \subseteq 0..MaxCalls  OBVIOUS
  <2>5. \E n \in 0..MaxCalls, m \in {0, iter} : c \in A(n, m)
    <3> HIDE DEF A
    <3> QED  BY <2>1, <2>2, <2>3, <2>4
  <2> QED  BY <2>5
<1>2. n \in Nat /\ n <= MaxCalls /\ m \in 0..MaxIter
  BY <1>1, ConversationAssumption
<1>3. \A k \in 1..n : <<m, k>> \in CallIds
  BY <1>2, ConversationAssumption DEF CallIds
<1>4. [id : {<<m, k>> : k \in 1..n}, bad : BOOLEAN] \subseteq Calls
  BY <1>3 DEF Calls
<1>5. c \in [1..n -> Calls]  BY <1>1, <1>4
<1> QED  BY <1>2, <1>5, SeqDef

\* The last elements of a sequence, counted from its end.
LEMMA LastNIs ==
  ASSUME NEW T, NEW s \in Seq(T), NEW n \in Nat
  PROVE  /\ LastN(s, n) \in Seq(T)
         /\ Len(LastN(s, n)) = IF n = 0 \/ Len(s) <= n THEN Len(s) ELSE n
         /\ \A k \in 1..Len(LastN(s, n)) :
              LastN(s, n)[k] = s[Len(s) - Len(LastN(s, n)) + k]
<1>1. Len(s) \in Nat /\ DOMAIN s = 1..Len(s)  BY LenProperties
<1>2. CASE n = 0 \/ Len(s) <= n
  <2>1. LastN(s, n) = s  BY <1>2 DEF LastN
  <2>2. \A k \in 1..Len(s) : Len(s) - Len(s) + k = k  BY <1>1
  <2> QED  BY <1>1, <1>2, <2>1, <2>2
<1>3. CASE ~(n = 0 \/ Len(s) <= n)
  <2> DEFINE m == Len(s) - n + 1
  <2>1. LastN(s, n) = SubSeq(s, m, Len(s))  BY <1>3 DEF LastN
  <2>2. m \in Int /\ m <= Len(s) /\ 1 <= m  BY <1>1, <1>3
  <2>3. \A i \in m..Len(s) : s[i] \in T  BY <1>1, <2>2, ElementOfSeq
  <2>4. /\ SubSeq(s, m, Len(s)) \in Seq(T)
        /\ Len(SubSeq(s, m, Len(s))) = IF m <= Len(s) THEN Len(s) - m + 1 ELSE 0
        /\ \A i \in 1..Len(s) - m + 1 : SubSeq(s, m, Len(s))[i] = s[m + i - 1]
    <3> HIDE DEF m
    <3> QED  BY <1>1, <2>2, <2>3, SubSeqProperties
  <2>5. Len(s) - m + 1 = n  BY <1>1
  <2>6. \A k \in 1..n : m + k - 1 = Len(s) - n + k  BY <1>1
  <2> HIDE DEF m
  <2> QED  BY <1>1, <1>3, <2>1, <2>2, <2>4, <2>5, <2>6
<1> QED  BY <1>2, <1>3

\* Saying one thing makes it the last message, and shifts the others.
LEMMA SayIs ==
  ASSUME TypeOK, NEW m \in Messages, Say(<<m>>)
  PROVE  LET r == Len(running)
             q == Len(running')
         IN  /\ running' \in Seq(Messages) /\ r \in Nat /\ q \in Nat
             /\ q = IF Window = 0 \/ r < Window THEN r + 1 ELSE Window
             /\ q > 0 /\ (Window > 0 => q <= Window) /\ running'[q] = m
             /\ \A k \in 1..q - 1 : running'[k] = running[r + 1 - q + k]
<1> DEFINE s == running \o <<m>>
<1>1. /\ running \in Seq(Messages) /\ Len(running) \in Nat
      /\ Window > 0 => Len(running) <= Window
  BY LenProperties DEF TypeOK
<1>2. <<m>> \in Seq(Messages) /\ Len(<<m>>) = 1 /\ <<m>>[1] = m  OBVIOUS
<1>3. /\ s \in Seq(Messages) /\ Len(s) = Len(running) + 1
      /\ \A i \in 1..Len(running) + 1 :
           s[i] = IF i <= Len(running) THEN running[i] ELSE <<m>>[i - Len(running)]
  BY <1>1, <1>2, ConcatProperties
<1>4. Window \in Nat  BY ConversationAssumption
<1>5. running' = LastN(s, Window)  BY DEF Say
<1> HIDE DEF s
<1>6. /\ running' \in Seq(Messages)
      /\ Len(running') = IF Window = 0 \/ Len(s) <= Window THEN Len(s) ELSE Window
      /\ \A k \in 1..Len(running') : running'[k] = s[Len(s) - Len(running') + k]
  <2> DEFINE l == LastN(s, Window)
  <2>1. /\ l \in Seq(Messages)
        /\ Len(l) = IF Window = 0 \/ Len(s) <= Window THEN Len(s) ELSE Window
        /\ \A k \in 1..Len(l) : l[k] = s[Len(s) - Len(l) + k]
    <3>1. s \in Seq(Messages) /\ Window \in Nat  BY <1>3, <1>4
    <3> QED  BY <3>1, LastNIs
  <2> HIDE DEF l
  <2> QED  BY <1>5, <2>1 DEF l
<1>7. Len(running') = IF Window = 0 \/ Len(running) < Window
                        THEN Len(running) + 1 ELSE Window
  BY <1>1, <1>3, <1>4, <1>6
<1>8. /\ Len(running') \in Nat /\ Len(running') > 0 /\ Len(running') <= Len(running) + 1
      /\ Window > 0 => Len(running') <= Window
  BY <1>1, <1>4, <1>7
<1>9. running'[Len(running')] = m
  <2>0. /\ Len(running') \in 1..Len(running')
        /\ Len(s) - Len(running') + Len(running') = Len(running) + 1
    BY <1>1, <1>3, <1>8
  <2>1. running'[Len(running')] = s[Len(running) + 1]  BY <1>6, <2>0
  <2> QED  BY <1>1, <1>2, <1>3, <2>1
<1>10. ASSUME NEW k \in 1..Len(running') - 1
       PROVE  running'[k] = running[Len(running) + 1 - Len(running') + k]
  <2>0. k \in 1..Len(running') /\ Len(s) - Len(running') = Len(running) + 1 - Len(running')
    BY <1>1, <1>3, <1>8
  <2>1. running'[k] = s[Len(running) + 1 - Len(running') + k]  BY <1>6, <2>0
  <2> DEFINE i == Len(running) + 1 - Len(running') + k
  <2>2. i \in 1..Len(running) + 1 /\ i <= Len(running)  BY <1>1, <1>8
  <2> HIDE DEF i
  <2>3. s[i] = running[i]  BY <1>3, <2>2
  <2> QED  BY <2>1, <2>3 DEF i
<1> QED  BY <1>1, <1>6, <1>7, <1>8, <1>9, <1>10

\* The sections of an iteration: three that must stay, the diff, the log, and
\* the conversation.
LEMMA SectionsAre ==
  ASSUME TypeOK, NEW n \in 0..MaxIter, NEW diff \in Sizes
  PROVE  LET s == Sections(n, diff)
             f == Len(failure)
         IN  /\ s \in Seq(AnySection)
             /\ Len(s) = 4 + f + Len(running)
             /\ s[1] = System /\ s[3] = GoalText
             /\ s[2] = Reminder(n)
             /\ s[4] = Section("git_diff", <<"diff", n>>, diff)
             /\ \A k \in 1..f : s[4 + k] = failure[k]
             /\ \A k \in 1..Len(running) : s[4 + f + k] = running[k]
<1> DEFINE h == <<System, Reminder(n), GoalText,
                  Section("git_diff", <<"diff", n>>, diff)>>
           f == Len(failure)
           s == Sections(n, diff)
<1>1. /\ failure \in Seq(AnySection) /\ running \in Seq(AnySection)
      /\ Len(failure) \in Nat /\ Len(running) \in Nat
  <2>1. Logs \subseteq AnySection /\ Messages \subseteq AnySection  BY DEF AnySection
  <2>2. failure \in Seq(Logs) /\ running \in Seq(Messages)  BY DEF TypeOK
  <2> QED  BY <2>1, <2>2, SeqMonotonic, LenProperties
<1>2. h \in Seq(AnySection) /\ Len(h) = 4
  <2>1. diff \in Nat \ {0} /\ 1 \in Nat \ {0}  BY ConversationAssumption
  <2>2. \A t \in {<<"system">>, <<"goal">>} \cup ({"reminder", "diff"} \X (0..MaxIter)),
           k \in {"system", "goal", "git_diff"}, z \in Nat \ {0} :
          Section(k, t, z) \in Others
    BY DEF Section, Others
  <2>3. System \in Others /\ GoalText \in Others  BY <2>1, <2>2 DEF System, GoalText
  <2>4. Reminder(n) \in Others  BY <2>1, <2>2 DEF Reminder
  <2>5. Section("git_diff", <<"diff", n>>, diff) \in Others  BY <2>1, <2>2
  <2> QED  BY <2>3, <2>4, <2>5 DEF AnySection
<1>3. h[1] = System /\ h[2] = Reminder(n) /\ h[3] = GoalText
        /\ h[4] = Section("git_diff", <<"diff", n>>, diff)
  OBVIOUS
<1>4. s = (h \o failure) \o running  BY DEF Sections
<1> HIDE DEF h, s
<1>5. /\ h \o failure \in Seq(AnySection) /\ Len(h \o failure) = 4 + f
      /\ \A i \in 1..4 + f : (h \o failure)[i] = IF i <= 4 THEN h[i] ELSE failure[i - 4]
  <2>1. /\ h \o failure \in Seq(AnySection) /\ Len(h \o failure) = Len(h) + Len(failure)
        /\ \A i \in 1..Len(h) + Len(failure) :
             (h \o failure)[i] = IF i <= Len(h) THEN h[i] ELSE failure[i - Len(h)]
    <3>1. h \in Seq(AnySection) /\ failure \in Seq(AnySection)  BY <1>1, <1>2
    <3> QED  BY <3>1, ConcatProperties
  <2> QED  BY <1>2, <2>1
<1>6. /\ s \in Seq(AnySection) /\ Len(s) = 4 + f + Len(running)
      /\ \A i \in 1..4 + f + Len(running) :
           s[i] = IF i <= 4 + f THEN (h \o failure)[i] ELSE running[i - (4 + f)]
  <2> DEFINE g == h \o failure
  <2>1. g \in Seq(AnySection) /\ Len(g) = 4 + f  BY <1>5
  <2> HIDE DEF g
  <2>2. /\ g \o running \in Seq(AnySection) /\ Len(g \o running) = Len(g) + Len(running)
        /\ \A i \in 1..Len(g) + Len(running) :
             (g \o running)[i] = IF i <= Len(g) THEN g[i] ELSE running[i - Len(g)]
    <3>1. g \in Seq(AnySection) /\ running \in Seq(AnySection)  BY <1>1, <2>1
    <3> QED  BY <3>1, ConcatProperties
  <2>3. s = g \o running  BY <1>4 DEF g
  <2> HIDE DEF f
  <2>4. /\ s \in Seq(AnySection) /\ Len(s) = 4 + f + Len(running)
        /\ \A i \in 1..4 + f + Len(running) :
             s[i] = IF i <= 4 + f THEN g[i] ELSE running[i - (4 + f)]
    BY <2>1, <2>2, <2>3
  <2> QED  BY <2>4 DEF g
<1> HIDE DEF f
<1>7. f \in Nat  BY <1>1 DEF f
<1> DEFINE g == h \o failure
           r == Len(running)
<1>8. /\ \A i \in 1..4 + f : g[i] = IF i <= 4 THEN h[i] ELSE failure[i - 4]
      /\ \A i \in 1..4 + f + r : s[i] = IF i <= 4 + f THEN g[i] ELSE running[i - (4 + f)]
      /\ r \in Nat
  BY <1>1, <1>5, <1>6
<1> HIDE DEF g, r
<1>9. \A i \in 1..4 : s[i] = h[i]
  <2>1. \A i \in 1..4 : i \in 1..4 + f /\ i \in 1..4 + f + r /\ i <= 4 /\ i <= 4 + f
    BY <1>7, <1>8
  <2> QED  BY <1>8, <2>1
<1>10. ASSUME NEW k \in 1..f PROVE s[4 + k] = failure[k]
  <2>1. /\ 4 + k \in 1..4 + f /\ 4 + k \in 1..4 + f + r /\ 4 + k <= 4 + f
        /\ ~(4 + k <= 4) /\ 4 + k - 4 = k
    BY <1>7, <1>8
  <2>2. s[4 + k] = g[4 + k]  BY <1>8, <2>1
  <2>3. g[4 + k] = failure[4 + k - 4]  BY <1>8, <2>1
  <2> QED  BY <2>1, <2>2, <2>3
<1>11. ASSUME NEW k \in 1..r PROVE s[4 + f + k] = running[k]
  <2> DEFINE i == 4 + f + k
  <2>1. i \in 1..4 + f + r /\ ~(i <= 4 + f) /\ i - (4 + f) = k  BY <1>7, <1>8
  <2> HIDE DEF i
  <2>2. s[i] = running[i - (4 + f)]  BY <1>8, <2>1
  <2> QED  BY <2>1, <2>2 DEF i
<1> QED  BY <1>3, <1>6, <1>9, <1>10, <1>11 DEF s, f, r
\* Where the diff, the log and the conversation are in a call.
LEMMA Places ==
  ASSUME TypeOK, SectionsInv, Asking
  PROVE  LET f == Len(failure)
             z == Len(sections)
         IN  /\ sections \in Seq(AnySection) /\ z \in Nat /\ DOMAIN sections = 1..z
             /\ f \in {0, 1} /\ z = 4 + f + Len(running) /\ Len(running) \in Nat
             /\ Talk = (5 + f)..z
             /\ \A i \in Talk : /\ i - (4 + f) \in 1..Len(running)
                                /\ sections[i] = running[i - (4 + f)]
                                /\ sections[i].kind = "attempt"
             /\ \A i \in DOMAIN sections \ Talk : sections[i].kind # "attempt"
             /\ \A i \in DOMAIN sections : sections[i].kind = "git_diff" <=> i = 4
             /\ f = 1 => sections[5] = failure[1]
<1>1. PICK diff \in Sizes : sections = Sections(iter, diff)  BY DEF SectionsInv
<1> DEFINE f == Len(failure)
           r == Len(running)
           z == Len(sections)
<1>2. iter \in 0..MaxIter  BY DEF TypeOK
<1>3. /\ sections \in Seq(AnySection) /\ z = 4 + f + r
      /\ sections[1] = System /\ sections[3] = GoalText
      /\ sections[2] = Reminder(iter)
      /\ sections[4] = Section("git_diff", <<"diff", iter>>, diff)
      /\ \A k \in 1..f : sections[4 + k] = failure[k]
      /\ \A k \in 1..r : sections[4 + f + k] = running[k]
  <2> DEFINE s == Sections(iter, diff)
  <2>1. /\ s \in Seq(AnySection) /\ Len(s) = 4 + f + r
        /\ s[1] = System /\ s[3] = GoalText
        /\ s[2] = Reminder(iter)
        /\ s[4] = Section("git_diff", <<"diff", iter>>, diff)
        /\ \A k \in 1..f : s[4 + k] = failure[k]
        /\ \A k \in 1..r : s[4 + f + k] = running[k]
    BY <1>2, SectionsAre
  <2>2. sections = s  BY <1>1
  <2> HIDE DEF s
  <2> QED  BY <2>1, <2>2
<1>4. f \in {0, 1} /\ r \in Nat
  <2>1. failure \in Seq(Logs) /\ running \in Seq(Messages) /\ f <= 1  BY DEF TypeOK
  <2>2. f \in Nat /\ r \in Nat  BY <2>1, LenProperties
  <2> HIDE DEF f, r
  <2> QED  BY <2>1, <2>2
<1>5. DOMAIN sections = 1..z  BY <1>3, LenProperties
<1>6. /\ sections[1].kind = "system" /\ sections[2].kind = "goal"
      /\ sections[3].kind = "goal" /\ sections[4].kind = "git_diff"
  BY <1>3 DEF System, Reminder, GoalText, Section
<1>7. \A k \in 1..f : failure[k].kind = "verify_log"
  <2>1. failure \in Seq(Logs)  BY DEF TypeOK
  <2>2. \A k \in 1..f : failure[k] \in Logs  BY <2>1, ElementOfSeq
  <2> QED  BY <2>2 DEF Logs
<1>8. \A k \in 1..r : running[k].kind = "attempt"
  <2>1. running \in Seq(Messages)  BY DEF TypeOK
  <2>2. \A k \in 1..r : running[k] \in Messages  BY <2>1, ElementOfSeq
  <2> QED  BY <2>2 DEF Messages
<1>9. Talk = (z - r + 1)..z  BY DEF Talk
<1> HIDE DEF f, r, z
<1>10. Talk = (5 + f)..z /\ z \in Nat
  <2>1. z - r + 1 = 5 + f /\ z \in Nat  BY <1>3, <1>4
  <2> QED  BY <1>9, <2>1
<1>11. ASSUME NEW i \in Talk
       PROVE  i - (4 + f) \in 1..r /\ sections[i] = running[i - (4 + f)]
  <2> DEFINE k == i - (4 + f)
  <2>1. i \in Int /\ 5 + f <= i /\ i <= z  BY <1>4, <1>10
  <2>2. k \in 1..r /\ 4 + f + k = i  BY <1>3, <1>4, <2>1
  <2> HIDE DEF k
  <2>3. sections[4 + f + k] = running[k]  BY <1>3, <2>2
  <2> QED  BY <2>2, <2>3 DEF k
<1>12. f = 1 => sections[5] = failure[1] /\ sections[5].kind = "verify_log"
  <2>1. f = 1 => 1 \in 1..f /\ 4 + 1 = 5  OBVIOUS
  <2> QED  BY <1>3, <1>7, <2>1
<1>13. \A i \in DOMAIN sections \ Talk :
         i \in {1, 2, 3, 4} \/ (i = 5 /\ f = 1)
  BY <1>4, <1>5, <1>10
<1>14. \A i \in DOMAIN sections \ Talk :
         sections[i].kind # "attempt" /\ (sections[i].kind = "git_diff" <=> i = 4)
  BY <1>6, <1>12, <1>13
<1>15. \A i \in Talk : sections[i].kind = "attempt" /\ i # 4
  BY <1>4, <1>8, <1>10, <1>11
<1>16. \A i \in DOMAIN sections : sections[i].kind = "git_diff" <=> i = 4
  BY <1>14, <1>15
<1> QED  BY <1>3, <1>4, <1>5, <1>10, <1>11, <1>12, <1>14, <1>15, <1>16 DEF f, r, z

\* The diff is the fourth section, and it and the conversation are what may go.
LEMMA WhatMayGo ==
  ASSUME TypeOK, SectionsInv, Asking
  PROVE  /\ Diff = 4 /\ 4 \in DOMAIN sections /\ 4 \notin Talk
         /\ Talk \subseteq DOMAIN sections
         /\ Droppable(sections) = {4} \cup Talk
<1> DEFINE f == Len(failure)
           z == Len(sections)
<1>1. /\ DOMAIN sections = 1..z /\ z \in Nat /\ f \in {0, 1} /\ Talk = (5 + f)..z
      /\ z = 4 + f + Len(running) /\ Len(running) \in Nat
      /\ \A i \in Talk : sections[i].kind = "attempt"
      /\ \A i \in DOMAIN sections \ Talk : sections[i].kind # "attempt"
      /\ \A i \in DOMAIN sections : sections[i].kind = "git_diff" <=> i = 4
  BY Places
<1> HIDE DEF f, z
<1>2. 4 \in DOMAIN sections /\ 4 \notin Talk /\ Talk \subseteq DOMAIN sections
  BY <1>1
<1>3. Diff = 4  BY <1>1, <1>2 DEF Diff
<1>4. ASSUME NEW i \in DOMAIN sections
      PROVE  sections[i].kind \in {"system", "goal", "verify_log", "git_diff", "attempt"}
  <2>1. sections \in Seq(AnySection)  BY DEF TypeOK, AnySection
  <2>2. sections[i] \in AnySection  BY <1>1, <1>4, <2>1, ElementOfSeq DEF z
  <2> QED  BY <2>2 DEF AnySection, Others, Logs, Messages
<1>5. \A i \in DOMAIN sections :
        sections[i].kind \notin NeverTruncate <=> i = 4 \/ i \in Talk
  BY <1>1, <1>2, <1>4 DEF NeverTruncate
<1> QED  BY <1>2, <1>3, <1>5 DEF Droppable

-----------------------------------------------------------------------------
(* The steps of a goal.                                                    *)

\* Every step keeps the types.
LEMMA TypesStep ==
  ASSUME TypeOK, FailureInv, [Next]_vars
  PROVE  TypeOK'
<1>1. Sizes \subseteq Nat \ {0} /\ MaxIter \in Nat /\ Window \in Nat
  BY ConversationAssumption
<1>2. /\ iter \in 0..MaxIter /\ iter \in Nat /\ fails \in 0..iter
      /\ running \in Seq(Messages) /\ (Window > 0 => Len(running) <= Window)
      /\ asked \in Seq(Calls) /\ waiting \in Seq(Calls) /\ Len(waiting) <= Len(asked)
      /\ Len(waiting) \in Nat /\ Len(asked) \in Nat /\ recorded \in Seq(CallIds)
  BY <1>1, LenProperties DEF TypeOK
<1>3. CASE Build
  <2>1. PICK diff \in Sizes : sections' = Sections(iter + 1, diff)  BY <1>3 DEF Build
  <2>2. iter' = iter + 1 /\ iter + 1 \in 0..MaxIter /\ fails \in 0..iter'
    BY <1>1, <1>2, <1>3 DEF Build
  <2>3. sections' \in Seq(Others \cup Logs \cup Messages)
    BY <2>1, <2>2, SectionsAre DEF AnySection
  <2>4. kept' \subseteq DOMAIN sections' /\ prompt' \in Seq(DOMAIN sections')
    BY <1>3, EmptySeq DEF Build
  <2> QED  BY <1>3, <2>2, <2>3, <2>4 DEF Build, TypeOK, calls
<1>4. CASE Drop
  BY <1>4 DEF Drop, TypeOK, calls
<1>5. CASE Overflow
  BY <1>5 DEF Overflow, TypeOK, calls, request
<1>6. CASE Send
  <2>1. sections \in Seq(AnySection) /\ kept \in SUBSET DOMAIN sections
    BY DEF TypeOK, AnySection
  <2>2. /\ Cardinality(kept) \in Nat
        /\ Packed(sections, kept) \in [1..Cardinality(kept) -> kept]
    BY <2>1, PackedSorts
  <2>3. Packed(sections, kept) \in Seq(kept)  BY <2>2, SeqDef
  <2>4. prompt' \in Seq(DOMAIN sections)  BY <1>6, <2>1, <2>3, SeqMonotonic DEF Send
  <2> QED  BY <1>6, <2>4 DEF Send, TypeOK, calls
<1>7. CASE Chat
  <2>1. asked' \in Seq(Calls) /\ Len(asked') <= MaxCalls /\ Len(asked') \in Nat
    BY <1>2, <1>7, AnswersAreCalls DEF Chat
  <2>2. Turn(asked') \in Messages  BY <2>1, MessagesAre
  <2>3. running' \in Seq(Messages) /\ (Window > 0 => Len(running') <= Window)
    BY <1>1, <1>7, <2>2, SayIs DEF Chat
  <2>4. recorded' \in Seq(CallIds)  BY <1>7 DEF Chat
  <2> QED  BY <1>7, <2>1, <2>3, <2>4 DEF Chat, TypeOK, request
<1>8. CASE ChatFails
  BY <1>8 DEF ChatFails, TypeOK, calls, request
<1>9. ASSUME NEW m \in Messages, waiting # <<>>, Answered(Head(waiting), m)
      PROVE  TypeOK'
  <2>1. running' \in Seq(Messages) /\ (Window > 0 => Len(running') <= Window)
    BY <1>1, <1>9, SayIs DEF Answered
  <2>2. Head(waiting) \in Calls /\ Tail(waiting) \in Seq(Calls)
          /\ Len(Tail(waiting)) = Len(waiting) - 1
    BY <1>2, <1>9, HeadTailProperties
  <2>3. Head(waiting).id \in CallIds  BY <2>2 DEF Calls
  <2>4. recorded' \in Seq(CallIds)  BY <1>2, <1>9, <2>3, AppendProperties DEF Answered
  <2>5. waiting' \in Seq(Calls) /\ Len(waiting') <= Len(asked)
    BY <1>2, <1>9, <2>2 DEF Answered
  <2> QED  BY <1>9, <2>1, <2>4, <2>5 DEF Answered, TypeOK, request
<1>10. waiting # <<>> => Head(waiting) \in Calls /\ Head(waiting).id \in CallIds
  <2>1. waiting # <<>> => Head(waiting) \in Calls  BY <1>2, HeadTailProperties
  <2> QED  BY <2>1 DEF Calls
<1>11. CASE RejectCall
  BY <1>9, <1>10, <1>11, MessagesAre DEF RejectCall
<1>12. CASE CallTool
  BY <1>9, <1>10, <1>12, MessagesAre DEF CallTool
<1>13. CASE VerifyPasses
  BY <1>13 DEF VerifyPasses, TypeOK, calls, request
<1>14. CASE VerifyFails
  <2>1. PICK n \in Sizes : failure' = <<Log(n)>>  BY <1>14 DEF VerifyFails, NoteFailure
  <2>2. Log(n) \in Logs  BY <1>2, <2>1 DEF Log, Logs, Section
  <2>3. failure' \in Seq(Logs) /\ Len(failure') <= 1  BY <2>1, <2>2
  <2>4. fails + 1 \in 0..iter  BY <1>2, <1>14 DEF FailureInv, VerifyFails, Verifying
  <2>5. fails' \in 0..iter /\ running' \in Seq(Messages) /\ (Window > 0 => Len(running') <= Window)
    <3>1. CASE RollbackDue
      <4>1. fails' = 0 /\ running' = <<>>  BY <1>14, <3>1 DEF VerifyFails, Forget
      <4> QED  BY <1>1, <1>2, <4>1
    <3>2. CASE ~RollbackDue /\ AdviceDue
      <4>1. fails' = fails + 1 /\ Say(<<Advice(fails + 1)>>)
        BY <1>14, <3>2 DEF VerifyFails
      <4>2. Advice(fails + 1) \in Messages  BY <1>1, <1>2, <2>4, MessagesAre
      <4> QED  BY <1>1, <2>4, <4>1, <4>2, SayIs
    <3>3. CASE ~RollbackDue /\ ~AdviceDue
      <4>1. fails' = fails + 1 /\ running' = running
        BY <1>14, <3>3 DEF VerifyFails
      <4> QED  BY <1>2, <2>4, <4>1
    <3> QED  BY <3>1, <3>2, <3>3
  <2> QED  BY <1>14, <2>3, <2>5 DEF VerifyFails, TypeOK, calls, request
<1>15. CASE UNCHANGED vars
  BY <1>15 DEF TypeOK, vars, calls, request
<1> QED
  BY <1>3, <1>4, <1>5, <1>6, <1>7, <1>8, <1>11, <1>12, <1>13, <1>14, <1>15
  DEF Next, Finished

\* Whether a step belongs to the asking, and what it leaves alone.
LEMMA StagesOf ==
  ASSUME [Next]_vars
  PROVE  \/ Build
         \/ stage = "pack" /\ (Drop \/ Overflow \/ Send)
         \/ stage = "chat" /\ (Chat \/ ChatFails)
         \/ stage = "calls" /\ (RejectCall \/ CallTool \/ VerifyPasses \/ VerifyFails)
         \/ UNCHANGED vars
  BY DEF Next, Build, Drop, Overflow, Send, Chat, ChatFails, RejectCall, CallTool,
         VerifyPasses, VerifyFails, Verifying, Finished

\* The sections of a call stay those of its iteration.
LEMMA SectionsStep ==
  ASSUME SectionsInv, [Next]_vars
  PROVE  SectionsInv'
<1>1. CASE Build
  BY <1>1 DEF Build, SectionsInv, Sections
<1>2. CASE stage = "pack" /\ (Drop \/ Overflow \/ Send)
  <2>1. UNCHANGED <<iter, failure, running, sections>>
    BY <1>2 DEF Drop, Overflow, Send, request
  <2>2. Asking  BY <1>2 DEF Asking
  <2> QED  BY <2>1, <2>2 DEF SectionsInv, Sections
<1>3. CASE \/ stage = "chat" /\ (Chat \/ ChatFails)
           \/ stage = "calls" /\ (RejectCall \/ CallTool \/ VerifyPasses \/ VerifyFails)
  <2>1. stage' \in {"calls", "error", "done", "build"}
    BY <1>3 DEF Chat, ChatFails, RejectCall, CallTool, Answered, VerifyPasses, VerifyFails
  <2> QED  BY <2>1 DEF SectionsInv, Asking
<1>4. CASE UNCHANGED vars
  BY <1>4 DEF vars, request, SectionsInv, Asking, Sections
<1> QED  BY <1>1, <1>2, <1>3, <1>4, StagesOf

\* The log of the latest failure stays at hand until the next one.
LEMMA FailureStep ==
  ASSUME TypeOK, FailureInv, [Next]_vars
  PROVE  FailureInv'
<1>1. iter \in Nat /\ fails \in 0..iter  BY ConversationAssumption DEF TypeOK
<1>2. CASE Build
  <2>1. /\ stage = "build" /\ stage' = "pack" /\ iter' = iter + 1
        /\ UNCHANGED <<fails, failure>>
    BY <1>2 DEF Build
  <2>2. iter' > 1 => iter > 0 /\ iter' - 1 = iter  BY <1>1, <2>1
  <2>3. iter' # 0 /\ fails' < iter'  BY <1>1, <2>1
  <2> QED  BY <2>1, <2>2, <2>3 DEF FailureInv
<1>3. CASE stage = "calls" /\ VerifyFails
  <2>1. PICK n \in Sizes : failure' = <<Log(n)>>  BY <1>3 DEF VerifyFails, NoteFailure
  <2>2. stage' = "build" /\ iter' = iter  BY <1>3 DEF VerifyFails
  <2>3. failure' # <<>> /\ failure'[1].text = <<"log", iter>>
    BY <2>1 DEF Log, Section
  <2> QED  BY <1>1, <1>3, <2>2, <2>3 DEF FailureInv
<1>4. CASE \/ stage = "pack" /\ (Drop \/ Overflow \/ Send)
           \/ stage = "chat" /\ (Chat \/ ChatFails)
           \/ stage = "calls" /\ (RejectCall \/ CallTool \/ VerifyPasses)
  <2>1. stage # "build" /\ stage' # "build" /\ UNCHANGED <<iter, fails, failure>>
    BY <1>4 DEF Drop, Overflow, Send, Chat, ChatFails, RejectCall, CallTool, Answered,
                VerifyPasses
  <2> QED  BY <2>1 DEF FailureInv
<1>5. CASE UNCHANGED vars
  BY <1>5 DEF vars, FailureInv
<1> QED  BY <1>2, <1>3, <1>4, <1>5, StagesOf

\* The advice is given when it is due, and stays the last message until the
\* model answers.
LEMMA AdviceStep ==
  ASSUME TypeOK, AdviceInv, FailureInv, [Next]_vars
  PROVE  AdviceInv'
<1>1. /\ iter \in 0..MaxIter /\ fails \in Nat /\ fails \in 0..iter /\ MaxIter \in Nat
      /\ StrategyAfter \in Nat
  BY ConversationAssumption DEF TypeOK
<1>2. CASE \/ Build
           \/ stage = "pack" /\ (Drop \/ Overflow \/ Send)
  <2>1. stage \in {"build", "pack"} /\ UNCHANGED <<fails, running>>
    BY <1>2 DEF Build, Drop, Overflow, Send
  <2> QED  BY <2>1 DEF AdviceInv, Advice
<1>3. CASE \/ stage = "chat" /\ (Chat \/ ChatFails)
           \/ stage = "calls" /\ (RejectCall \/ CallTool \/ VerifyPasses)
  <2>1. stage' \in {"calls", "error", "done"}
    BY <1>3 DEF Chat, ChatFails, RejectCall, CallTool, Answered, VerifyPasses
  <2> QED  BY <2>1 DEF AdviceInv
<1>4. CASE stage = "calls" /\ VerifyFails
  <2>1. CASE RollbackDue
    <3>1. fails' = 0 /\ running' = <<>>  BY <1>4, <2>1 DEF VerifyFails, Forget
    <3> QED  BY <1>1, <3>1 DEF AdviceInv
  <2>2. CASE ~RollbackDue /\ AdviceDue
    <3>1. fails' = fails + 1 /\ Say(<<Advice(fails + 1)>>)
      BY <1>4, <2>2 DEF VerifyFails
    <3>2. Advice(fails + 1) \in Messages
      <4>1. fails + 1 \in 0..MaxIter  BY <1>1, <1>4 DEF FailureInv
      <4> QED  BY <4>1, MessagesAre
    <3>3. /\ Len(running') > 0 /\ running' \in Seq(Messages)
          /\ running'[Len(running')] = Advice(fails + 1)
      BY <3>1, <3>2, SayIs
    <3>4. running' # <<>> /\ fails' # 0  BY <1>1, <3>1, <3>3
    <3> QED  BY <3>1, <3>3, <3>4 DEF AdviceInv, Advice
  <2>3. CASE ~RollbackDue /\ ~AdviceDue
    <3>1. fails' = fails + 1  BY <1>4, <2>3 DEF VerifyFails
    <3>2. fails' # 0 /\ ~(StrategyAfter > 0 /\ fails' >= StrategyAfter)
      BY <1>1, <2>3, <3>1 DEF AdviceDue
    <3> QED  BY <3>2 DEF AdviceInv
  <2> QED  BY <2>1, <2>2, <2>3
<1>5. CASE UNCHANGED vars
  BY <1>5 DEF vars, AdviceInv, Advice
<1> QED  BY <1>2, <1>3, <1>4, <1>5, StagesOf

\* Carrying out the next call of a turn adds its answer behind the others.
LEMMA AnsweredStep ==
  ASSUME TypeOK, CallsInv, stage = "calls", waiting # <<>>,
         NEW m \in Messages, m.text[2] = Head(waiting).id, Answered(Head(waiting), m)
  PROVE  CallsInv'
<1> DEFINE d == Done
           r == Len(running)
           q == Len(running')
           w == Len(waiting)
<1>1. /\ asked \in Seq(Calls) /\ waiting \in Seq(Calls) /\ recorded \in Seq(CallIds)
      /\ Len(asked) \in Nat /\ w \in Nat \ {0} /\ w <= Len(asked)
      /\ Window \in Nat
  BY EmptySeq, LenProperties, ConversationAssumption DEF TypeOK
<1>2. /\ waiting' = Tail(waiting) /\ recorded' = Append(recorded, Head(waiting).id)
      /\ UNCHANGED <<stage, asked>> /\ Say(<<m>>)
  BY DEF Answered
<1>3. /\ Head(waiting) = waiting[1] /\ Len(Tail(waiting)) = w - 1
      /\ \A k \in 1..w - 1 : Tail(waiting)[k] = waiting[k + 1]
      /\ Head(waiting) \in Calls
  BY <1>1, EmptySeq, HeadTailProperties
<1>4. d = Len(asked) - w /\ Done' = d + 1 /\ d \in Nat /\ d + 1 <= Len(asked)
  BY <1>1, <1>2, <1>3 DEF Done
<1>5. /\ \A k \in 1..w : waiting[k] = asked[d + k]
      /\ Len(recorded) = d /\ \A k \in 1..d : recorded[k] = asked[k].id
      /\ FitsWindow =>
           /\ r - d > 0 /\ running[r - d] = Turn(asked)
           /\ \A k \in 1..d : running[r - d + k].text[2] = asked[k].id
  BY DEF CallsInv
<1>6. /\ r \in Nat /\ q \in Nat /\ q = IF Window = 0 \/ r < Window THEN r + 1 ELSE Window
      /\ running'[q] = m
      /\ \A k \in 1..q - 1 : running'[k] = running[r + 1 - q + k]
  BY <1>2, SayIs
<1>7. FitsWindow => Window = 0 \/ d + 1 < Window
  BY <1>1, <1>4 DEF FitsWindow
<1> HIDE DEF d, r, q, w
<1>8. \A k \in 1..w - 1 : Tail(waiting)[k] = asked[d + 1 + k]
  <2>1. ASSUME NEW k \in 1..w - 1 PROVE Tail(waiting)[k] = asked[d + 1 + k]
    <3>1. k + 1 \in 1..w /\ d + (k + 1) = d + 1 + k  BY <1>1, <1>4
    <3>2. waiting[k + 1] = asked[d + (k + 1)]  BY <1>5, <3>1
    <3> QED  BY <1>3, <3>1, <3>2
  <2> QED  BY <2>1
<1>9. ASSUME FitsWindow
      PROVE  q - (d + 1) > 0 /\ running'[q - (d + 1)] = Turn(asked)
  <2> DEFINE t == q - (d + 1)
  <2>0. /\ d \in Nat /\ r \in Nat /\ q \in Nat /\ Window \in Nat
        /\ q = r + 1 \/ (q = Window /\ d + 1 < Window)
        /\ r - d > 0
    BY <1>1, <1>4, <1>5, <1>6, <1>7, <1>9
  <2>1. t > 0 /\ t \in 1..q - 1 /\ r + 1 - q + t = r - d  BY <2>0
  <2> HIDE DEF t
  <2>2. running'[t] = running[r + 1 - q + t]  BY <1>6, <2>1
  <2> QED  BY <1>5, <1>9, <2>1, <2>2 DEF t
<1>10. ASSUME FitsWindow, NEW k \in 1..d + 1
       PROVE  running'[q - (d + 1) + k].text[2] = asked[k].id
  <2> DEFINE t == q - (d + 1) + k
  <2>1. CASE k = d + 1
    <3>0. q \in Nat /\ d \in Nat /\ w \in Nat \ {0}  BY <1>1, <1>4, <1>6 DEF w
    <3>1. t = q /\ 1 \in 1..w  BY <2>1, <3>0
    <3>2. waiting[1] = asked[d + 1]  BY <1>5, <3>1
    <3> QED  BY <1>3, <1>6, <2>1, <3>1, <3>2
  <2>2. CASE k \in 1..d
    <3>1. t \in 1..q - 1 /\ r + 1 - q + t = r - d + k
      <4>1. k \in Nat /\ 1 <= k /\ k <= d  BY <1>4, <2>2
      <4>2. q \in Nat /\ r \in Nat /\ d \in Nat /\ q - (d + 1) > 0  BY <1>4, <1>6, <1>9, <1>10
      <4> QED  BY <4>1, <4>2
    <3> HIDE DEF t
    <3>2. running'[t] = running[r + 1 - q + t]  BY <1>6, <3>1
    <3>3. running'[t] = running[r - d + k]  BY <3>1, <3>2
    <3> QED  BY <1>5, <1>10, <2>2, <3>3 DEF t
  <2> QED  BY <1>4, <2>1, <2>2
<1>11. Len(recorded') = d + 1 /\ \A k \in 1..d + 1 : recorded'[k] = asked[k].id
  <2>1. Head(waiting).id \in CallIds  BY <1>3 DEF Calls
  <2>2. /\ Len(recorded') = d + 1 /\ recorded'[d + 1] = Head(waiting).id
        /\ \A k \in 1..d : recorded'[k] = recorded[k]
    BY <1>1, <1>2, <1>5, <2>1, AppendProperties
  <2>3. 1 \in 1..w  BY <1>1 DEF w
  <2>4. Head(waiting) = asked[d + 1]  BY <1>3, <1>5, <2>3
  <2> QED  BY <1>4, <1>5, <2>2, <2>4
<1>12. Len(waiting') = w - 1  BY <1>2, <1>3
<1>13. Turn(asked)' = Turn(asked) /\ asked' = asked /\ (FitsWindow' <=> FitsWindow)
  BY <1>2 DEF Turn, FitsWindow
<1>14. \A k \in 1..Len(waiting') : waiting'[k] = asked'[Done' + k]
  BY <1>2, <1>4, <1>8, <1>12
<1>15. FitsWindow' =>
         Len(running') - Done' > 0 /\ running'[Len(running') - Done'] = Turn(asked)'
  BY <1>4, <1>9, <1>13 DEF q
<1>16. FitsWindow' =>
         \A k \in 1..Done' : running'[Len(running') - Done' + k].text[2] = asked'[k].id
  BY <1>4, <1>10, <1>13 DEF q
<1>17. Len(recorded') = Done' /\ \A k \in 1..Done' : recorded'[k] = asked'[k].id
  BY <1>4, <1>11, <1>13
<1> QED  BY <1>14, <1>15, <1>16, <1>17 DEF CallsInv

\* Answers are put behind the turn they belong to.
LEMMA CallsStep ==
  ASSUME TypeOK, CallsInv, [Next]_vars
  PROVE  CallsInv'
<1>1. CASE stage = "chat" /\ Chat
  <2>1. iter \in 0..MaxIter /\ asked' \in Answers  BY <1>1 DEF TypeOK, Chat
  <2>2. asked' \in Seq(Calls) /\ Len(asked') \in Nat  BY <2>1, AnswersAreCalls
  <2>3. Turn(asked') \in Messages  BY <2>2, MessagesAre
  <2>4. Say(<<Turn(asked')>>) /\ waiting' = asked' /\ recorded' = <<>>
    BY <1>1 DEF Chat
  <2>5. /\ Len(running') \in Nat /\ Len(running') > 0
        /\ running'[Len(running')] = Turn(asked')
    BY <2>3, <2>4, SayIs
  <2>6. Done' = 0  BY <2>2, <2>4 DEF Done
  <2>7. \A k \in 1..Len(waiting') : waiting'[k] = asked'[0 + k]  BY <2>2, <2>4
  <2>8. Len(running') - 0 = Len(running') /\ 1..0 = {}  BY <2>5
  <2>9. Len(recorded') = 0  BY <2>4
  <2>10. Turn(asked)' = Turn(asked')  BY DEF Turn
  <2> QED  BY <2>5, <2>6, <2>7, <2>8, <2>9, <2>10 DEF CallsInv
<1>2. CASE stage = "calls" /\ (RejectCall \/ CallTool)
  <2>1. waiting # <<>>  BY <1>2 DEF RejectCall, CallTool
  <2>2. Head(waiting).id \in CallIds
    <3>1. Head(waiting) \in Calls  BY <2>1, HeadTailProperties DEF TypeOK
    <3> QED  BY <3>1 DEF Calls
  <2>3. PICK m \in Messages : m.text[2] = Head(waiting).id /\ Answered(Head(waiting), m)
    <3>1. CASE RejectCall
      BY <2>2, <3>1, MessagesAre DEF RejectCall, Section
    <3>2. CASE CallTool
      BY <2>2, <3>2, MessagesAre DEF CallTool, Section
    <3> QED  BY <1>2, <3>1, <3>2
  <2> QED  BY <1>2, <2>1, <2>3, AnsweredStep
<1>3. CASE \/ Build
           \/ stage = "pack" /\ (Drop \/ Overflow \/ Send)
           \/ stage = "chat" /\ ChatFails
           \/ stage = "calls" /\ (VerifyPasses \/ VerifyFails)
  <2>1. stage' # "calls"
    BY <1>3 DEF Build, Drop, Overflow, Send, ChatFails, VerifyPasses, VerifyFails
  <2> QED  BY <2>1 DEF CallsInv
<1>4. CASE UNCHANGED vars
  BY <1>4 DEF vars, calls, CallsInv, Done, Turn, FitsWindow
<1> QED  BY <1>1, <1>2, <1>3, <1>4, StagesOf

-----------------------------------------------------------------------------
(* The packing of a prompt.                                                *)

\* The victim of a round is the oldest message that is still there, or the
\* diff when there is none.
LEMMA VictimIs ==
  ASSUME TypeOK, SectionsInv, Asking, MayDrop # {}
  PROVE  LET v == Victim(sections, MayDrop) IN
         /\ v \in MayDrop
         /\ Talk \cap kept = {} => v = 4
         /\ Talk \cap kept # {} => v \in Talk /\ \A j \in Talk \cap kept : v <= j
<1> DEFINE prio(i) == Priority[sections[i].kind]
           M == MayDrop
           C == Talk \cap kept
           first(i) == \A j \in M : prio(i) > prio(j) \/ (prio(i) = prio(j) /\ i <= j)
           v == Victim(sections, M)
<1>1. /\ Talk \subseteq DOMAIN sections /\ 4 \notin Talk
      /\ M = kept \cap ({4} \cup Talk) /\ M # {}
  BY WhatMayGo DEF MayDrop
<1>2. v = CHOOSE i \in M : first(i)  BY DEF Victim
<1>3. /\ \A i \in Talk : i \in Nat /\ sections[i].kind = "attempt"
      /\ sections[4].kind = "git_diff"
  <2>1. DOMAIN sections = 1..Len(sections) /\ Len(sections) \in Nat
          /\ (\A i \in Talk : sections[i].kind = "attempt")
          /\ (\A i \in DOMAIN sections : sections[i].kind = "git_diff" <=> i = 4)
    BY Places
  <2>2. 4 \in DOMAIN sections  BY WhatMayGo
  <2> QED  BY <1>1, <2>1, <2>2
<1>4. prio(4) = 4 /\ \A i \in Talk : prio(i) = 5  BY <1>3 DEF Priority
<1> HIDE DEF M, prio, v
<1>5. CASE C = {}
  <2>1. M = {4}  BY <1>1, <1>5
  <2>2. first(4)  BY <1>4, <2>1
  <2> HIDE DEF first
  <2>3. v \in M  BY <1>2, <2>1, <2>2
  <2> QED  BY <1>5, <2>1, <2>3 DEF v, M
<1>6. CASE C # {}
  <2>1. C \in SUBSET Nat  BY <1>3
  <2>2. PICK m \in C : \A n \in C : m <= n  BY <1>6, <2>1, LeastOf
  <2>3. m \in M /\ first(m)  BY <1>1, <1>4, <2>2
  <2>4. v \in M /\ first(v)
    <3> HIDE DEF first
    <3> QED  BY <1>2, <2>3
  <2>5. v \in Talk
    <3>1. SUFFICES ASSUME v = 4 PROVE FALSE  BY <1>1, <2>4
    <3>2. prio(v) > prio(m) \/ prio(v) = prio(m)  BY <2>3, <2>4
    <3> QED  BY <1>4, <3>1, <3>2
  <2>6. \A j \in C : v <= j
    <3>1. \A j \in C : j \in M  BY <1>1
    <3> QED  BY <1>4, <2>4, <2>5, <3>1
  <2> QED  BY <1>6, <2>4, <2>5, <2>6 DEF v, M
<1> QED  BY <1>5, <1>6

\* What a round takes away is what went last: putting it back gives the prompt
\* that did not fit.
LEMMA DropStep ==
  ASSUME TypeOK, SectionsInv, PackInv, Asking, Drop
  PROVE  PackInv'
<1> DEFINE v == Victim(sections, MayDrop)
<1>1. /\ MayDrop # {} /\ ~Fits(kept) /\ kept' = kept \ {v}
      /\ stage = "pack" /\ UNCHANGED <<stage, sections, running>>
  BY DEF Drop
<1>2. /\ v \in MayDrop
      /\ Talk \cap kept = {} => v = 4
      /\ Talk \cap kept # {} => v \in Talk /\ \A j \in Talk \cap kept : v <= j
  BY <1>1, VictimIs
<1>3. /\ 4 \in DOMAIN sections /\ 4 \notin Talk /\ Talk \subseteq DOMAIN sections
      /\ Droppable(sections) = {4} \cup Talk
  BY WhatMayGo
<1>4. DOMAIN sections \subseteq Nat
  <2>1. DOMAIN sections = 1..Len(sections)  BY Places
  <2> QED  BY <2>1
<1>5. /\ DOMAIN sections \ Droppable(sections) \subseteq kept
      /\ \A i \in Talk \cap kept : 4 \in kept /\ \A j \in Talk : i < j => j \in kept
  BY DEF PackInv
<1>6. v \in kept /\ v \in Droppable(sections) /\ kept \subseteq DOMAIN sections
  BY <1>2 DEF MayDrop, TypeOK
<1> HIDE DEF v
<1>7. UNCHANGED <<Talk, Droppable(sections), DOMAIN sections>>
  BY <1>1 DEF Talk, Droppable
<1>8. DOMAIN sections \ Droppable(sections) \subseteq kept'  BY <1>1, <1>5, <1>6
<1>9. ASSUME NEW i \in Talk \cap kept'
      PROVE  4 \in kept' /\ \A j \in Talk : i < j => j \in kept'
  <2>1. i \in Talk \cap kept /\ i # v  BY <1>1
  <2>2. v \in Talk /\ v <= i  BY <1>2, <2>1
  <2>3. \A j \in Talk : i < j => j # v  BY <1>3, <1>4, <2>1, <2>2
  <2> QED  BY <1>1, <1>3, <1>5, <2>1, <2>2, <2>3
<1>10. Latest' = v
  <2> DEFINE gone == DOMAIN sections \ kept'
  <2>1. Dropped' = gone /\ gone = (DOMAIN sections \ kept) \cup {v}
    BY <1>1, <1>6 DEF Dropped
  <2>2. CASE v = 4
    BY <2>1, <2>2 DEF Latest
  <2>3. CASE v # 4
    <3>1. v \in Talk /\ Talk \cap kept # {}  BY <1>2, <1>3, <1>6, <2>3
    <3>2. 4 \in kept /\ 4 \notin gone  BY <1>5, <1>6, <2>1, <2>3, <3>1
    <3>3. \A d \in gone : d \in Nat /\ v >= d
      <4>1. ASSUME NEW d \in gone, d # v PROVE v >= d
        <5>1. d \in Talk /\ d \notin kept  BY <1>3, <1>5, <2>1, <3>2, <4>1
        <5>2. ~(v < d)  BY <1>5, <1>6, <3>1, <5>1
        <5> QED  BY <1>3, <1>4, <3>1, <5>1, <5>2
      <4> QED  BY <1>3, <1>4, <3>1, <4>1
    <3>4. v \in gone  BY <2>1
    <3>5. Sets!Max(gone) = v
      <4>1. Sets!Max(gone) = CHOOSE x \in gone : \A y \in gone : x >= y  BY DEF Sets!Max
      <4> HIDE DEF gone
      <4>2. ASSUME NEW x \in gone, \A y \in gone : x >= y PROVE x = v
        BY <3>3, <3>4, <4>2
      <4> QED  BY <3>3, <3>4, <4>1, <4>2
    <3> QED  BY <2>1, <3>2, <3>5 DEF Latest
  <2> QED  BY <2>2, <2>3
<1>11. kept' \cup {v} = kept  BY <1>1, <1>6
<1>12. ~Fits(kept \cup {Latest})'
  <2>1. (kept \cup {Latest})' = kept  BY <1>10, <1>11
  <2> QED  BY <1>1, <2>1 DEF Fits
<1> QED  BY <1>1, <1>7, <1>8, <1>9, <1>12 DEF PackInv

\* pack() drops the conversation from its oldest message on, and stops as soon
\* as what is left fits.
LEMMA PackStep ==
  ASSUME TypeOK, SectionsInv, PackInv, [Next]_vars
  PROVE  PackInv'
<1>1. CASE Build
  <2>1. kept' = DOMAIN sections' /\ stage' = "pack"  BY <1>1 DEF Build
  <2>2. Dropped' = {}  BY <2>1 DEF Dropped
  <2>3. Talk' \subseteq DOMAIN sections' /\ 4 \in DOMAIN sections'
    <3>1. PICK diff \in Sizes : sections' = Sections(iter + 1, diff)  BY <1>1 DEF Build
    <3>2. iter + 1 \in 0..MaxIter /\ Len(running) \in Nat /\ Len(failure) \in Nat
            /\ running' = running
      <4>1. failure \in Seq(Logs) /\ running \in Seq(Messages)  BY DEF TypeOK
      <4> QED  BY <1>1, <4>1, LenProperties, ConversationAssumption DEF Build, TypeOK
    <3>3. sections' \in Seq(AnySection) /\ Len(sections') = 4 + Len(failure) + Len(running)
      BY <3>1, <3>2, SectionsAre
    <3>4. DOMAIN sections' = 1..Len(sections')  BY <3>3, LenProperties
    <3>5. Talk' = (Len(sections') - Len(running) + 1)..Len(sections')  BY <3>2 DEF Talk
    <3> QED  BY <3>2, <3>3, <3>4, <3>5
  <2> QED  BY <2>1, <2>2, <2>3 DEF PackInv
<1>2. CASE stage = "pack" /\ Drop
  BY <1>2, DropStep DEF Asking
<1>3. CASE stage = "pack" /\ Overflow
  <2>1. UNCHANGED <<sections, kept, running>> /\ stage' = "overflow" /\ Asking
          /\ ~Fits(kept) /\ MayDrop = {}
    BY <1>3 DEF Overflow, request, Asking
  <2> QED  BY <2>1 DEF PackInv, Talk, Dropped, Latest, Fits, MayDrop, Droppable
<1>4. CASE stage = "pack" /\ Send
  <2>1. UNCHANGED <<sections, kept, running>> /\ stage' = "chat" /\ Asking
          /\ prompt' = Packed(sections, kept)
    BY <1>4 DEF Send, Asking
  <2> QED  BY <2>1 DEF PackInv, Talk, Dropped, Latest, Fits
<1>5. CASE \/ stage = "chat" /\ (Chat \/ ChatFails)
           \/ stage = "calls" /\ (RejectCall \/ CallTool \/ VerifyPasses \/ VerifyFails)
  <2>1. stage' \in {"calls", "error", "done", "build"}
    BY <1>5 DEF Chat, ChatFails, RejectCall, CallTool, Answered, VerifyPasses, VerifyFails
  <2> QED  BY <2>1 DEF PackInv, Asking
<1>6. CASE UNCHANGED vars
  BY <1>6 DEF vars, request, PackInv, Asking, Talk, Dropped, Latest, Fits, MayDrop, Droppable
<1> QED  BY <1>1, <1>2, <1>3, <1>4, <1>5, <1>6, StagesOf

\* A prompt holds each section that was kept, once, and in the order of the
\* last sort.
LEMMA PromptIs ==
  ASSUME TypeOK, SectionsInv, PackInv, stage = "chat"
  PROVE  /\ Len(prompt) \in Nat /\ DOMAIN prompt = 1..Len(prompt)
         /\ \A k \in 1..Len(prompt) : prompt[k] \in kept
         /\ \A i \in DOMAIN sections : InPrompt(i) <=> i \in kept
         /\ \A k, l \in 1..Len(prompt) : k < l => Precedes(sections, prompt[k], prompt[l])
<1>1. sections \in Seq(AnySection) /\ kept \in SUBSET DOMAIN sections
  BY DEF TypeOK, AnySection
<1>2. prompt = Packed(sections, kept)  BY DEF PackInv, Asking
<1> DEFINE n == Cardinality(kept)
<1>3. /\ n \in Nat /\ prompt \in [1..n -> kept]
      /\ \A i \in kept : \E k \in 1..n : prompt[k] = i
      /\ \A k, l \in 1..n : k < l => Precedes(sections, prompt[k], prompt[l])
  BY <1>1, <1>2, PackedSorts
<1> HIDE DEF n
<1>4. prompt \in Seq(kept)  BY <1>3, SeqDef
<1>5. Len(prompt) \in Nat /\ DOMAIN prompt = 1..Len(prompt)  BY <1>4, LenProperties
<1>6. DOMAIN prompt = 1..n /\ \A k \in 1..n : prompt[k] \in kept  BY <1>3
<1> QED  BY <1>3, <1>5, <1>6 DEF InPrompt

\* A section that is unlike all others is its own first index.
LEMMA AloneIndex ==
  ASSUME NEW T, NEW secs \in Seq(T), NEW i \in DOMAIN secs,
         \A j \in DOMAIN secs : secs[j] = secs[i] => j = i
  PROVE  IndexOf(secs, i) = i
  BY IndexIs

\* The order of the prompt is that of the sections.
LEMMA OrderStep ==
  ASSUME TypeOK, OrderKept, [Next]_vars
  PROVE  OrderKept'
<1>1. CASE Build
  <2>1. DOMAIN prompt' = {}  BY <1>1 DEF Build
  <2> QED  BY <2>1 DEF OrderKept
<1>2. CASE stage = "pack" /\ Send
  <2>1. sections \in Seq(AnySection) /\ kept \in SUBSET DOMAIN sections
    BY DEF TypeOK, AnySection
  <2>2. prompt' = Packed(sections, kept) /\ sections' = sections  BY <1>2 DEF Send
  <2> DEFINE n == Cardinality(kept)
             p == Packed(sections, kept)
  <2>3. /\ n \in Nat /\ p \in [1..n -> kept]
        /\ \A k, l \in 1..n : k < l => Precedes(sections, p[k], p[l])
    BY <2>1, PackedSorts
  <2> HIDE DEF n, p
  <2>4. DOMAIN p = 1..n  BY <2>3
  <2>5. ASSUME NEW k \in DOMAIN p, NEW l \in DOMAIN p, k < l,
               \A j \in DOMAIN sections : sections[j] = sections[p[k]] => j = p[k],
               \A j \in DOMAIN sections : sections[j] = sections[p[l]] => j = p[l]
        PROVE  p[k] < p[l]
    <3>1. p[k] \in DOMAIN sections /\ p[l] \in DOMAIN sections  BY <2>1, <2>3, <2>4
    <3>2. Precedes(sections, p[k], p[l])  BY <2>3, <2>4, <2>5
    <3>3. IndexOf(sections, p[k]) = p[k] /\ IndexOf(sections, p[l]) = p[l]
      BY <2>1, <2>5, <3>1, AloneIndex
    <3> QED  BY <3>2, <3>3 DEF Precedes
  <2> QED  BY <2>2, <2>5 DEF OrderKept, p
<1>3. CASE \/ stage = "pack" /\ (Drop \/ Overflow)
           \/ stage = "chat" /\ (Chat \/ ChatFails)
           \/ stage = "calls" /\ (RejectCall \/ CallTool \/ VerifyPasses \/ VerifyFails)
           \/ UNCHANGED vars
  <2>1. UNCHANGED <<sections, prompt>>
    BY <1>3 DEF Drop, Overflow, Chat, ChatFails, RejectCall, CallTool, Answered,
                VerifyPasses, VerifyFails, request, vars
  <2> QED  BY <2>1 DEF OrderKept
<1> QED  BY <1>1, <1>2, <1>3, StagesOf

-----------------------------------------------------------------------------
(* The theorems about the conversation.                                    *)

\* A goal begins with nothing said.
LEMMA ConversationBegins == Init => TypeOK /\ GoalInv
<1> SUFFICES ASSUME Init PROVE TypeOK /\ GoalInv  OBVIOUS
<1>1. TypeOK
  <2>1. /\ failure = <<>> /\ running = <<>> /\ asked = <<>> /\ waiting = <<>>
        /\ recorded = <<>> /\ sections = <<>> /\ prompt = <<>> /\ kept = {}
        /\ iter = 0 /\ fails = 0 /\ stage = "build"
    BY DEF Init
  <2> QED  BY <2>1, ConversationAssumption DEF TypeOK
<1>2. stage = "build" /\ iter = 0 /\ prompt = <<>> /\ running = <<>> /\ fails = 0
  BY DEF Init
<1>3. SectionsInv /\ CallsInv /\ PackInv  BY <1>2 DEF SectionsInv, CallsInv, PackInv, Asking
<1>4. FailureInv /\ OrderKept  BY <1>2 DEF FailureInv, OrderKept
<1>5. AdviceInv  BY <1>2, ConversationAssumption DEF AdviceInv
<1> QED  BY <1>1, <1>3, <1>4, <1>5 DEF GoalInv

\* The types and the inductive invariant of the conversation of a goal.
THEOREM ConversationInvariant == Spec => [](TypeOK /\ GoalInv)
<1>1. TypeOK /\ GoalInv /\ [Next]_vars => TypeOK' /\ GoalInv'
  BY TypesStep, SectionsStep, FailureStep, AdviceStep, CallsStep, PackStep, OrderStep
  DEF GoalInv
<1> QED  BY <1>1, ConversationBegins, PTL DEF Spec

\* Every variable of the conversation keeps its type, bounds included: at most
\* one log, and no more messages than are ever read again.
THEOREM ConversationTypes == Spec => []TypeOK
  BY ConversationInvariant, PTL

\* Every prompt after a failure holds the log of the latest one.
THEOREM FailuresAreShown == Spec => []FailureShown
<1>1. TypeOK /\ GoalInv => FailureShown
  <2> SUFFICES ASSUME TypeOK, GoalInv, stage = "chat", iter > 1
               PROVE  \E i \in DOMAIN sections :
                        /\ InPrompt(i) /\ sections[i].kind = "verify_log"
                        /\ sections[i].text = <<"log", iter - 1>>
    BY DEF FailureShown
  <2>1. Asking /\ SectionsInv /\ PackInv /\ FailureInv  BY DEF Asking, GoalInv
  <2>2. failure # <<>> /\ failure[1].text = <<"log", iter - 1>>
    BY <2>1 DEF FailureInv
  <2>3. failure \in Seq(Logs) /\ Len(failure) = 1
    <3>1. failure \in Seq(Logs) /\ Len(failure) <= 1  BY DEF TypeOK
    <3>2. Len(failure) \in Nat \ {0}  BY <2>2, <3>1, EmptySeq
    <3> DEFINE n == Len(failure)
    <3>3. n \in Nat \ {0} /\ n <= 1  BY <3>1, <3>2
    <3> HIDE DEF n
    <3>4. n = 1  BY <3>3
    <3> QED  BY <3>1, <3>4 DEF n
  <2>4. failure[1].kind = "verify_log"
    <3>1. failure[1] \in Logs  BY <2>3, ElementOfSeq
    <3> QED  BY <3>1 DEF Logs
  <2>5. sections[5] = failure[1] /\ 5 \in DOMAIN sections /\ 5 \notin Talk
    <3>1. /\ DOMAIN sections = 1..Len(sections) /\ Len(running) \in Nat
          /\ Len(sections) = 4 + 1 + Len(running) /\ Talk = 6..Len(sections)
          /\ sections[5] = failure[1]
      <4>1. /\ DOMAIN sections = 1..Len(sections) /\ Len(running) \in Nat
            /\ Len(sections) = 4 + Len(failure) + Len(running)
            /\ Talk = (5 + Len(failure))..Len(sections)
            /\ Len(failure) = 1 => sections[5] = failure[1]
        BY <2>1, Places
      <4> QED  BY <2>3, <4>1
    <3> QED  BY <3>1
  <2>6. 5 \notin Droppable(sections)  BY <2>1, <2>5, WhatMayGo
  <2>7. 5 \in kept  BY <2>1, <2>5, <2>6 DEF PackInv
  <2>8. InPrompt(5)  BY <2>1, <2>5, <2>7, PromptIs
  <2> QED  BY <2>2, <2>4, <2>5, <2>8
<1> QED  BY <1>1, ConversationInvariant, PTL

\* A prompt is the conversation as it went, without its oldest part, and as
\* much of it as there is room for.
THEOREM PromptsArePacked == Spec => []PromptIsPacked
<1>1. TypeOK /\ GoalInv => NewestKept
  <2> SUFFICES ASSUME TypeOK, GoalInv, stage = "chat" PROVE NewestKept
    BY DEF NewestKept
  <2>1. Asking /\ SectionsInv /\ PackInv  BY DEF Asking, GoalInv
  <2>2. Diff = 4 /\ 4 \in DOMAIN sections /\ Talk \subseteq DOMAIN sections
    BY <2>1, WhatMayGo
  <2>3. \A i \in DOMAIN sections : InPrompt(i) <=> i \in kept  BY <2>1, PromptIs
  <2>4. \A i \in Talk \cap kept : 4 \in kept /\ \A j \in Talk : i < j => j \in kept
    BY <2>1 DEF PackInv
  <2> QED  BY <2>2, <2>3, <2>4 DEF NewestKept
<1>2. TypeOK /\ GoalInv => PackedIsFull
  <2> SUFFICES ASSUME TypeOK, GoalInv PROVE PackedIsFull  OBVIOUS
  <2>1. CASE stage = "chat"
    <3>1. Asking /\ SectionsInv /\ PackInv  BY <2>1 DEF Asking, GoalInv
    <3>2. Diff = 4  BY <3>1, WhatMayGo
    <3> DEFINE lost == {i \in DOMAIN sections : ~InPrompt(i)}
               back == IF Diff \in lost THEN Diff ELSE Sets!Max(lost)
    <3>3. lost = Dropped  BY <2>1, <3>1, PromptIs DEF Dropped
    <3>4. DOMAIN sections \ lost = kept  BY <3>3 DEF Dropped, TypeOK
    <3>5. back = Latest  BY <3>2, <3>3 DEF Latest
    <3>6. Dropped # {} => ~Fits(kept \cup {Latest})  BY <3>1 DEF PackInv
    <3>7. lost # {} => ~Fits((DOMAIN sections \ lost) \cup {back})
      <4> HIDE DEF lost, back
      <4> QED  BY <3>3, <3>4, <3>5, <3>6
    <3> QED  BY <2>1, <3>7 DEF PackedIsFull
  <2>2. CASE stage = "overflow"
    <3>1. ~Fits(kept) /\ MayDrop = {} /\ DOMAIN sections \ Droppable(sections) \subseteq kept
      BY <2>2 DEF GoalInv, PackInv, Asking
    <3>2. kept = DOMAIN sections \ Droppable(sections)
      BY <3>1 DEF MayDrop, TypeOK
    <3> QED  BY <2>2, <3>1, <3>2 DEF PackedIsFull
  <2> QED  BY <2>1, <2>2 DEF PackedIsFull
<1>3. TypeOK /\ GoalInv => PromptIsPacked
  BY <1>1, <1>2 DEF GoalInv, PromptIsPacked
<1> QED  BY <1>3, ConversationInvariant, PTL

\* The advice that is due is the last message there is, and the last of the
\* prompt unless no message found room; a rollback leaves none.
THEOREM AdviceIsShown == Spec => []AdviceShown
<1>1. TypeOK /\ GoalInv => AdviceShown
  <2> SUFFICES ASSUME TypeOK, GoalInv, stage = "chat" PROVE AdviceShown
    BY DEF AdviceShown
  <2> DEFINE f == Len(failure)
             z == Len(sections)
             r == Len(running)
  <2>1. Asking /\ SectionsInv /\ PackInv /\ AdviceInv  BY DEF Asking, GoalInv
  <2>2. /\ sections \in Seq(AnySection) /\ DOMAIN sections = 1..z /\ z \in Nat
        /\ f \in {0, 1} /\ r \in Nat /\ z = 4 + f + r /\ Talk = (5 + f)..z
        /\ \A i \in Talk : /\ sections[i] = running[i - (4 + f)]
                           /\ sections[i].kind = "attempt"
        /\ \A i \in DOMAIN sections \ Talk : sections[i].kind # "attempt"
    BY <2>1, Places
  <2>3. /\ Len(prompt) \in Nat
        /\ \A k \in 1..Len(prompt) : prompt[k] \in kept
        /\ \A i \in DOMAIN sections : InPrompt(i) <=> i \in kept
        /\ \A k, l \in 1..Len(prompt) : k < l => Precedes(sections, prompt[k], prompt[l])
        /\ DOMAIN prompt = 1..Len(prompt)
    BY <2>1, PromptIs
  <2>4. /\ StrategyAfter > 0 /\ fails >= StrategyAfter =>
             running # <<>> /\ running[r] = Advice(fails)
        /\ fails = 0 => running = <<>>
    BY <2>1 DEF AdviceInv
  <2>5. running # <<>> => r > 0
    <3>1. running \in Seq(Messages)  BY DEF TypeOK
    <3> QED  BY <3>1, EmptySeq
  <2>6. running = <<>> => r = 0  OBVIOUS
  <2>7. kept \subseteq DOMAIN sections  BY DEF TypeOK
  <2> HIDE DEF f, z, r
  <2>8. running # <<>> => Talk # {} /\ sections[z] = running[r]
    <3> SUFFICES ASSUME running # <<>> PROVE Talk # {} /\ sections[z] = running[r]
      OBVIOUS
    <3>1. z \in Talk /\ z - (4 + f) = r  BY <2>2, <2>5
    <3>2. sections[z] = running[z - (4 + f)]  BY <2>2, <3>1
    <3> QED  BY <3>1, <3>2
  <2>12. Talk \subseteq Nat
    <3>1. f \in Nat /\ z \in Nat /\ Talk = (5 + f)..z  BY <2>2
    <3> QED  BY <3>1
  <2>9. running = <<>> => Talk = {}  BY <2>2, <2>6
  <2>10. \A i \in Talk : IndexOf(sections, i) \in Talk /\ IndexOf(sections, i) <= i
    <3> SUFFICES ASSUME NEW i \in Talk
                 PROVE  IndexOf(sections, i) \in Talk /\ IndexOf(sections, i) <= i
      OBVIOUS
    <3>1. i \in DOMAIN sections  BY <2>2
    <3>2. /\ IndexOf(sections, i) \in DOMAIN sections
          /\ sections[IndexOf(sections, i)] = sections[i] /\ IndexOf(sections, i) <= i
      BY <2>2, <3>1, IndexIs
    <3> QED  BY <2>2, <3>2
  <2>11. ASSUME NEW i \in Talk, InPrompt(i)
         PROVE  prompt[Len(prompt)] \in Talk
    <3>1. PICK k \in 1..Len(prompt) : prompt[k] = i  BY <2>3, <2>11 DEF InPrompt
    <3>2. CASE k = Len(prompt)
      BY <3>1, <3>2
    <3>3. CASE k # Len(prompt)
      <4> DEFINE q == prompt[Len(prompt)]
      <4>1. Len(prompt) \in 1..Len(prompt) /\ k < Len(prompt)
        <5>1. Len(prompt) \in Nat  BY <2>3
        <5> QED  BY <3>3, <5>1
      <4>2. Precedes(sections, i, q) /\ q \in DOMAIN sections
        BY <2>3, <2>7, <3>1, <4>1
      <4> HIDE DEF q
      <4>3. IndexOf(sections, q) <= q /\ IndexOf(sections, q) \in Nat
        BY <2>2, <4>2, IndexIs
      <4>4. IndexOf(sections, i) <= IndexOf(sections, q)
        <5>1. IndexOf(sections, i) \in Nat  BY <2>10, <2>12
        <5> QED  BY <4>2, <4>3, <5>1 DEF Precedes
      <4>5. IndexOf(sections, i) >= 5 + f  BY <2>2, <2>10
      <4>6. q \in Nat /\ q <= z  BY <2>2, <4>2
      <4>7. IndexOf(sections, i) \in Nat  BY <2>10, <2>12
      <4>8. q \in (5 + f)..z  BY <2>2, <4>3, <4>4, <4>5, <4>6, <4>7
      <4> QED  BY <2>2, <4>8 DEF q
    <3> QED  BY <3>2, <3>3
  <2> QED  BY <2>4, <2>8, <2>9, <2>11 DEF AdviceShown, z, r
<1> QED  BY <1>1, ConversationInvariant, PTL

\* A turn that is over has an answer for each of its calls, in order.
THEOREM CallsAreAnswered == Spec => []CallsAnswered
<1>1. TypeOK /\ GoalInv => CallsAnswered
  <2> SUFFICES ASSUME TypeOK, GoalInv, Verifying PROVE CallsAnswered
    BY DEF CallsAnswered
  <2> DEFINE n == Len(asked)
             t == Len(running) - n
  <2>1. stage = "calls" /\ waiting = <<>>  BY DEF Verifying
  <2>2. asked \in Seq(Calls) /\ recorded \in Seq(CallIds)  BY DEF TypeOK
  <2>3. n \in Nat /\ DOMAIN asked = 1..n  BY <2>2, LenProperties
  <2>4. Done = n  BY <2>1, <2>3 DEF Done
  <2>5. /\ Len(recorded) = n /\ \A k \in 1..n : recorded[k] = asked[k].id
        /\ FitsWindow => /\ t > 0 /\ running[t] = Turn(asked)
                         /\ \A k \in 1..n : running[t + k].text[2] = asked[k].id
    BY <2>1, <2>4 DEF GoalInv, CallsInv
  <2>6. recorded = [k \in DOMAIN asked |-> asked[k].id]
    <3>1. recorded \in [1..n -> CallIds]  BY <2>2, <2>5, LenProperties
    <3> HIDE DEF n
    <3> QED  BY <2>3, <2>5, <3>1
  <2> QED  BY <2>3, <2>5, <2>6 DEF CallsAnswered
<1> QED  BY <1>1, ConversationInvariant, PTL

-----------------------------------------------------------------------------
(* Lists.                                                                  *)

\* Moving the head of what is left to the end of what is stored keeps the whole.
LEMMA MoveHead ==
  ASSUME NEW s \in Seq(Items), NEW t \in Seq(Items), t # <<>>
  PROVE  Append(s, Head(t)) \o Tail(t) = s \o t
<1> DEFINE a == Append(s, Head(t)) \o Tail(t)
<1> DEFINE b == s \o t
<1>1. /\ Head(t) \in Items /\ Tail(t) \in Seq(Items)
      /\ Len(t) \in Nat \ {0} /\ Len(Tail(t)) = Len(t) - 1
      /\ Head(t) = t[1] /\ \A i \in 1..Len(Tail(t)) : Tail(t)[i] = t[i + 1]
  BY HeadTailProperties, EmptySeq, LenProperties
<1>2. /\ Append(s, Head(t)) \in Seq(Items) /\ Len(Append(s, Head(t))) = Len(s) + 1
      /\ \A i \in 1..Len(s) : Append(s, Head(t))[i] = s[i]
      /\ Append(s, Head(t))[Len(s) + 1] = Head(t)
  BY <1>1, AppendProperties
<1>3. Len(s) \in Nat  BY LenProperties
<1>4. /\ a \in Seq(Items) /\ Len(a) = Len(s) + Len(t)
      /\ \A i \in 1..Len(a) :
           a[i] = IF i <= Len(s) + 1 THEN Append(s, Head(t))[i] ELSE Tail(t)[i - (Len(s) + 1)]
  BY <1>1, <1>2, <1>3, ConcatProperties
<1>5. /\ b \in Seq(Items) /\ Len(b) = Len(s) + Len(t)
      /\ \A i \in 1..Len(b) : b[i] = IF i <= Len(s) THEN s[i] ELSE t[i - Len(s)]
  BY ConcatProperties
<1> HIDE DEF a, b
<1>6. ASSUME NEW i \in 1..Len(a) PROVE a[i] = b[i]
  <2>1. CASE i <= Len(s)  BY <1>2, <1>3, <1>4, <1>5, <2>1
  <2>2. CASE i = Len(s) + 1  BY <1>1, <1>2, <1>3, <1>4, <1>5, <2>2
  <2>3. CASE i > Len(s) + 1
    <3>1. i - (Len(s) + 1) \in 1..Len(Tail(t))  BY <1>1, <1>3, <1>4, <2>3
    <3>2. Tail(t)[i - (Len(s) + 1)] = t[(i - (Len(s) + 1)) + 1]  BY <1>1, <3>1
    <3>3. (i - (Len(s) + 1)) + 1 = i - Len(s)  BY <1>3, <2>3
    <3> QED  BY <1>3, <1>4, <1>5, <2>3, <3>2, <3>3
  <2> QED  BY <1>3, <1>4, <2>1, <2>2, <2>3
<1>7. a = b  BY <1>4, <1>5, <1>6, SeqEqual
<1> QED  BY <1>7 DEF a, b

\* The beginning of an accepted list is accepted, and the next item is new to it.
LEMMA AcceptedPrefix ==
  ASSUME NEW s \in Seq(Items), NEW t \in Seq(Items), Accepted(s \o t)
  PROVE  /\ Accepted(s)
         /\ t # <<>> => \A i \in 1..Len(s) : s[i].id # Head(t).id
<1>1. Len(s) \in Nat /\ Len(t) \in Nat  BY LenProperties
<1>2. /\ Len(s \o t) = Len(s) + Len(t)
      /\ \A i \in 1..Len(s) : (s \o t)[i] = s[i]
      /\ \A i \in 1..Len(t) : (s \o t)[Len(s) + i] = t[i]
  BY <1>1, ConcatProperties
<1>3. 1..Len(s) \subseteq 1..Len(s \o t)  BY <1>1, <1>2
<1>4. Accepted(s)  BY <1>2, <1>3 DEF Accepted
<1>5. ASSUME t # <<>>, NEW i \in 1..Len(s) PROVE s[i].id # Head(t).id
  <2>1. Len(t) >= 1 /\ Head(t) = t[1]  BY <1>1, <1>5, EmptySeq, HeadTailProperties
  <2>2. Len(s) + 1 \in 1..Len(s \o t) /\ i # Len(s) + 1  BY <1>1, <1>2, <2>1
  <2>3. (s \o t)[Len(s) + 1] = Head(t)  BY <1>1, <1>2, <2>1
  <2> QED  BY <1>2, <1>3, <2>2, <2>3 DEF Accepted
<1> QED  BY <1>4, <1>5

\* In an accepted list at most one item is in progress, and Doing names it.
LEMMA AcceptedDoing ==
  ASSUME NEW l \in Seq(Items), Accepted(l)
  PROVE  /\ \A i, j \in InProgress(l) : i = j
         /\ Doing(l) \in Ids \cup {Nothing}
<1>1. \A i, j \in InProgress(l) : i = j  BY DEF Accepted, InProgress
<1>2. Doing(l) \in Ids \cup {Nothing}
  <2>1. CASE InProgress(l) = {}  BY <2>1 DEF Doing
  <2>2. CASE InProgress(l) # {}
    <3> DEFINE first == CHOOSE i \in InProgress(l) : \A j \in InProgress(l) : i <= j
    <3>1. Len(l) \in Nat  BY LenProperties
    <3>2. PICK k \in InProgress(l) : TRUE  BY <2>2
    <3>3. \A j \in InProgress(l) : k <= j  BY <1>1, <3>1, <3>2 DEF InProgress
    <3>4. first \in InProgress(l)  BY <3>2, <3>3
    <3>5. l[first] \in Items  BY <3>4, ElementOfSeq DEF InProgress
    <3>6. l[first].id \in Ids  BY <3>5 DEF Items
    <3> QED  BY <2>2, <3>6 DEF Doing
  <2> QED  BY <2>1, <2>2
<1> QED  BY <1>1, <1>2

-----------------------------------------------------------------------------
(* The store, the write under way and the agent's conversation.            *)

\* During a write the rows and what is left are the list that was sent.
Writing ==
  /\ pc = "clear" => left = sent
  /\ pc = "insert" => rows \o left = sent
  /\ pc \in {"clear", "insert"} => Accepted(sent)
  /\ pc \in {"clear", "insert"} /\ caller = "subagent" => behind

\* Outside of a write of its own the agent was shown what is stored.
Shown ==
  told.ok /\ ~behind /\ (pc = "idle" \/ (caller = "subagent" /\ pc # "dead")) => rows = told.list

TodoInv == Accepted(rows) /\ Writing /\ Shown

\* The first state: nothing stored, nothing shown.
LEMMA TodoBegins == TodoInit => TodoTypeOK /\ TodoInv
<1> SUFFICES ASSUME TodoInit PROVE TodoTypeOK /\ TodoInv
  OBVIOUS
<1>1. <<>> \in Seq(Items) /\ Len(<<>>) = 0  BY EmptySeq
<1>2. TodoTypeOK  BY <1>1 DEF TodoInit, TodoTypeOK, Agents
<1>3. Accepted(rows)  BY <1>1 DEF TodoInit, Accepted
<1> QED  BY <1>2, <1>3 DEF TodoInit, TodoInv, Writing, Shown

\* A statement of a write keeps both: the delete leaves nothing, an insert puts
\* the next item of an accepted list behind those before it.
LEMMA TodoStatement ==
  ASSUME TodoTypeOK, TodoInv, ClearTodos \/ UpsertTodo
  PROVE  TodoTypeOK' /\ TodoInv'
<1> USE DEF TodoTypeOK, TodoInv, Writing, Shown
<1>1. CASE ClearTodos
  <2>1. <<>> \in Seq(Items) /\ Len(<<>>) = 0  BY EmptySeq
  <2>2. <<>> \o left = left  BY ConcatEmptySeq
  <2>3. Accepted(<<>>)  BY <2>1 DEF Accepted
  <2> QED  BY <1>1, <2>1, <2>2, <2>3 DEF ClearTodos
<1>2. CASE UpsertTodo
  <2>1. left # <<>> /\ pc = "insert" /\ Accepted(rows \o left) /\ rows \o left = sent
    BY <1>2 DEF UpsertTodo
  <2>2. \A i \in 1..Len(rows) : rows[i].id # Head(left).id
    BY <2>1, AcceptedPrefix
  <2>3. rows' = Append(rows, Head(left)) /\ left' = Tail(left)
    BY <1>2, <2>2 DEF UpsertTodo, Upserted
  <2>4. Head(left) \in Items /\ left' \in Seq(Items)
    BY <2>1, <2>3, HeadTailProperties
  <2>5. rows' \in Seq(Items)  BY <2>3, <2>4, AppendProperties
  <2>6. rows' \o left' = sent  BY <2>1, <2>3, MoveHead
  <2>7. Accepted(rows')  BY <2>1, <2>4, <2>5, <2>6, AcceptedPrefix
  <2> QED  BY <1>2, <2>1, <2>4, <2>5, <2>6, <2>7 DEF UpsertTodo
<1> QED  BY <1>1, <1>2

\* The other steps leave the rows alone.
LEMMA TodoOther ==
  ASSUME TodoTypeOK, TodoInv, [TodoNext]_todoVars, ~ClearTodos, ~UpsertTodo
  PROVE  TodoTypeOK' /\ TodoInv'
<1> USE DEF TodoTypeOK, TodoInv, Writing, Shown
<1>0. <<>> \in Seq(Items)  BY EmptySeq
<1>1. ASSUME NEW a \in Agents, Reject(a) PROVE TodoTypeOK' /\ TodoInv'
  BY <1>0, <1>1 DEF Reject, Crashed
<1>2. ASSUME NEW a \in Agents, BeginWrite(a) PROVE TodoTypeOK' /\ TodoInv'
  <2>1. PICK l \in Lists : Accepted(l) /\ left' = l /\ sent' = l  BY <1>2 DEF BeginWrite
  <2>2. l \in Seq(Items)
    <3>1. PICK m \in 0..MaxItems : l \in [1..m -> Items]  BY <2>1 DEF Lists, BoundedSeq, SeqOf
    <3>2. m \in Nat  BY <3>1, TodoAssumption
    <3> QED  BY <3>1, <3>2, SeqDef
  <2> QED  BY <1>2, <2>1, <2>2 DEF BeginWrite
<1>3. ASSUME NEW a \in Agents, BeginRead(a) PROVE TodoTypeOK' /\ TodoInv'
  BY <1>3 DEF BeginRead
<1>4. CASE EndInserts  BY <1>4 DEF EndInserts
<1>5. CASE Refresh  BY <1>0, <1>5 DEF Refresh, Answer, Agents
<1>6. CASE StoreFails  BY <1>0, <1>6 DEF StoreFails, Answer, Crashed, Agents
<1>7. CASE Remind
  <2>1. Doing(rows) \in Ids \cup {Nothing}  BY AcceptedDoing
  <2> QED  BY <1>7, <2>1 DEF Remind
<1>8. CASE Die  BY <1>8 DEF Die
<1>9. CASE Dead \/ UNCHANGED todoVars  BY <1>9 DEF Dead, todoVars
<1> QED
  BY <1>1, <1>2, <1>3, <1>4, <1>5, <1>6, <1>7, <1>8, <1>9 DEF TodoNext

\* The types, and the inductive invariant of the write under way.
THEOREM TodoInvariant == TodoSpec => [](TodoTypeOK /\ TodoInv)
<1>1. TodoTypeOK /\ TodoInv /\ [TodoNext]_todoVars => TodoTypeOK' /\ TodoInv'
  BY TodoStatement, TodoOther
<1> QED  BY <1>1, TodoBegins, PTL DEF TodoSpec

\* Every variable of the todo list keeps its type.
THEOREM TodoTypes == TodoSpec => []TodoTypeOK
  BY TodoInvariant, PTL

\* At most one stored todo is in progress, wherever a write is interrupted.
THEOREM AtMostOneInProgress == TodoSpec => []OneInProgress
<1>1. TodoTypeOK /\ TodoInv => OneInProgress
  BY AcceptedDoing DEF TodoTypeOK, TodoInv, OneInProgress
<1> QED  BY <1>1, TodoInvariant, PTL

\* The rows come from one list, and are all of it once the agent is told so.
THEOREM StoredRowsOfOneList == TodoSpec => []RowsOfOneList
<1>1. TodoInv => RowsOfOneList
  BY DEF TodoInv, Writing, Shown, RowsOfOneList
<1> QED  BY <1>1, TodoInvariant, PTL

\* A reminder names a todo the agent was shown as the one in progress.
THEOREM RemindersAreKnown == TodoSpec => ReminderIsKnown
<1>1. TodoInv /\ [TodoNext]_todoVars => [Remind /\ told.ok /\ ~behind => shown' = Doing(told.list)]_todoVars
  BY DEF TodoInv, Shown, Remind
<1> QED  BY <1>1, TodoInvariant, PTL DEF TodoSpec, ReminderIsKnown
=============================================================================
