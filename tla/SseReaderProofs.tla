--------------------------- MODULE SseReaderProofs ---------------------------
(***************************************************************************)
(* Theorems about SseReader, for any number of events, any heartbeats and  *)
(* any way the chunks cut the stream: what the log shows is true.          *)
(*                                                                         *)
(* The lines of the stream are numbered: event e has the lines 3e - 2,     *)
(* 3e - 1 and 3e.                                                          *)
(***************************************************************************)
EXTENDS SseReader, SequenceTheorems, TLAPS

Pos(line) ==
  IF line.kind = "event:" THEN 3 * line.of - 2
  ELSE IF line.kind = "data:" THEN 3 * line.of - 1
  ELSE 3 * line.of

\* The lines the reader has taken from the wire, and those it has looked at.
Taken == 3 * sent - Len(wire)
At    == Taken - Len(lines)

\* Wire and chunk hold the lines that follow, none missing.
LinesInv ==
  /\ Taken \in Nat /\ At \in Nat
  /\ \A i \in 1..Len(wire) : Pos(wire[i]) = Taken + i
  /\ \A i \in 1..Len(lines) : Pos(lines[i]) = At + i
  /\ rpc = "read" => lines = <<>>

\* An event a chunk ends within is cut.
CutInv == \A e \in Events : Taken \in {3 * e - 2, 3 * e - 1} => e \in cut

\* What the parser knows belongs to the event it is within, and is all of that
\* event there has been unless it was cut.
ParserInv ==
  lineEnd = "lf" =>
    /\ dataStr = <<>> =>
         evType = "message" \/ \E e \in Events : At = 3 * e - 2 /\ evType = Type(e)
    /\ dataStr # <<>> =>
         \E e \in Events : At = 3 * e - 1 /\ dataStr = <<e>> /\ evType \in {"message", Type(e)}
    /\ \A e \in Events \ cut :
         /\ At = 3 * e - 2 => dataStr = <<>> /\ evType = Type(e)
         /\ At = 3 * e - 1 => dataStr = <<e>> /\ evType = Type(e)

Types   == {"message", "event", "heartbeat", "session.ended"}
Entries == [type : Types, data : Seq(Events)]

\* What the log may tell of an event.
Tells(entry, e) ==
  /\ entry.data = <<e>>
  /\ entry.type = Type(e) \/ (entry.type = "message" /\ e \in cut)

\* The log holds events the reader is past, in order.
LogInv ==
  /\ shown \in Seq(Entries)
  /\ lineEnd = "crlf" => shown = <<>>
  /\ \A i \in 1..Len(shown) : \E e \in Events : 3 * e <= At /\ Tells(shown[i], e)
  /\ \A i, j \in 1..Len(shown) : i < j => shown[i].data[1] < shown[j].data[1]

ReaderInv == LinesInv /\ CutInv /\ ParserInv /\ LogInv

-----------------------------------------------------------------------------
(* Lines.                                                                  *)

\* The types an event may have.
LEMMA TypeIs == \A e \in Events : Type(e) \in {"event", "heartbeat", "session.ended"}
  BY DEF Type

\* The three lines an event is sent as.
NewLines(e) == [i \in 1..3 |-> [kind |-> <<"event:", "data:", "blank">>[i], of |-> e]]

\* The lines of an event are typed, three, and numbered one after the other.
LEMMA NewLinesAre ==
  ASSUME NEW e \in Events
  PROVE  /\ NewLines(e) \in Seq(Lines) /\ Len(NewLines(e)) = 3
         /\ \A i \in 1..3 : Pos(NewLines(e)[i]) = 3 * (e - 1) + i
<1> DEFINE k(i) == [kind |-> <<"event:", "data:", "blank">>[i], of |-> e]
<1>1. \A i \in 1..3 : i = 1 \/ i = 2 \/ i = 3  OBVIOUS
<1>2. /\ k(1) = [kind |-> "event:", of |-> e]
      /\ k(2) = [kind |-> "data:", of |-> e]
      /\ k(3) = [kind |-> "blank", of |-> e]
  OBVIOUS
<1>3. k(1) \in Lines /\ k(2) \in Lines /\ k(3) \in Lines  BY <1>2 DEF Lines
<1>4. \A i \in 1..3 : k(i) \in Lines  BY <1>1, <1>3
<1>5. /\ Pos(k(1)) = 3 * e - 2
      /\ Pos(k(2)) = 3 * e - 1
      /\ Pos(k(3)) = 3 * e
  BY <1>2 DEF Pos
<1> HIDE DEF k
<1>6. NewLines(e) = [i \in 1..3 |-> k(i)]  BY DEF NewLines, k
<1>7. NewLines(e) \in Seq(Lines) /\ Len(NewLines(e)) = 3  BY <1>4, <1>6
<1>8. \A i \in 1..3 : Pos(NewLines(e)[i]) = 3 * (e - 1) + i
  <2> SUFFICES ASSUME NEW i \in 1..3 PROVE Pos(k(i)) = 3 * (e - 1) + i
    BY <1>6
  <2>1. e \in Nat  BY StreamAssumption DEF Events
  <2> QED  BY <1>1, <1>5, <2>1
<1> QED  BY <1>7, <1>8

\* A line's number tells its event and its kind.
LEMMA PosTells ==
  ASSUME NEW line \in Lines
  PROVE  /\ line.of \in Events /\ line.of \in Nat \ {0} /\ Pos(line) \in Nat
         /\ line.kind = "event:" => Pos(line) = 3 * line.of - 2
         /\ line.kind = "data:" => Pos(line) = 3 * line.of - 1
         /\ line.kind = "blank" => Pos(line) = 3 * line.of
         /\ Pos(line) \in {3 * line.of - 2, 3 * line.of - 1, 3 * line.of}
<1>1. line.of \in Events /\ line.kind \in {"event:", "data:", "blank"}  BY DEF Lines
<1>2. line.of \in Nat \ {0}  BY <1>1, StreamAssumption DEF Events
<1> QED  BY <1>1, <1>2 DEF Pos

\* The number of a line tells its event.
LEMMA PosOf ==
  ASSUME NEW line \in Lines, NEW e \in Nat, Pos(line) \in {3 * e - 2, 3 * e - 1, 3 * e}
  PROVE  line.of = e
  BY PosTells

\* Looking at a line moves the reader on by one.
LEMMA HeadIsNext ==
  ASSUME TypeOK, LinesInv, lines # <<>>, lines' = Tail(lines), UNCHANGED <<server, wire>>
  PROVE  /\ Head(lines) \in Lines /\ Pos(Head(lines)) = At + 1
         /\ lines' \in Seq(Lines)
         /\ Taken' = Taken /\ At' = At + 1
         /\ \A i \in 1..Len(lines') : Pos(lines'[i]) = At' + i
         /\ \A i \in 1..Len(wire') : Pos(wire'[i]) = Taken' + i
<1>1. lines \in Seq(Lines) /\ Len(lines) \in Nat \ {0} /\ Head(lines) = lines[1]
  BY EmptySeq DEF TypeOK
<1>2. /\ Head(lines) \in Lines /\ Tail(lines) \in Seq(Lines)
      /\ Len(Tail(lines)) = Len(lines) - 1
      /\ \A i \in 1..Len(Tail(lines)) : Tail(lines)[i] = lines[i + 1]
  BY <1>1, HeadTailProperties
<1>3. /\ Taken \in Nat /\ At \in Nat
      /\ \A i \in 1..Len(lines) : Pos(lines[i]) = At + i
      /\ \A i \in 1..Len(wire) : Pos(wire[i]) = Taken + i
  BY DEF LinesInv
<1>4. Taken' = Taken  BY DEF Taken, server
<1>5. At' = At + 1  BY <1>1, <1>2, <1>3, <1>4 DEF At
<1>6. Pos(Head(lines)) = At + 1  BY <1>1, <1>3
<1>7. \A i \in 1..Len(lines') : Pos(lines'[i]) = At' + i
  <2> SUFFICES ASSUME NEW i \in 1..Len(Tail(lines)) PROVE Pos(Tail(lines)[i]) = At + 1 + i
    BY <1>5
  <2>1. i + 1 \in 1..Len(lines)  BY <1>1, <1>2
  <2>2. Pos(lines[i + 1]) = At + (i + 1)  BY <1>3, <2>1
  <2> QED  BY <1>2, <1>3, <2>2
<1> QED  BY <1>2, <1>3, <1>4, <1>5, <1>6, <1>7

-----------------------------------------------------------------------------
(* The inductive invariant.                                                *)

\* Nothing is sent and nothing is shown.
LEMMA ReaderInit == Init => TypeOK /\ ReaderInv
<1> SUFFICES ASSUME Init PROVE TypeOK /\ ReaderInv
  OBVIOUS
<1> USE DEF Init
<1>1. TypeOK  BY StreamAssumption DEF TypeOK
<1>2. Len(wire) = 0 /\ Len(lines) = 0 /\ Len(shown) = 0  OBVIOUS
<1>3. Taken = 0 /\ At = 0
  <2>1. sent = 0  OBVIOUS
  <2> HIDE DEF Init
  <2>2. Taken = 0  BY <1>2, <2>1 DEF Taken
  <2> QED  BY <1>2, <2>2 DEF At
<1>4. LinesInv  BY <1>2, <1>3 DEF LinesInv
<1>5. \A e \in Events : e \in Nat \ {0}  BY StreamAssumption DEF Events
<1>6. CutInv /\ ParserInv  BY <1>3, <1>5 DEF CutInv, ParserInv
<1>7. shown \in Seq(Entries)  OBVIOUS
<1>8. LogInv  BY <1>2, <1>3, <1>5, <1>7 DEF LogInv
<1> QED  BY <1>1, <1>4, <1>6, <1>8 DEF ReaderInv

\* The server appends to what is on the wire.
LEMMA SendKeeps ==
  ASSUME TypeOK, ReaderInv, Send
  PROVE  TypeOK' /\ ReaderInv'
<1> DEFINE e == sent + 1
<1>1. /\ sent \in 0..NumEvents /\ sent < NumEvents /\ e \in Events /\ sent' = e
      /\ wire' = wire \o NewLines(e)
      /\ UNCHANGED <<conn, lineEnd, rpc, lines, evType, dataStr, shown, cut>>
  BY StreamAssumption DEF Send, TypeOK, Events, NewLines
<1>2. /\ NewLines(e) \in Seq(Lines) /\ Len(NewLines(e)) = 3
      /\ \A i \in 1..3 : Pos(NewLines(e)[i]) = 3 * sent + i
  BY <1>1, NewLinesAre
<1> HIDE DEF e
<1>3. wire \in Seq(Lines) /\ lines \in Seq(Lines)  BY DEF TypeOK
<1>4. /\ wire' \in Seq(Lines)
      /\ Len(wire') = Len(wire) + 3
      /\ \A i \in 1..(Len(wire) + 3) : wire'[i] = IF i <= Len(wire) THEN wire[i]
                                                 ELSE NewLines(e)[i - Len(wire)]
  <2> DEFINE new == NewLines(e)
  <2>1. new \in Seq(Lines) /\ Len(new) = 3  BY <1>2
  <2> HIDE DEF new
  <2>2. /\ wire \o new \in Seq(Lines)
        /\ Len(wire \o new) = Len(wire) + Len(new)
        /\ \A i \in 1..(Len(wire) + Len(new)) :
             (wire \o new)[i] = IF i <= Len(wire) THEN wire[i] ELSE new[i - Len(wire)]
    BY <1>3, <2>1, ConcatProperties
  <2>3. wire' = wire \o new  BY <1>1 DEF new
  <2>4. /\ wire' \in Seq(Lines)
        /\ Len(wire') = Len(wire) + 3
        /\ \A i \in 1..(Len(wire) + 3) :
             wire'[i] = IF i <= Len(wire) THEN wire[i] ELSE new[i - Len(wire)]
    BY <2>1, <2>2, <2>3
  <2> QED  BY <2>4 DEF new
<1>5. Len(wire) \in Nat /\ Len(lines) \in Nat  BY <1>3, LenProperties
<1>6. Taken' = Taken /\ At' = At
  <2>1. sent \in Nat /\ sent' = sent + 1 /\ lines' = lines  BY <1>1 DEF e
  <2>2. Taken' = Taken  BY <1>4, <1>5, <2>1 DEF Taken
  <2> QED  BY <2>1, <2>2 DEF At
<1>7. TypeOK'  BY <1>1, <1>4 DEF TypeOK, Events
<1>8. LinesInv'
  <2>1. \A i \in 1..Len(wire') : Pos(wire'[i]) = Taken' + i
    <3> SUFFICES ASSUME NEW i \in 1..(Len(wire) + 3) PROVE Pos(wire'[i]) = Taken + i
      BY <1>4, <1>6
    <3>1. CASE i <= Len(wire)  BY <1>4, <1>5, <3>1 DEF ReaderInv, LinesInv
    <3>2. CASE ~(i <= Len(wire))
      <4>1. i - Len(wire) \in 1..3  BY <1>5, <3>2
      <4>2. Pos(wire'[i]) = 3 * sent + (i - Len(wire))  BY <1>2, <1>4, <3>2, <4>1
      <4>3. Taken \in Nat /\ sent \in Nat  BY <1>1 DEF ReaderInv, LinesInv
      <4> QED  BY <1>5, <4>2, <4>3 DEF Taken
    <3> QED  BY <3>1, <3>2
  <2> QED  BY <1>1, <1>6, <2>1 DEF ReaderInv, LinesInv
<1>9. CutInv' /\ ParserInv' /\ LogInv'
  BY <1>1, <1>6 DEF ReaderInv, CutInv, ParserInv, LogInv, Tells
<1> QED  BY <1>7, <1>8, <1>9 DEF ReaderInv

\* The connection ends, the reader returns, or a chunk is done: what is known
\* of the stream stays.
LEMMA EndsKeep ==
  ASSUME TypeOK, ReaderInv, Close \/ Break \/ ReadDone \/ ReadFails \/ ChunkDone
  PROVE  TypeOK' /\ ReaderInv'
<1>1. /\ conn' \in {"open", "closed", "broken"} /\ rpc' \in {"read", "lines", "returned", "failed"}
      /\ rpc' = "read" => lines = <<>>
      /\ UNCHANGED <<sent, lineEnd, wire, lines, evType, dataStr, shown, cut>>
  BY DEF TypeOK, ReaderInv, LinesInv, Close, Break, ReadDone, ReadFails, ChunkDone, server
<1>2. Taken' = Taken /\ At' = At  BY <1>1 DEF Taken, At
<1>3. TypeOK'  BY <1>1 DEF TypeOK
<1>4. LinesInv'  BY <1>1, <1>2 DEF ReaderInv, LinesInv
<1>5. CutInv' /\ ParserInv' /\ LogInv'
  BY <1>1, <1>2 DEF ReaderInv, CutInv, ParserInv, LogInv, Tells
<1> QED  BY <1>3, <1>4, <1>5 DEF ReaderInv

\* A chunk that ends within an event marks it as cut, and one that begins
\* within an event finds it marked.
LEMMA ReadKeeps ==
  ASSUME TypeOK, ReaderInv, Read
  PROVE  TypeOK' /\ ReaderInv'
<1>1. /\ rpc = "read" /\ lines = <<>> /\ rpc' = "lines" /\ evType' = "message" /\ dataStr' = <<>>
      /\ UNCHANGED <<sent, conn, lineEnd, shown>>
  BY DEF Read, ReaderInv, LinesInv, server
<1>2. PICK n \in 1..Len(wire) :
        /\ lines' = SubSeq(wire, 1, n)
        /\ wire' = SubSeq(wire, n + 1, Len(wire))
        /\ cut' = cut \cup CutAfter(n)
  BY DEF Read
<1>3. /\ wire \in Seq(Lines) /\ Len(wire) \in Nat /\ n \in Nat \ {0} /\ n <= Len(wire)
      /\ \A i \in 1..Len(wire) : wire[i] \in Lines
      /\ sent \in Nat /\ Taken \in Nat
      /\ \A i \in 1..Len(wire) : Pos(wire[i]) = Taken + i
  BY LenProperties, ElementOfSeq DEF TypeOK, ReaderInv, LinesInv
<1>4. /\ lines' \in Seq(Lines) /\ Len(lines') = n
      /\ \A i \in 1..n : lines'[i] = wire[i]
  BY <1>2, <1>3, SubSeqProperties
<1>5. /\ wire' \in Seq(Lines) /\ Len(wire') = Len(wire) - n
      /\ \A i \in 1..(Len(wire) - n) : wire'[i] = wire[n + i]
  <2>1. \A i \in (n + 1)..Len(wire) : wire[i] \in Lines  BY <1>3
  <2>2. /\ SubSeq(wire, n + 1, Len(wire)) \in Seq(Lines)
        /\ Len(SubSeq(wire, n + 1, Len(wire))) =
             IF n + 1 <= Len(wire) THEN Len(wire) - (n + 1) + 1 ELSE 0
        /\ \A i \in 1..(Len(wire) - (n + 1) + 1) :
             SubSeq(wire, n + 1, Len(wire))[i] = wire[(n + 1) + i - 1]
    BY <1>3, <2>1, SubSeqProperties
  <2>3. Len(wire') = Len(wire) - n  BY <1>2, <1>3, <2>2
  <2>4. \A i \in 1..(Len(wire) - n) : wire'[i] = wire[n + i]
    <3> SUFFICES ASSUME NEW i \in 1..(Len(wire) - n) PROVE wire'[i] = wire[n + i]
      OBVIOUS
    <3>1. i \in 1..(Len(wire) - (n + 1) + 1) /\ (n + 1) + i - 1 = n + i  BY <1>3
    <3> QED  BY <1>2, <2>2, <3>1
  <2> QED  BY <1>2, <2>2, <2>3, <2>4
<1>6. Taken' = Taken + n /\ At' = Taken /\ At = Taken
  BY <1>1, <1>3, <1>4, <1>5 DEF Taken, At
<1>7. TypeOK'  BY <1>1, <1>2, <1>4, <1>5 DEF TypeOK, CutAfter
<1>8. LinesInv'
  <2>1. \A i \in 1..Len(wire') : Pos(wire'[i]) = Taken' + i
    <3> SUFFICES ASSUME NEW i \in 1..(Len(wire) - n) PROVE Pos(wire[n + i]) = Taken + n + i
      BY <1>5, <1>6
    <3>1. n + i \in 1..Len(wire)  BY <1>3
    <3>2. Pos(wire[n + i]) = Taken + (n + i)  BY <1>3, <3>1
    <3> QED  BY <1>3, <3>2
  <2>2. \A i \in 1..Len(lines') : Pos(lines'[i]) = At' + i  BY <1>3, <1>4, <1>6
  <2>3. Taken' \in Nat /\ At' \in Nat  BY <1>3, <1>6
  <2>4. rpc' # "read"  BY <1>1
  <2> QED  BY <2>1, <2>2, <2>3, <2>4 DEF LinesInv
<1>9. CutInv'
  <2> SUFFICES ASSUME NEW e \in Events, Taken' \in {3 * e - 2, 3 * e - 1} PROVE e \in cut'
    BY DEF CutInv
  <2>1. e \in Nat \ {0}  BY StreamAssumption DEF Events
  <2>2. Pos(wire[n]) = Taken' /\ wire[n] \in Lines  BY <1>3, <1>6
  <2>3. wire[n].of = e  BY <2>1, <2>2, PosOf
  <2>4. n + 1 <= Len(wire)
    <3> SUFFICES ASSUME n = Len(wire) PROVE FALSE
      BY <1>3
    <3>1. Taken + n = 3 * sent  BY <1>3 DEF Taken
    <3> QED  BY <1>3, <1>6, <2>1, <3>1
  <2>5. n + 1 \in 1..Len(wire) /\ n + 1 \in (n + 1)..Len(wire) /\ n \in 1..n
    BY <1>3, <2>4
  <2>6. Pos(wire[n + 1]) = Taken' + 1 /\ wire[n + 1] \in Lines
    <3>1. Pos(wire[n + 1]) = Taken + (n + 1)  BY <1>3, <2>5
    <3> QED  BY <1>3, <1>6, <2>5, <3>1
  <2>7. wire[n + 1].of = e
    <3>1. CASE Taken' = 3 * e - 2
      <4>1. Taken' + 1 = 3 * e - 1  BY <2>1, <3>1
      <4> QED  BY <2>1, <2>6, <4>1, PosOf
    <3>2. CASE Taken' = 3 * e - 1
      <4>1. Taken' + 1 = 3 * e  BY <2>1, <3>2
      <4> QED  BY <2>1, <2>6, <4>1, PosOf
    <3> QED  BY <3>1, <3>2
  <2>8. e \in CutAfter(n)  BY <2>3, <2>5, <2>7 DEF CutAfter
  <2> QED  BY <1>2, <2>8
<1>10. ParserInv'
  <2> SUFFICES ASSUME NEW e \in Events \ cut' PROVE At' # 3 * e - 2 /\ At' # 3 * e - 1
    BY <1>1 DEF ParserInv
  <2>1. e \notin cut  BY <1>2
  <2> QED  BY <1>6, <2>1 DEF ReaderInv, CutInv
<1>11. LogInv'
  BY <1>1, <1>2, <1>6 DEF ReaderInv, LogInv, Tells
<1> QED  BY <1>7, <1>8, <1>9, <1>10, <1>11 DEF ReaderInv

\* What a line says of the event the reader is within, when lines end in LF.
LEMMA Within ==
  ASSUME TypeOK, ReaderInv, lineEnd = "lf", NEW e \in Events
  PROVE  /\ At + 1 = 3 * e - 2 => dataStr = <<>> /\ evType = "message"
         /\ At + 1 = 3 * e - 1 => dataStr = <<>> /\ evType \in {"message", Type(e)}
         /\ At + 1 = 3 * e => \/ dataStr = <<e>> /\ evType \in {"message", Type(e)}
                              \/ dataStr = <<>> /\ evType = "message" /\ e \in cut
<1>1. \A d \in Events : d \in Nat \ {0}  BY StreamAssumption DEF Events
<1>2. At \in Nat  BY DEF ReaderInv, LinesInv
<1>3. /\ dataStr = <<>> =>
           evType = "message" \/ \E d \in Events : At = 3 * d - 2 /\ evType = Type(d)
      /\ dataStr # <<>> =>
           \E d \in Events : At = 3 * d - 1 /\ dataStr = <<d>> /\ evType \in {"message", Type(d)}
      /\ e \notin cut => (At = 3 * e - 1 => dataStr = <<e>>)
  BY DEF ReaderInv, ParserInv
<1>4. ASSUME At + 1 = 3 * e - 2 PROVE dataStr = <<>> /\ evType = "message"
  BY <1>1, <1>2, <1>3, <1>4
<1>5. ASSUME At + 1 = 3 * e - 1 PROVE dataStr = <<>> /\ evType \in {"message", Type(e)}
  <2>1. dataStr = <<>>  BY <1>1, <1>2, <1>3, <1>5
  <2>2. \A d \in Events : At = 3 * d - 2 => d = e  BY <1>1, <1>2, <1>5
  <2> QED  BY <1>3, <2>1, <2>2
<1>6. ASSUME At + 1 = 3 * e
      PROVE  \/ dataStr = <<e>> /\ evType \in {"message", Type(e)}
             \/ dataStr = <<>> /\ evType = "message" /\ e \in cut
  <2>1. \A d \in Events : At = 3 * d - 1 => d = e  BY <1>1, <1>2, <1>6
  <2>2. \A d \in Events : At # 3 * d - 2  BY <1>1, <1>2, <1>6
  <2>3. At = 3 * e - 1  BY <1>1, <1>2, <1>6
  <2>4. CASE dataStr = <<>>  BY <1>3, <2>2, <2>3, <2>4
  <2>5. CASE dataStr # <<>>  BY <1>3, <2>1, <2>5
  <2> QED  BY <2>4, <2>5
<1> QED  BY <1>4, <1>5, <1>6

\* The line that names the type of an event.
LEMMA EventLineKeeps ==
  ASSUME TypeOK, ReaderInv, EventLine
  PROVE  TypeOK' /\ ReaderInv'
<1> DEFINE e == Head(lines).of
<1>1. /\ rpc = "lines" /\ lines # <<>> /\ Head(lines).kind = "event:" /\ lines' = Tail(lines)
      /\ evType' = Type(e)
      /\ UNCHANGED <<sent, conn, lineEnd, wire, rpc, dataStr, shown, cut>>
  BY DEF EventLine, AtLine, server
<1>2. /\ Head(lines) \in Lines /\ Pos(Head(lines)) = At + 1 /\ lines' \in Seq(Lines)
      /\ Taken' = Taken /\ At' = At + 1
      /\ \A i \in 1..Len(lines') : Pos(lines'[i]) = At' + i
      /\ \A i \in 1..Len(wire') : Pos(wire'[i]) = Taken' + i
  BY <1>1, HeadIsNext DEF ReaderInv, server
<1>3. e \in Events /\ e \in Nat /\ At + 1 = 3 * e - 2 /\ At \in Nat /\ Taken \in Nat
  BY <1>1, <1>2, PosTells DEF ReaderInv, LinesInv
<1> HIDE DEF e
<1>4. Type(e) \in {"event", "heartbeat", "session.ended"}  BY <1>3, TypeIs
<1>5. TypeOK'  BY <1>1, <1>2, <1>4 DEF TypeOK
<1>6. LinesInv' /\ CutInv'
  BY <1>1, <1>2, <1>3 DEF ReaderInv, LinesInv, CutInv
<1>7. \A d \in Events : d \in Nat  BY StreamAssumption DEF Events
<1>8. ParserInv'
  <2> SUFFICES ASSUME lineEnd = "lf"
               PROVE  dataStr = <<>> /\ \A d \in Events : At' = 3 * d - 2 => d = e
                      /\ At' # 3 * d - 1
    BY <1>1, <1>2, <1>3 DEF ParserInv
  <2>1. dataStr = <<>>  BY <1>3, Within
  <2> QED  BY <1>2, <1>3, <1>7, <2>1
<1>9. LogInv'
  <2>1. \A d \in Events : 3 * d <= At' <=> 3 * d <= At  BY <1>2, <1>3, <1>7
  <2> QED  BY <1>1, <2>1 DEF ReaderInv, LogInv, Tells
<1> QED  BY <1>5, <1>6, <1>8, <1>9 DEF ReaderInv

\* The line that holds its data.
LEMMA DataLineKeeps ==
  ASSUME TypeOK, ReaderInv, DataLine
  PROVE  TypeOK' /\ ReaderInv'
<1> DEFINE e == Head(lines).of
<1>1. /\ rpc = "lines" /\ lines # <<>> /\ Head(lines).kind = "data:" /\ lines' = Tail(lines)
      /\ dataStr' = Append(dataStr, e)
      /\ UNCHANGED <<sent, conn, lineEnd, wire, rpc, evType, shown, cut>>
  BY DEF DataLine, AtLine, server
<1>2. /\ Head(lines) \in Lines /\ Pos(Head(lines)) = At + 1 /\ lines' \in Seq(Lines)
      /\ Taken' = Taken /\ At' = At + 1
      /\ \A i \in 1..Len(lines') : Pos(lines'[i]) = At' + i
      /\ \A i \in 1..Len(wire') : Pos(wire'[i]) = Taken' + i
  BY <1>1, HeadIsNext DEF ReaderInv, server
<1>3. e \in Events /\ e \in Nat /\ At + 1 = 3 * e - 1 /\ At \in Nat /\ Taken \in Nat
  BY <1>1, <1>2, PosTells DEF ReaderInv, LinesInv
<1> HIDE DEF e
<1>4. dataStr' \in Seq(Events)  BY <1>1, <1>3, AppendProperties DEF TypeOK
<1>5. TypeOK'  BY <1>1, <1>2, <1>4 DEF TypeOK
<1>6. LinesInv' /\ CutInv'
  BY <1>1, <1>2, <1>3 DEF ReaderInv, LinesInv, CutInv
<1>7. \A d \in Events : d \in Nat  BY StreamAssumption DEF Events
<1>8. ParserInv'
  <2> SUFFICES ASSUME lineEnd = "lf" PROVE ParserInv'
    BY <1>1 DEF ParserInv
  <2>1. dataStr = <<>> /\ evType \in {"message", Type(e)}  BY <1>3, Within
  <2>2. dataStr' = <<e>> /\ dataStr' # <<>>  BY <1>1, <2>1
  <2>3. At' = 3 * e - 1 /\ \A d \in Events : At' # 3 * d - 2 /\ (At' = 3 * d - 1 => d = e)
    BY <1>2, <1>3, <1>7
  <2>4. e \notin cut => evType = Type(e)
    <3>1. At = 3 * e - 2  BY <1>3
    <3> QED  BY <1>3, <3>1 DEF ReaderInv, ParserInv
  <2> QED  BY <1>1, <1>3, <2>1, <2>2, <2>3, <2>4 DEF ParserInv
<1>9. LogInv'
  <2>1. \A d \in Events : 3 * d <= At' <=> 3 * d <= At  BY <1>2, <1>3, <1>7
  <2> QED  BY <1>1, <2>1 DEF ReaderInv, LogInv, Tells
<1> QED  BY <1>5, <1>6, <1>8, <1>9 DEF ReaderInv

\* An empty line that ends no event: the data were in an earlier chunk.
LEMMA BlankKeeps ==
  ASSUME TypeOK, ReaderInv, BlankIgnored
  PROVE  TypeOK' /\ ReaderInv'
<1> DEFINE e == Head(lines).of
<1>1. /\ rpc = "lines" /\ lines # <<>> /\ Head(lines).kind = "blank" /\ lines' = Tail(lines)
      /\ lineEnd = "crlf" \/ dataStr = <<>>
      /\ UNCHANGED <<sent, conn, lineEnd, wire, rpc, evType, dataStr, shown, cut>>
  BY DEF BlankIgnored, AtLine, server
<1>2. /\ Head(lines) \in Lines /\ Pos(Head(lines)) = At + 1 /\ lines' \in Seq(Lines)
      /\ Taken' = Taken /\ At' = At + 1
      /\ \A i \in 1..Len(lines') : Pos(lines'[i]) = At' + i
      /\ \A i \in 1..Len(wire') : Pos(wire'[i]) = Taken' + i
  BY <1>1, HeadIsNext DEF ReaderInv, server
<1>3. e \in Events /\ e \in Nat /\ At + 1 = 3 * e /\ At \in Nat /\ Taken \in Nat
  BY <1>1, <1>2, PosTells DEF ReaderInv, LinesInv
<1> HIDE DEF e
<1>4. TypeOK'  BY <1>1, <1>2 DEF TypeOK
<1>5. LinesInv' /\ CutInv'
  BY <1>1, <1>2, <1>3 DEF ReaderInv, LinesInv, CutInv
<1>6. \A d \in Events : d \in Nat  BY StreamAssumption DEF Events
<1>7. \A d \in Events : /\ At' # 3 * d - 2 /\ At' # 3 * d - 1
                        /\ 3 * d <= At' => d = e \/ 3 * d <= At
                        /\ 3 * d <= At => 3 * d <= At'
  BY <1>2, <1>3, <1>6
<1>8. lineEnd = "lf" => dataStr = <<>> /\ evType = "message" /\ e \in cut
  <2> SUFFICES ASSUME lineEnd = "lf" PROVE dataStr = <<>> /\ evType = "message" /\ e \in cut
    OBVIOUS
  <2>1. dataStr = <<>>  BY <1>1
  <2>2. dataStr # <<e>>  BY <2>1
  <2> QED  BY <1>3, <2>1, <2>2, Within
<1>9. ParserInv'  BY <1>1, <1>7, <1>8 DEF ParserInv
<1>10. LogInv'  BY <1>1, <1>7, <1>8 DEF ReaderInv, LogInv, Tells
<1> QED  BY <1>4, <1>5, <1>9, <1>10 DEF ReaderInv

\* An empty line that ends an event: it goes to the log, unless it is a
\* heartbeat, and the event that follows begins afresh.
LEMMA YieldKeeps ==
  ASSUME TypeOK, ReaderInv, Yield
  PROVE  TypeOK' /\ ReaderInv'
<1> DEFINE e == Head(lines).of
<1>1. /\ rpc = "lines" /\ lines # <<>> /\ Head(lines).kind = "blank" /\ lines' = Tail(lines)
      /\ lineEnd = "lf" /\ dataStr # <<>>
      /\ evType' = "message" /\ dataStr' = <<>> /\ rpc' \in {"lines", "returned"}
      /\ shown' = IF evType = "heartbeat" THEN shown
                  ELSE Append(shown, [type |-> evType, data |-> dataStr])
      /\ UNCHANGED <<sent, conn, lineEnd, wire, cut>>
  BY DEF Yield, Show, AtLine, server
<1>2. /\ Head(lines) \in Lines /\ Pos(Head(lines)) = At + 1 /\ lines' \in Seq(Lines)
      /\ Taken' = Taken /\ At' = At + 1
      /\ \A i \in 1..Len(lines') : Pos(lines'[i]) = At' + i
      /\ \A i \in 1..Len(wire') : Pos(wire'[i]) = Taken' + i
  BY <1>1, HeadIsNext DEF ReaderInv, server
<1>3. e \in Events /\ e \in Nat /\ At + 1 = 3 * e /\ At \in Nat /\ Taken \in Nat
  BY <1>1, <1>2, PosTells DEF ReaderInv, LinesInv
<1> HIDE DEF e
<1>4. \A d \in Events : d \in Nat  BY StreamAssumption DEF Events
<1>5. \A d \in Events : /\ At' # 3 * d - 2 /\ At' # 3 * d - 1
                        /\ 3 * d <= At' => d = e \/ 3 * d <= At
                        /\ 3 * d <= At => 3 * d <= At' /\ d < e
  BY <1>2, <1>3, <1>4
<1>6. dataStr = <<e>> /\ evType \in {"message", Type(e)}  BY <1>1, <1>3, Within
<1>7. e \notin cut => evType = Type(e)
  <2>1. At = 3 * e - 1  BY <1>3
  <2> QED  BY <1>1, <1>3, <2>1 DEF ReaderInv, ParserInv
<1>8. Type(e) \in {"event", "heartbeat", "session.ended"}  BY <1>3, TypeIs
<1> DEFINE new == [type |-> evType, data |-> <<e>>]
<1>9. new \in Entries /\ new.data[1] = e /\ <<e>> \in Seq(Events) \ {<<>>}
  BY <1>3, <1>6, <1>8 DEF Entries, Types
<1>10. shown \in Seq(Entries) /\ Len(shown) \in Nat
  BY LenProperties DEF ReaderInv, LogInv
<1>11. CASE evType = "heartbeat"
  <2>1. shown' = shown  BY <1>1, <1>11
  <2>2. TypeOK'  BY <1>1, <1>2, <2>1 DEF TypeOK
  <2>3. LinesInv' /\ CutInv'
    BY <1>1, <1>2, <1>3 DEF ReaderInv, LinesInv, CutInv
  <2>4. ParserInv'  BY <1>1, <1>5 DEF ParserInv
  <2>5. LogInv'  BY <1>1, <1>5, <1>7, <1>11, <2>1 DEF ReaderInv, LogInv, Tells
  <2> QED  BY <2>2, <2>3, <2>4, <2>5 DEF ReaderInv
<1>12. CASE evType # "heartbeat"
  <2> HIDE DEF new
  <2>1. /\ shown' = Append(shown, new)
        /\ shown' \in Seq(Entries) /\ Len(shown') = Len(shown) + 1
        /\ \A i \in 1..Len(shown) : shown'[i] = shown[i]
        /\ shown'[Len(shown) + 1] = new
    <3>1. shown' = Append(shown, new)  BY <1>1, <1>6, <1>12 DEF new
    <3> QED  BY <1>9, <1>10, <3>1, AppendProperties
  <2>2. \A i \in 1..Len(shown') : i \in 1..Len(shown) \/ i = Len(shown) + 1
    BY <1>10, <2>1
  <2>3. new.type = evType /\ new.data = <<e>>  BY DEF new
  <2>4. TypeOK'  BY <1>1, <1>2, <1>9, <2>1, <2>2, <2>3 DEF TypeOK
  <2>5. LinesInv' /\ CutInv'
    BY <1>1, <1>2, <1>3 DEF ReaderInv, LinesInv, CutInv
  <2>6. ParserInv'  BY <1>1, <1>5 DEF ParserInv
  <2>7. \A i \in 1..Len(shown) : \E d \in Events : 3 * d <= At /\ Tells(shown[i], d)
    BY DEF ReaderInv, LogInv
  <2>8. \A i \in 1..Len(shown') : \E d \in Events : 3 * d <= At' /\ Tells(shown'[i], d)
    <3> SUFFICES ASSUME NEW i \in 1..Len(shown')
                 PROVE  \E d \in Events : 3 * d <= At' /\ Tells(shown'[i], d)
      OBVIOUS
    <3>1. CASE i \in 1..Len(shown)
      <4>1. PICK d \in Events : 3 * d <= At /\ Tells(shown[i], d)  BY <2>7, <3>1
      <4> QED  BY <1>5, <2>1, <3>1, <4>1
    <3>2. CASE i = Len(shown) + 1
      <4>1. 3 * e <= At'  BY <1>2, <1>3
      <4>2. Tells(new, e)  BY <1>6, <1>7, <2>3 DEF Tells
      <4> QED  BY <1>3, <2>1, <3>2, <4>1, <4>2
    <3> QED  BY <2>2, <3>1, <3>2
  <2>9. \A i, j \in 1..Len(shown') : i < j => shown'[i].data[1] < shown'[j].data[1]
    <3> SUFFICES ASSUME NEW i \in 1..Len(shown'), NEW j \in 1..Len(shown'), i < j
                 PROVE  shown'[i].data[1] < shown'[j].data[1]
      OBVIOUS
    <3>1. i \in 1..Len(shown)  BY <1>10, <2>1
    <3>2. CASE j \in 1..Len(shown)  BY <2>1, <3>1, <3>2 DEF ReaderInv, LogInv
    <3>3. CASE j = Len(shown) + 1
      <4>1. PICK d \in Events : shown[i].data = <<d>> /\ 3 * d <= At  BY <2>7, <3>1 DEF Tells
      <4>2. shown'[i].data[1] = d  BY <2>1, <3>1, <4>1
      <4>3. shown'[j].data[1] = e  BY <2>1, <2>3, <3>3
      <4> QED  BY <1>5, <4>1, <4>2, <4>3
    <3> QED  BY <2>2, <3>2, <3>3
  <2>10. LogInv'
    <3>1. cut' = cut /\ lineEnd' = lineEnd  BY <1>1
    <3> HIDE DEF new
    <3> QED  BY <1>1, <2>1, <2>8, <2>9, <3>1 DEF LogInv, Tells
  <2> QED  BY <2>4, <2>5, <2>6, <2>10 DEF ReaderInv
<1> QED  BY <1>11, <1>12

\* Every step of server, network and reader keeps it.
LEMMA ReaderStep == TypeOK /\ ReaderInv /\ [Next]_vars => TypeOK' /\ ReaderInv'
<1> SUFFICES ASSUME TypeOK, ReaderInv, [Next]_vars PROVE TypeOK' /\ ReaderInv'
  OBVIOUS
<1>1. CASE UNCHANGED vars
  <2>1. UNCHANGED <<sent, conn, lineEnd, wire, rpc, lines, evType, dataStr, shown, cut>>
    BY <1>1 DEF vars, server
  <2>2. Taken' = Taken /\ At' = At  BY <2>1 DEF Taken, At
  <2>3. TypeOK'  BY <2>1 DEF TypeOK
  <2> QED  BY <2>1, <2>2, <2>3 DEF ReaderInv, LinesInv, CutInv, ParserInv, LogInv, Tells
<1> QED
  BY <1>1, SendKeeps, EndsKeep, ReadKeeps, EventLineKeeps, DataLineKeeps, BlankKeeps, YieldKeeps
     DEF Next, Serve, Reader, Over

\* The types, and the inductive invariant of lines, parser and log.
THEOREM ReaderInvariant == Spec => [](TypeOK /\ ReaderInv)
  BY ReaderInit, ReaderStep, PTL DEF Spec

\* Every variable of the reader keeps its type.
THEOREM ReaderTypes == Spec => []TypeOK
  BY ReaderInvariant, PTL

-----------------------------------------------------------------------------
(* The property.                                                           *)

\* Whatever the chunks and the line ends, the log shows events under their own
\* type, or without it where a chunk ended within them, in order and once each.
THEOREM LogTellsTruth == Spec => []LogIsTrue
<1>1. ReaderInv => LogIsTrue
  BY DEF ReaderInv, LogInv, Tells, LogIsTrue
<1> QED  BY <1>1, ReaderInvariant, PTL
=============================================================================
