------------------------------ MODULE SseReader ------------------------------
(***************************************************************************)
(* The live log of the VS Code extension: streamSessionEvents of api.ts    *)
(* cuts the body of GET /v1/sessions/{sid}/events into lines and lines     *)
(* into events, streamLog of extension.ts writes them to the output        *)
(* channel.  The network delivers the body in chunks that end anywhere;    *)
(* the unfinished last line of a chunk waits in `buffer' and counts here   *)
(* as not delivered yet.                                                   *)
(*                                                                         *)
(* Events are 1..NumEvents in the order of the server's generator, the     *)
(* last one is session.ended (EventBus says which of them a client gets).  *)
(***************************************************************************)
EXTENDS Naturals, Sequences

CONSTANTS
  NumEvents,     \* bound: events of the stream
  Heartbeats,    \* those of them the generator makes up while nothing happens
  LineEnds       \* how the SSE library of the server may end its lines: lf, crlf

ASSUME StreamAssumption ==
  /\ NumEvents \in Nat \ {0}
  /\ Heartbeats \subseteq 1..(NumEvents - 1)
  /\ LineEnds \subseteq {"lf", "crlf"}

Events == 1..NumEvents

Type(e) ==
  CASE e = NumEvents     -> "session.ended"
    [] e \in Heartbeats  -> "heartbeat"
    [] OTHER             -> "event"

Lines == [kind : {"event:", "data:", "blank"}, of : Events]

VARIABLES
  sent,     \* events the server has written
  conn,     \* open, closed by the server, broken
  lineEnd,  \* what the server ends its lines with
  wire,     \* lines the reader has not got yet
  rpc,      \* the reader: read, lines (in the for loop), returned, failed
  lines,    \* lines of the chunk still to be looked at
  evType,
  dataStr,  \* the events whose data lines were added to it
  shown,    \* what the output channel shows, one entry per event
  cut       \* history variable: events whose lines came in several chunks

server == <<sent, conn, lineEnd>>
vars   == <<server, wire, rpc, lines, evType, dataStr, shown, cut>>

TypeOK ==
  /\ sent \in 0..NumEvents
  /\ conn \in {"open", "closed", "broken"}
  /\ lineEnd \in LineEnds
  /\ wire \in Seq(Lines)
  /\ rpc \in {"read", "lines", "returned", "failed"}
  /\ lines \in Seq(Lines)
  /\ evType \in {"message", "event", "heartbeat", "session.ended"}
  /\ dataStr \in Seq(Events)
  /\ \A i \in 1..Len(shown) : shown[i].data \in Seq(Events) \ {<<>>}
  /\ cut \subseteq Events

Init ==
  /\ sent = 0
  /\ conn = "open"
  /\ lineEnd \in LineEnds
  /\ wire = <<>>
  /\ rpc = "read"
  /\ lines = <<>>
  /\ evType = "message"
  /\ dataStr = <<>>
  /\ shown = <<>>
  /\ cut = {}

-----------------------------------------------------------------------------
(* The server (api/server.py, session_events).                             *)

Send ==
  /\ conn = "open"
  /\ sent < NumEvents
  /\ sent' = sent + 1
  /\ wire' = wire \o [i \in 1..3 |-> [kind |-> <<"event:", "data:", "blank">>[i], of |-> sent + 1]]
  /\ UNCHANGED <<conn, lineEnd, rpc, lines, evType, dataStr, shown, cut>>

\* The generator breaks after session.ended.
Close ==
  /\ conn = "open"
  /\ sent = NumEvents
  /\ conn' = "closed"
  /\ UNCHANGED <<sent, lineEnd, wire, rpc, lines, evType, dataStr, shown, cut>>

\* The server dies, or the network between the two.
Break ==
  /\ conn = "open"
  /\ conn' = "broken"
  /\ UNCHANGED <<sent, lineEnd, wire, rpc, lines, evType, dataStr, shown, cut>>

-----------------------------------------------------------------------------
(* streamSessionEvents.                                                    *)

\* Events with lines on both sides of a chunk's end.
CutAfter(n) == {e \in Events : \E i \in 1..n, j \in (n + 1)..Len(wire) :
                                 wire[i].of = e /\ wire[j].of = e}

\* Mutant: the unfinished line at the end of a chunk is thrown away.
ReadDropping ==
  /\ rpc = "read"
  /\ \E n \in 1..Len(wire) :
       /\ lines' = SubSeq(wire, 1, n)
       /\ wire' = SubSeq(wire, n + 2, Len(wire))
       /\ cut' = cut \cup CutAfter(n)
  /\ evType' = "message" /\ dataStr' = <<>>
  /\ rpc' = "lines"
  /\ UNCHANGED <<server, shown>>

\* A chunk that completes n lines; what is known of an event begins anew.
Read ==
  /\ rpc = "read"
  /\ \E n \in 1..Len(wire) :
       /\ lines' = SubSeq(wire, 1, n)
       /\ wire' = SubSeq(wire, n + 1, Len(wire))
       /\ cut' = cut \cup CutAfter(n)
  /\ evType' = "message" /\ dataStr' = <<>>
  /\ rpc' = "lines"
  /\ UNCHANGED <<server, shown>>

\* Mutant: the loop goes on until session.ended has been shown.
ReadDoneEnded ==
  /\ rpc = "read"
  /\ conn = "closed" /\ wire = <<>>
  /\ rpc' = IF \E i \in 1..Len(shown) : shown[i].type = "session.ended" THEN "returned" ELSE "read"
  /\ UNCHANGED <<server, wire, lines, evType, dataStr, shown, cut>>

ReadDone ==
  /\ rpc = "read"
  /\ conn = "closed" /\ wire = <<>>
  /\ rpc' = "returned"
  /\ UNCHANGED <<server, wire, lines, evType, dataStr, shown, cut>>

\* reader.read() rejects, and streamLog shows a stream error.
ReadFails ==
  /\ rpc = "read"
  /\ conn = "broken"
  /\ rpc' = "failed"
  /\ UNCHANGED <<server, wire, lines, evType, dataStr, shown, cut>>

AtLine(kind) == rpc = "lines" /\ lines # <<>> /\ Head(lines).kind = kind /\ lines' = Tail(lines)

\* Mutant: the prefix of the line stays.
EventLineWhole ==
  /\ AtLine("event:")
  /\ evType' = Head(lines).kind
  /\ UNCHANGED <<server, wire, rpc, dataStr, shown, cut>>

EventLine ==
  /\ AtLine("event:")
  /\ evType' = Type(Head(lines).of)
  /\ UNCHANGED <<server, wire, rpc, dataStr, shown, cut>>

DataLine ==
  /\ AtLine("data:")
  /\ dataStr' = Append(dataStr, Head(lines).of)
  /\ UNCHANGED <<server, wire, rpc, evType, shown, cut>>

\* A line that a carriage return ends is not the empty string; before there
\* is data an empty line means nothing.
BlankIgnored ==
  /\ AtLine("blank")
  /\ lineEnd = "crlf" \/ dataStr = <<>>
  /\ UNCHANGED <<server, wire, rpc, evType, dataStr, shown, cut>>

\* streamLog: heartbeats are passed over, session.ended leaves the loop.
Show(type, data) ==
  /\ shown' = IF type = "heartbeat" THEN shown
              ELSE Append(shown, [type |-> type, data |-> data])
  /\ rpc' = IF type = "session.ended" THEN "returned" ELSE "lines"

\* Mutant: the data of one event are still there with the next.
YieldKeeping ==
  /\ AtLine("blank")
  /\ lineEnd = "lf" /\ dataStr # <<>>
  /\ Show(evType, dataStr)
  /\ evType' = "message"
  /\ UNCHANGED <<server, wire, dataStr, cut>>

Yield ==
  /\ AtLine("blank")
  /\ lineEnd = "lf" /\ dataStr # <<>>
  /\ Show(evType, dataStr)
  /\ evType' = "message" /\ dataStr' = <<>>
  /\ UNCHANGED <<server, wire, cut>>

ChunkDone ==
  /\ rpc = "lines"
  /\ lines = <<>>
  /\ rpc' = "read"
  /\ UNCHANGED <<server, wire, lines, evType, dataStr, shown, cut>>

-----------------------------------------------------------------------------
Serve  == Send \/ Close
Reader == Read \/ ReadDone \/ ReadFails \/ EventLine \/ DataLine \/ BlankIgnored \/ Yield \/ ChunkDone

Over == rpc \in {"returned", "failed"} /\ conn # "open" /\ UNCHANGED vars

Next == Serve \/ Break \/ Reader \/ Over

Spec == Init /\ [][Next]_vars

\* The session comes to its end (LoopController), what is written arrives,
\* and the extension host runs on.
FairSpec == Spec /\ WF_vars(Serve) /\ WF_vars(Reader)

-----------------------------------------------------------------------------
(* Properties.                                                             *)

\* What the log shows is true, whatever the chunks and the line ends: every
\* entry is one event, the entries are in the order of the server, each event
\* once, and an event has lost its type only where a chunk ended within it.
\* What the log leaves out is another matter.
LogIsTrue ==
  /\ \A i \in 1..Len(shown) : \E e \in Events :
       /\ shown[i].data = <<e>>
       /\ shown[i].type = Type(e) \/ (shown[i].type = "message" /\ e \in cut)
  /\ \A i, j \in 1..Len(shown) : i < j => shown[i].data[1] < shown[j].data[1]

\* Events whose last line the reader is past.
Seen == {e \in Events : e <= sent /\ \A i \in 1..Len(lines \o wire) : (lines \o wire)[i].of # e}

\* "Output channel shows live SSE events" (vscode-extension/README.md:22): what
\* the reader is past is in the log, heartbeats apart.  An event is lost where
\* a chunk ends between its data and the empty line after them, and every one
\* is when lines end in CR LF, for then no line is empty.
EventsShown ==
  \A e \in Seen : Type(e) # "heartbeat" => \E i \in 1..Len(shown) : shown[i].data = <<e>>

\* However the stream is cut and wherever session.ended is lost, the log is
\* closed when the connection is.
LogCloses == <>(rpc \in {"returned", "failed"})
=============================================================================
