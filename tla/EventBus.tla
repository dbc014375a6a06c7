------------------------------ MODULE EventBus ------------------------------
(***************************************************************************)
(* events.py and the SSE endpoint of api/server.py: the controller thread  *)
(* emits events, the coroutines of the API's event loop subscribe, stream  *)
(* and unsubscribe.  The asyncio lock keeps coroutines apart; nothing keeps*)
(* the emitting thread apart from them, so its steps interleave with those *)
(* of the coroutine the event loop is executing.  Nor does a put from that  *)
(* thread wake an event loop that waits with nothing to do: asyncio.Queue   *)
(* is not made for threads, and only the timeout of a coroutine that waits  *)
(* for its queue, or a client, makes the loop look again.                   *)
(*                                                                         *)
(* Events are the numbers 1..NumEvents in the order they are emitted; the  *)
(* last one is session.ended.                                              *)
(***************************************************************************)
EXTENDS Naturals, Sequences, SequencesExt

CONSTANTS
  Clients,       \* SSE requests
  NoClient,
  NumEvents,     \* bound: events of the session
  MaxQueue,      \* EventBus.max_queue
  MaySubscribe,  \* the numbers of events emitted at which a request may arrive
  Disconnects    \* clients may close the connection early

ASSUME BusAssumption ==
  /\ NoClient \notin Clients
  /\ NumEvents \in Nat \ {0}
  /\ MaxQueue \in Nat \ {0}
  /\ MaySubscribe \subseteq 0..NumEvents
  /\ Disconnects \in BOOLEAN

Events == 1..NumEvents
\* The generator stops after it.
Ended == NumEvents

VARIABLES
  epc,      \* the emitting thread: idle, each (in the for loop), put, drop, reput
  sent,     \* events whose emit() has begun
  idx,      \* position of the for loop in _subscribers
  target,   \* the subscriber the for loop is serving
  history,  \* _history
  subs,     \* _subscribers, named by their clients
  lock,     \* holder of _lock
  running,  \* the coroutine the event loop is executing
  asleep,   \* the event loop found nothing to do and waits in its selector
  cpc,      \* the request: out, replay, blocked, stream, leaving, gone
  source,   \* the list the replay iterates over, <<>> while it is _history itself
  pos,      \* next position of the replay
  queue,    \* the subscriber's asyncio.Queue
  got,      \* what the client received
  overran,  \* history variable: subscribers whose queue dropped an event
  raced     \* history variable: subscribers whose replay an emit() overlapped

emitter == <<epc, sent, idx, target>>
bus     == <<history, subs, lock>>
loop    == <<running, asleep>>
client  == <<cpc, source, pos, got>>
past    == <<overran, raced>>
vars    == <<emitter, bus, loop, client, queue, past>>

TypeOK ==
  /\ epc \in {"idle", "each", "put", "drop", "reput"}
  /\ sent \in 0..NumEvents
  /\ idx \in Nat
  /\ target \in Clients \cup {NoClient}
  /\ history \in Seq(Events) /\ Len(history) <= MaxQueue
  /\ subs \in Seq(Clients)
  /\ lock \in Clients \cup {NoClient}
  /\ running \in Clients \cup {NoClient}
  /\ cpc \in [Clients -> {"out", "replay", "blocked", "stream", "leaving", "gone"}]
  /\ source \in [Clients -> Seq(Events)]
  /\ pos \in [Clients -> Nat]
  /\ queue \in [Clients -> Seq(Events)]
  /\ \A c \in Clients : Len(queue[c]) <= MaxQueue
  /\ got \in [Clients -> Seq(Events)]
  /\ overran \subseteq Clients
  /\ raced \subseteq Clients
  /\ asleep \in BOOLEAN

Init ==
  /\ epc = "idle"
  /\ sent = 0
  /\ idx = 1
  /\ target = NoClient
  /\ history = <<>>
  /\ subs = <<>>
  /\ lock = NoClient
  /\ running = NoClient
  /\ cpc = [c \in Clients |-> "out"]
  /\ source = [c \in Clients |-> <<>>]
  /\ pos = [c \in Clients |-> 1]
  /\ queue = [c \in Clients |-> <<>>]
  /\ got = [c \in Clients |-> <<>>]
  /\ overran = {}
  /\ raced = {}
  /\ asleep = FALSE

-----------------------------------------------------------------------------
(* EventBus.emit, on the controller thread.                                *)

\* Mutant: the history may grow one too long.
LastNOff(s, n) == IF Len(s) <= n + 1 THEN s ELSE SubSeq(s, Len(s) - n, Len(s))

LastN(s, n) == IF Len(s) <= n THEN s ELSE SubSeq(s, Len(s) - n + 1, Len(s))

Iterating(c) == cpc[c] \in {"replay", "blocked"}

\* Trimming rebinds _history to a new list; a replay under way goes on over
\* the old one, which nobody appends to any more.
EmitAppend ==
  /\ epc = "idle"
  /\ sent < NumEvents
  /\ sent' = sent + 1
  /\ LET grown == Append(history, sent + 1) IN
       /\ history' = LastN(grown, MaxQueue)
       /\ source' = [c \in Clients |->
            IF Iterating(c) /\ source[c] = <<>> /\ Len(grown) > MaxQueue
              THEN grown ELSE source[c]]
  /\ raced' = raced \cup {c \in Clients : Iterating(c)}
  /\ idx' = 1
  /\ epc' = "each"
  /\ UNCHANGED <<target, subs, lock, loop, cpc, pos, got, queue, overran>>

\* The list iterator keeps a position, whatever happens to the list meanwhile.
NextSubscriber ==
  /\ epc = "each"
  /\ idx <= Len(subs)
  /\ target' = subs[idx]
  /\ idx' = idx + 1
  /\ epc' = "put"
  /\ UNCHANGED <<sent, bus, loop, client, queue, past>>

EmitReturns ==
  /\ epc = "each"
  /\ idx > Len(subs)
  /\ epc' = "idle"
  /\ target' = NoClient
  /\ UNCHANGED <<sent, idx, bus, loop, client, queue, past>>

Full(c) == Len(queue[c]) >= MaxQueue
Put(c, e) == queue' = [queue EXCEPT ![c] = Append(@, e)]

\* The event loop is not told: it sees the queue the next time it looks.
PutNowait ==
  /\ epc = "put"
  /\ IF Full(target)
       THEN epc' = "drop" /\ UNCHANGED queue
       ELSE epc' = "each" /\ Put(target, sent)
  /\ UNCHANGED <<sent, idx, target, bus, loop, client, past>>

DropOldest ==
  /\ epc = "drop"
  /\ IF queue[target] = <<>>
       THEN UNCHANGED <<queue, overran>>
       ELSE /\ queue' = [queue EXCEPT ![target] = Tail(@)]
            /\ overran' = overran \cup {target}
  /\ epc' = "reput"
  /\ UNCHANGED <<sent, idx, target, bus, loop, client, raced>>

\* The second put_nowait may find the queue full again; its error is swallowed.
PutAgain ==
  /\ epc = "reput"
  /\ IF Full(target) THEN UNCHANGED queue ELSE Put(target, sent)
  /\ overran' = overran \cup {target}
  /\ epc' = "each"
  /\ UNCHANGED <<sent, idx, target, bus, loop, client, raced>>

-----------------------------------------------------------------------------
(* EventBus.subscribe and the generator of session_events.                 *)

\* The requests are served while the session is registered, that is until
\* the thread that emits session.ended is done.
Subscribe(c) ==
  /\ cpc[c] = "out"
  /\ running = NoClient
  /\ lock = NoClient
  /\ sent \in MaySubscribe
  /\ ~(sent = NumEvents /\ epc = "idle")
  /\ running' = c
  /\ asleep' = FALSE
  /\ lock' = c
  /\ subs' = Append(subs, c)
  /\ cpc' = [cpc EXCEPT ![c] = "replay"]
  /\ raced' = IF epc = "idle" THEN raced ELSE raced \cup {c}
  /\ UNCHANGED <<emitter, history, source, pos, got, queue, overran>>

\* What a suspended coroutine waits for.
MayResume(c)  == cpc[c] = "blocked" /\ ~Full(c)
MayDeliver(c) == cpc[c] = "stream" /\ queue[c] # <<>>
MayLeave(c)   == cpc[c] = "leaving" /\ lock = NoClient

Replayed(c) == IF source[c] = <<>> THEN history ELSE source[c]
Replaying(c) == cpc[c] = "replay" /\ running = c

\* `await q.put(ev)' does not suspend while the queue has room.
ReplayPut(c) ==
  /\ Replaying(c)
  /\ pos[c] <= Len(Replayed(c))
  /\ ~Full(c)
  /\ Put(c, Replayed(c)[pos[c]])
  /\ pos' = [pos EXCEPT ![c] = @ + 1]
  /\ UNCHANGED <<emitter, bus, loop, cpc, source, got, past>>

\* A full queue suspends the coroutine, with the lock held.
ReplayBlocks(c) ==
  /\ Replaying(c)
  /\ pos[c] <= Len(Replayed(c))
  /\ Full(c)
  /\ running' = NoClient
  /\ cpc' = [cpc EXCEPT ![c] = "blocked"]
  /\ UNCHANGED <<emitter, bus, asleep, source, pos, got, queue, past>>

ReplayResumes(c) ==
  /\ MayResume(c)
  /\ running = NoClient /\ ~asleep
  /\ running' = c
  /\ cpc' = [cpc EXCEPT ![c] = "replay"]
  /\ UNCHANGED <<emitter, bus, asleep, source, pos, got, queue, past>>

\* Mutant: the last event of the history is left out.
ReplayDoneEarly(c) ==
  /\ Replaying(c)
  /\ pos[c] >= Len(Replayed(c))
  /\ lock' = NoClient
  /\ running' = NoClient
  /\ cpc' = [cpc EXCEPT ![c] = "stream"]
  /\ UNCHANGED <<emitter, history, subs, asleep, source, pos, got, queue, past>>

ReplayDone(c) ==
  /\ Replaying(c)
  /\ pos[c] > Len(Replayed(c))
  /\ lock' = NoClient
  /\ running' = NoClient
  /\ cpc' = [cpc EXCEPT ![c] = "stream"]
  /\ UNCHANGED <<emitter, history, subs, asleep, source, pos, got, queue, past>>

\* One turn of the generator; it breaks once session.ended is through.
Deliver(c) ==
  /\ MayDeliver(c)
  /\ running = NoClient /\ ~asleep
  /\ got' = [got EXCEPT ![c] = Append(@, Head(queue[c]))]
  /\ queue' = [queue EXCEPT ![c] = Tail(@)]
  /\ cpc' = [cpc EXCEPT ![c] = IF Head(queue[c]) = Ended THEN "leaving" ELSE @]
  /\ UNCHANGED <<emitter, bus, loop, source, pos, past>>

Disconnect(c) ==
  /\ Disconnects
  /\ cpc[c] = "stream"
  /\ running = NoClient
  /\ cpc' = [cpc EXCEPT ![c] = "leaving"]
  /\ asleep' = FALSE
  /\ UNCHANGED <<emitter, bus, running, source, pos, got, queue, past>>

Unsubscribe(c) ==
  /\ MayLeave(c)
  /\ running = NoClient /\ ~asleep
  /\ subs' = RemoveFirst(subs, c)
  /\ cpc' = [cpc EXCEPT ![c] = "gone"]
  /\ UNCHANGED <<emitter, history, lock, loop, source, pos, got, queue, past>>

\* The event loop has run every coroutine as far as it goes.
Sleep ==
  /\ running = NoClient /\ ~asleep
  /\ \A c \in Clients : ~MayResume(c) /\ ~MayDeliver(c) /\ ~MayLeave(c)
  /\ asleep' = TRUE
  /\ UNCHANGED <<emitter, bus, running, client, queue, past>>

\* Mutant: the generator waits for its queue and for nothing else.
HeartbeatNever(c) ==
  /\ asleep
  /\ cpc[c] = "leaving"
  /\ asleep' = FALSE
  /\ UNCHANGED <<emitter, bus, running, client, queue, past>>

\* wait_for(queue.get(), timeout=15): when the time is up the loop looks at
\* what has become ready; a heartbeat is sent if the queue is empty even so.
Heartbeat(c) ==
  /\ asleep
  /\ cpc[c] = "stream"
  /\ asleep' = FALSE
  /\ UNCHANGED <<emitter, bus, running, client, queue, past>>

-----------------------------------------------------------------------------
Emit == EmitAppend \/ NextSubscriber \/ EmitReturns \/ PutNowait \/ DropOldest \/ PutAgain

Serve(c) ==
  \/ ReplayPut(c) \/ ReplayBlocks(c) \/ ReplayResumes(c) \/ ReplayDone(c)
  \/ Deliver(c) \/ Heartbeat(c) \/ Unsubscribe(c)

\* Every event is out and no request is being served: nothing is left to do.
Quiet ==
  /\ sent = NumEvents /\ epc = "idle"
  /\ \A c \in Clients : cpc[c] \in {"out", "gone"}
  /\ UNCHANGED vars

Next == Emit \/ Sleep \/ Quiet \/ \E c \in Clients : Subscribe(c) \/ Serve(c) \/ Disconnect(c)

Spec == Init /\ [][Next]_vars

\* The thread runs on, and the event loop lets every ready coroutine run.
FairSpec == Spec /\ WF_vars(Emit) /\ \A c \in Clients : WF_vars(Serve(c))

-----------------------------------------------------------------------------
(* Properties.                                                             *)

\* Events whose emit() has returned, as far back as the history reaches.
Emitted == {e \in Events : e > sent - MaxQueue
                           /\ e <= (IF epc = "idle" THEN sent ELSE sent - 1)}

\* What the client has received or will when it goes on reading, in that order.
Stream(c) ==
  got[c] \o queue[c] \o
  (IF Iterating(c) THEN SubSeq(Replayed(c), pos[c], Len(Replayed(c))) ELSE <<>>)

Subscribed(c) == cpc[c] \in {"replay", "blocked", "stream"}

\* Another client gave up its subscription: the position of a for loop that
\* is under way then skips a subscriber (events.py:54).
Shifted(c) == \E d \in Clients \ {c} : cpc[d] = "gone"

\* "Subscribers receive a copy via their queue" (events.py:47): whatever the
\* moment a request comes in, between history and live delivery no event falls
\* through, unless the queue overran or another client has unsubscribed; and
\* unless an emit() overlapped the replay, each event comes once and in the
\* order in which they happened, however many the queue had to drop.
SubscriberGetsCopy ==
  \A c \in Clients :
    /\ Subscribed(c) /\ c \notin overran /\ ~Shifted(c) => Emitted \subseteq Range(Stream(c))
    /\ c \notin raced => \A i, j \in 1..Len(Stream(c)) : i < j => Stream(c)[i] < Stream(c)[j]

\* Every stream comes to its end: session.ended reaches each client that is
\* streaming, unless its queue overran or another client has unsubscribed,
\* although emit() does not wake the event loop; and a connection that ends
\* gives its subscription back, unless a replay that waits for room holds the
\* lock.
StreamsClose ==
  \A c \in Clients :
    /\ cpc[c] = "stream" ~> (cpc[c] \in {"leaving", "gone"} \/ c \in overran \/ Shifted(c))
    /\ cpc[c] = "leaving" ~> (cpc[c] = "gone" \/ \E d \in Clients \ {c} : cpc[d] = "blocked")
=============================================================================
