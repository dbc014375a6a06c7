---------------------------- MODULE SessionRunner ----------------------------
(***************************************************************************)
(* api/runner.py and the endpoints of api/server.py that use it: a request *)
(* handler starts a session on a worker thread and registers it, the thread*)
(* removes it when the session is over, and stop requests look it up.      *)
(* What the loop itself does is in LoopController; here it runs, and ends  *)
(* by itself or because a stop was requested.  The registry lives in the   *)
(* memory of the API process, the session rows do not.  `loopcoder run'    *)
(* (cli.py) runs the same loop in a process of its own, which writes to    *)
(* the same database.  What model server and what database a session uses  *)
(* is settled when it starts (Settings).                                   *)
(***************************************************************************)
EXTENDS FiniteSets, Settings

CONSTANTS
  Sessions,     \* requests for a session, and the sessions they start
  Files,        \* what loopcoder.yaml may say
  Requests,     \* requests: plan.llm.model, and config_overrides
  MayRestart,   \* the API process may be killed and started again
  SlowStart     \* five seconds may pass before the thread has its session id

ASSUME FlagsAssumption == MayRestart \in BOOLEAN /\ SlowStart \in BOOLEAN
\* A key of the table is a string, and None is not.
ASSUME FilesAssumption == \A f \in Files : None \notin DOMAIN Validated(f).llm.models

NoRequest == [model |-> None, overrides |-> [k \in {} |-> None]]

VARIABLES
  file,       \* loopcoder.yaml, as the server and the command line read it
  proc,       \* the process of the session: none, api, cli
  asked,      \* the request
  route,      \* the LlmClient of the session: base_url and model
  db,         \* the file of its SessionStore
  handler,    \* the POST request: none, poll, register, reply, ok, error
  thread,     \* _run: none, opening, running, closing, leaving, gone
  sid,        \* controller.session_id is set
  status,     \* sessions.status in the store: none, running, final
  registry,   \* _runners
  stopFlag,   \* _stop_requested
  restarted,  \* history variable: the API process has been restarted
  unclosed    \* history variable: sessions whose row the store would not close

settled == <<file, proc, asked, route, db>>
past    == <<restarted, unclosed>>
vars    == <<settled, handler, thread, sid, status, registry, stopFlag, past>>

TypeOK ==
  /\ file \in Files
  /\ proc \in [Sessions -> {"none", "api", "cli"}]
  /\ asked \in [Sessions -> Requests \cup {NoRequest}]
  /\ DOMAIN route = Sessions /\ DOMAIN db = Sessions
  /\ handler \in [Sessions -> {"none", "poll", "register", "reply", "ok", "error"}]
  /\ thread \in [Sessions -> {"none", "opening", "running", "closing", "leaving", "gone"}]
  /\ sid \in [Sessions -> BOOLEAN]
  /\ status \in [Sessions -> {"none", "running", "final"}]
  /\ registry \subseteq Sessions
  /\ stopFlag \in [Sessions -> BOOLEAN]
  /\ restarted \in BOOLEAN
  /\ unclosed \subseteq Sessions

Init ==
  /\ file \in Files
  /\ proc = [s \in Sessions |-> "none"]
  /\ asked = [s \in Sessions |-> NoRequest]
  /\ route = [s \in Sessions |-> None]
  /\ db = [s \in Sessions |-> None]
  /\ handler = [s \in Sessions |-> "none"]
  /\ thread = [s \in Sessions |-> "none"]
  /\ sid = [s \in Sessions |-> FALSE]
  /\ status = [s \in Sessions |-> "none"]
  /\ registry = {}
  /\ stopFlag = [s \in Sessions |-> FALSE]
  /\ restarted = FALSE
  /\ unclosed = {}

At(pc, s, from, to) == pc[s] = from /\ pc' = [pc EXCEPT ![s] = to]

-----------------------------------------------------------------------------
(* start_session, on the thread of the request.                            *)

\* The plan or the overrides do not validate, or the plan cannot be read.
RefusePlan(s) ==
  /\ proc[s] = "none"
  /\ At(handler, s, "none", "error")
  /\ UNCHANGED <<settled, thread, sid, status, registry, stopFlag, past>>

\* What a session runs with is fixed when it starts.
Settle(s, process, r, endpoint, cfg) ==
  /\ proc' = [proc EXCEPT ![s] = process]
  /\ asked' = [asked EXCEPT ![s] = r]
  /\ route' = [route EXCEPT ![s] = endpoint]
  /\ db' = [db EXCEPT ![s] = cfg.storage.state_db]
  /\ thread' = [thread EXCEPT ![s] = "opening"]
  /\ UNCHANGED <<file, sid, status, registry, stopFlag, past>>

StartThread(s, r) ==
  /\ proc[s] = "none"
  /\ At(handler, s, "none", "poll")
  /\ LET cfg == Overridden(Validated(file), r.overrides) IN
       Settle(s, "api", r, FlatEndpoint(cfg.llm, r.model), cfg)

\* Mutant: the request is answered and nobody registers the runner.
SeesIdOnly(s) ==
  /\ At(handler, s, "poll", "reply")
  /\ sid[s]
  /\ UNCHANGED <<settled, thread, sid, status, registry, stopFlag, past>>

SeesId(s) ==
  /\ At(handler, s, "poll", "register")
  /\ sid[s]
  /\ UNCHANGED <<settled, thread, sid, status, registry, stopFlag, past>>

\* `session_id not assigned in time': the request fails, the thread runs on.
PollTimesOut(s) ==
  /\ SlowStart \/ thread[s] = "gone"
  /\ At(handler, s, "poll", "error")
  /\ ~sid[s]
  /\ UNCHANGED <<settled, thread, sid, status, registry, stopFlag, past>>

\* Mutant: registered under the id as it was before the thread began.
RegisterUnnamed(s) ==
  /\ At(handler, s, "register", "reply")
  /\ registry' = registry \cup {""}
  /\ UNCHANGED <<settled, thread, sid, status, stopFlag, past>>

Register(s) ==
  /\ At(handler, s, "register", "reply")
  /\ registry' = registry \cup {s}
  /\ UNCHANGED <<settled, thread, sid, status, stopFlag, past>>

\* The row is read once more for the reply, and the store may fail.
Reply(s) ==
  /\ \E outcome \in {"ok", "error"} : At(handler, s, "reply", outcome)
  /\ UNCHANGED <<settled, thread, sid, status, registry, stopFlag, past>>

-----------------------------------------------------------------------------
(* _run and LoopController.run, on the worker thread.                      *)

\* store.start_session: the row is inserted before session_id is assigned.
OpenRow(s) ==
  /\ thread[s] = "opening" /\ status[s] = "none"
  /\ status' = [status EXCEPT ![s] = "running"]
  /\ UNCHANGED <<settled, handler, thread, sid, registry, stopFlag, past>>

TakeId(s) ==
  /\ At(thread, s, "opening", "running")
  /\ status[s] = "running"
  /\ sid' = [sid EXCEPT ![s] = TRUE]
  /\ UNCHANGED <<settled, handler, status, registry, stopFlag, past>>

\* The store refuses the row: run() raises before its try block.
OpenFails(s) ==
  /\ At(thread, s, "opening", "leaving")
  /\ status[s] = "none"
  /\ UNCHANGED <<settled, handler, sid, status, registry, stopFlag, past>>

\* The loop reaches its end: all goals taken, a limit, an error or a stop.
LoopEnds(s) ==
  /\ At(thread, s, "running", "closing")
  /\ UNCHANGED <<settled, handler, sid, status, registry, stopFlag, past>>

\* Mutant: the row is not closed.
EndSessionOpen(s) ==
  /\ At(thread, s, "closing", "leaving")
  /\ UNCHANGED <<settled, handler, sid, status, registry, stopFlag, past>>

EndSession(s) ==
  /\ At(thread, s, "closing", "leaving")
  /\ status' = [status EXCEPT ![s] = "final"]
  /\ UNCHANGED <<settled, handler, sid, registry, stopFlag, past>>

\* The store fails at both attempts, in the try block and in its handler.
CloseFails(s) ==
  /\ At(thread, s, "closing", "leaving")
  /\ unclosed' = unclosed \cup {s}
  /\ UNCHANGED <<settled, handler, sid, status, registry, stopFlag, restarted>>

\* Mutant: removed before the row is closed.
RemoveEarly(s) ==
  /\ At(thread, s, "closing", "gone")
  /\ registry' = registry \ {s}
  /\ UNCHANGED <<settled, handler, sid, status, stopFlag, past>>

\* finally: registry_runners.remove(session_id or "")
Remove(s) ==
  /\ At(thread, s, "leaving", "gone")
  /\ registry' = IF sid[s] /\ proc[s] = "api" THEN registry \ {s} ELSE registry
  /\ UNCHANGED <<settled, handler, sid, status, stopFlag, past>>

\* `loopcoder run': no overrides, no registry, and the endpoint by resolve_endpoint.
CliRun(s, r) ==
  /\ proc[s] = "none" /\ handler[s] = "none"
  /\ r.overrides = NoRequest.overrides
  /\ LET cfg == Validated(file) IN
       Settle(s, "cli", r, ResolveEndpoint(cfg.llm, r.model), cfg)
  /\ UNCHANGED handler

\* Interrupted at the terminal, which no `except Exception' of the loop sees.
CliKilled(s) ==
  /\ proc[s] = "cli" /\ thread[s] \in {"opening", "running", "closing"}
  /\ thread' = [thread EXCEPT ![s] = "gone"]
  /\ UNCHANGED <<settled, handler, sid, status, registry, stopFlag, past>>

-----------------------------------------------------------------------------
(* POST /v1/sessions/{sid}:stop, and the process as a whole.               *)

\* The id is known to clients from the reply, or from the list of sessions; the
\* answer for a session this server does not run is 404.
StopRequest(s) ==
  /\ status[s] # "none"
  /\ stopFlag' = IF s \in registry THEN [stopFlag EXCEPT ![s] = TRUE] ELSE stopFlag
  /\ UNCHANGED <<settled, handler, thread, sid, status, registry, past>>

\* Daemon threads and the registry die with the process; the rows stay.
Restart ==
  /\ MayRestart /\ ~restarted
  /\ restarted' = TRUE
  /\ registry' = {}
  /\ handler' = [s \in Sessions |->
       IF handler[s] \in {"none", "ok"} THEN handler[s] ELSE "error"]
  /\ thread' = [s \in Sessions |-> IF proc[s] = "api" THEN "gone" ELSE thread[s]]
  /\ UNCHANGED <<settled, sid, status, stopFlag, unclosed>>

-----------------------------------------------------------------------------
Handle(s) ==
  \/ RefusePlan(s) \/ SeesId(s) \/ PollTimesOut(s)
  \/ Register(s) \/ Reply(s)

Work(s) == OpenRow(s) \/ TakeId(s) \/ OpenFails(s) \/ EndSession(s) \/ Remove(s)

Start(s) == \E r \in Requests : StartThread(s, r) \/ CliRun(s, r)

Next ==
  \/ Restart
  \/ \E s \in Sessions :
       \/ Start(s) \/ Handle(s) \/ Work(s) \/ LoopEnds(s) \/ CloseFails(s)
       \/ CliKilled(s) \/ StopRequest(s)

Spec == Init /\ [][Next]_vars

\* Threads are scheduled.  The loop need not end by itself: with neither a
\* limit on iterations nor on time it ends only when it is stopped
\* (LoopController: LimitsEnd).
FairSpec ==
  /\ Spec
  /\ \A s \in Sessions :
       /\ WF_vars(Handle(s)) /\ WF_vars(Work(s))
       /\ WF_vars(stopFlag[s] /\ LoopEnds(s))

-----------------------------------------------------------------------------
(* Properties.                                                             *)

\* The route is an endpoint the file describes, or a model it has no key for.
Served(llm, model, endpoint) ==
  \/ endpoint \in Described(llm)
  \/ model \notin DOMAIN llm.models /\ endpoint = [base_url |-> llm.base_url, model |-> model]

Live(s) == thread[s] \in {"opening", "running", "closing"}

\* A client that was answered with a session finds it: in the registry, where a
\* stop request looks, as long as it runs, and on record as finished before it
\* leaves the registry, however its start and its end interleave, unless the
\* process was restarted or the store failed; and so is one whose request was
\* given up while its thread ran on.  From the moment its id is known its row
\* is in the database the server reads, unless the request named another one.
AnsweredIsFound ==
  \A s \in Sessions :
    /\ handler[s] = "ok" /\ Live(s) => s \in registry
    /\ handler[s] = "ok" /\ s \notin registry /\ ~restarted => status[s] = "final" \/ s \in unclosed
    /\ handler[s] = "error" /\ sid[s] /\ thread[s] = "gone" /\ ~restarted =>
         status[s] = "final" \/ s \in unclosed
    /\ handler[s] \in {"register", "reply", "ok"} =>
         /\ status[s] # "none"
         /\ "storage" \notin DOMAIN asked[s].overrides =>
              db[s] = Validated(file).storage.state_db

\* A stop request that was accepted ends the session and closes its row, if the
\* store lets it.
StopTakesEffect ==
  \A s \in Sessions : stopFlag[s] ~> (status[s] = "final" \/ s \in unclosed \/ restarted)

\* No session asks a server for a model it does not have: the URL and the name
\* of the model come from one entry of loopcoder.yaml, or from the flat fields
\* with the name the plan spells out; a key takes the command line to its
\* entry.  The API reads no key (runner.py:75), and an override that names one
\* field of llm resets the others: these requests are left out.
RouteIsServed ==
  \A s \in Sessions :
    LET llm == Validated(file).llm
        key == asked[s].model \in DOMAIN llm.models
    IN
    /\ proc[s] = "cli" => Served(llm, asked[s].model, route[s])
    /\ proc[s] = "cli" /\ key =>
         /\ route[s].base_url = llm.models[asked[s].model].base_url
         /\ route[s].model = llm.models[asked[s].model].model
    /\ proc[s] = "api" /\ ~key /\ "llm" \notin DOMAIN asked[s].overrides =>
         Served(llm, asked[s].model, route[s])
=============================================================================
