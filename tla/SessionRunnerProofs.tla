------------------------- MODULE SessionRunnerProofs -------------------------
(***************************************************************************)
(* Theorems about SessionRunner, for any number of requests and sessions   *)
(* and whatever loopcoder.yaml and the requests say.                       *)
(***************************************************************************)
EXTENDS SessionRunner, TLAPS

-----------------------------------------------------------------------------
(* The settings.                                                           *)

\* An override leaves the sections alone that it does not name.
LEMMA OverrideKeeps ==
  ASSUME NEW f, NEW o, NEW sec \in Sections, sec \notin DOMAIN o
  PROVE  Overridden(Validated(f), o)[sec] = Validated(f)[sec]
<1> DEFINE base == Validated(f)
<1> DEFINE raw == Over(base, o)
<1>1. DOMAIN base = Sections /\ DOMAIN Defaults = Sections
  BY DEF Validated, Sections
<1>2. sec \in DOMAIN raw /\ raw[sec] = base[sec]
  BY <1>1 DEF Over
<1>3. Validated(raw)[sec] = Over(Defaults[sec], base[sec])
  BY <1>2 DEF Validated
<1> HIDE DEF raw
<1>4. Over(Defaults[sec], base[sec]) = base[sec]
  <2>1. CASE sec \in DOMAIN f
    <3>1. base[sec] = Over(Defaults[sec], f[sec])  BY <2>1 DEF Validated
    <3>2. ASSUME NEW a, NEW b PROVE Over(a, Over(a, b)) = Over(a, b)  BY DEF Over
    <3> HIDE DEF base
    <3> QED  BY <3>1, <3>2
  <2>2. CASE sec \notin DOMAIN f
    <3>1. base[sec] = Defaults[sec]  BY <2>2 DEF Validated
    <3>2. Defaults[sec] = [k \in DOMAIN Defaults[sec] |-> Defaults[sec][k]]
      BY DEF Defaults, Sections
    <3>3. Over(Defaults[sec], Defaults[sec]) = Defaults[sec]  BY <3>2 DEF Over
    <3> QED  BY <3>1, <3>3
  <2> QED  BY <2>1, <2>2
<1> QED  BY <1>3, <1>4 DEF Overridden, raw

\* What resolve_endpoint returns is served.
LEMMA ResolvedIsServed ==
  ASSUME NEW llm, NEW requested, None \notin DOMAIN llm.models
  PROVE  /\ Served(llm, requested, ResolveEndpoint(llm, requested))
         /\ requested \in DOMAIN llm.models =>
              /\ ResolveEndpoint(llm, requested).base_url = llm.models[requested].base_url
              /\ ResolveEndpoint(llm, requested).model = llm.models[requested].model
  BY DEF Served, Described, ResolveEndpoint

\* What the API uses is served, unless the plan names a key.
LEMMA FlatIsServed ==
  ASSUME NEW llm, NEW requested, requested \notin DOMAIN llm.models
  PROVE  Served(llm, requested, FlatEndpoint(llm, requested))
  BY DEF Served, Described, FlatEndpoint

-----------------------------------------------------------------------------
(* The life of a session.                                                  *)

\* How far the request and the thread of a session are, and what they leave.
Progress(s) ==
  /\ thread[s] = "none" <=> proc[s] = "none"
  /\ thread[s] = "none" => handler[s] \in {"none", "error"}
  /\ thread[s] \in {"none", "opening"} => ~sid[s]
  /\ thread[s] \in {"running", "closing"} => sid[s]
  /\ sid[s] => status[s] # "none"
  /\ handler[s] = "poll" => proc[s] = "api"
  /\ proc[s] = "cli" => handler[s] = "none"
  /\ handler[s] \in {"register", "reply", "ok"} => proc[s] = "api" /\ sid[s]
  /\ s \in registry => proc[s] = "api" /\ sid[s]

\* The registry has the sessions it should, and rows are closed in time.
Registered(s) ==
  /\ handler[s] \in {"reply", "ok"} /\ thread[s] \in {"running", "closing", "leaving"} => s \in registry
  /\ proc[s] = "api" /\ sid[s] /\ thread[s] \in {"leaving", "gone"} /\ ~restarted =>
       status[s] = "final" \/ s \in unclosed

\* What a session was started with.
SettledRight(s) ==
  /\ proc[s] = "api" =>
       LET cfg == Overridden(Validated(file), asked[s].overrides) IN
       route[s] = FlatEndpoint(cfg.llm, asked[s].model) /\ db[s] = cfg.storage.state_db
  /\ proc[s] = "cli" =>
       route[s] = ResolveEndpoint(Validated(file).llm, asked[s].model)

RunnerInv == \A s \in Sessions : Progress(s) /\ Registered(s) /\ SettledRight(s)

\* Every step keeps the types.
LEMMA RunnerTypeStep == TypeOK /\ [Next]_vars => TypeOK'
<1> SUFFICES ASSUME TypeOK, [Next]_vars PROVE TypeOK'
  OBVIOUS
<1> USE DEF TypeOK, settled, past, At
<1>1. CASE Restart  BY <1>1 DEF Restart
<1>2. ASSUME NEW s \in Sessions, NEW r \in Requests, StartThread(s, r) PROVE TypeOK'
  BY <1>2 DEF StartThread, Settle
<1>3. ASSUME NEW s \in Sessions, NEW r \in Requests, CliRun(s, r) PROVE TypeOK'
  BY <1>3 DEF CliRun, Settle
<1>4. ASSUME NEW s \in Sessions, Handle(s) PROVE TypeOK'
  BY <1>4 DEF Handle, RefusePlan, SeesId, PollTimesOut, Register, Reply
<1>5. ASSUME NEW s \in Sessions, Work(s) PROVE TypeOK'
  BY <1>5 DEF Work, OpenRow, TakeId, OpenFails, EndSession, Remove
<1>6. ASSUME NEW s \in Sessions, LoopEnds(s) \/ CloseFails(s) \/ CliKilled(s) PROVE TypeOK'
  BY <1>6 DEF LoopEnds, CloseFails, CliKilled
<1>7. ASSUME NEW s \in Sessions, StopRequest(s) PROVE TypeOK'
  BY <1>7 DEF StopRequest
<1>8. CASE UNCHANGED vars  BY <1>8 DEF vars
<1> QED
  BY <1>1, <1>2, <1>3, <1>4, <1>5, <1>6, <1>7, <1>8 DEF Next, Start

\* The request and the thread keep step, whatever the order of their steps.
LEMMA ProgressStep ==
  ASSUME TypeOK, RunnerInv, [Next]_vars, NEW t \in Sessions
  PROVE  Progress(t)' /\ Registered(t)'
<1> USE DEF TypeOK, RunnerInv, Progress, Registered, settled, past, At
<1>1. CASE Restart  BY <1>1 DEF Restart
<1>2. ASSUME NEW s \in Sessions, NEW r \in Requests, StartThread(s, r)
      PROVE Progress(t)' /\ Registered(t)'
  <2>1. /\ proc[s] = "none" /\ handler[s] = "none"
        /\ proc' = [proc EXCEPT ![s] = "api"]
        /\ handler' = [handler EXCEPT ![s] = "poll"]
        /\ thread' = [thread EXCEPT ![s] = "opening"]
        /\ UNCHANGED <<sid, status, registry, restarted, unclosed>>
    BY <1>2 DEF StartThread, Settle
  <2> QED  BY <2>1
<1>3. ASSUME NEW s \in Sessions, NEW r \in Requests, CliRun(s, r)
      PROVE Progress(t)' /\ Registered(t)'
  <2>1. /\ proc[s] = "none" /\ handler[s] = "none"
        /\ proc' = [proc EXCEPT ![s] = "cli"]
        /\ thread' = [thread EXCEPT ![s] = "opening"]
        /\ UNCHANGED <<handler, sid, status, registry, restarted, unclosed>>
    BY <1>3 DEF CliRun, Settle
  <2> QED  BY <2>1
<1>4. ASSUME NEW s \in Sessions, Handle(s) PROVE Progress(t)' /\ Registered(t)'
  <2>1. CASE RefusePlan(s)  BY <2>1 DEF RefusePlan
  <2>2. CASE SeesId(s)  BY <2>2 DEF SeesId
  <2>3. CASE PollTimesOut(s)  BY <2>3 DEF PollTimesOut
  <2>4. CASE Register(s)  BY <2>4 DEF Register
  <2>5. CASE Reply(s)  BY <2>5 DEF Reply
  <2> QED  BY <1>4, <2>1, <2>2, <2>3, <2>4, <2>5 DEF Handle
<1>5. ASSUME NEW s \in Sessions, Work(s) PROVE Progress(t)' /\ Registered(t)'
  <2>1. CASE OpenRow(s)  BY <2>1 DEF OpenRow
  <2>2. CASE TakeId(s)  BY <2>2 DEF TakeId
  <2>3. CASE OpenFails(s)  BY <2>3 DEF OpenFails
  <2>4. CASE EndSession(s)  BY <2>4 DEF EndSession
  <2>5. CASE Remove(s)  BY <2>5 DEF Remove
  <2> QED  BY <1>5, <2>1, <2>2, <2>3, <2>4, <2>5 DEF Work
<1>6. ASSUME NEW s \in Sessions, LoopEnds(s) \/ CloseFails(s) \/ CliKilled(s)
      PROVE Progress(t)' /\ Registered(t)'
  BY <1>6 DEF LoopEnds, CloseFails, CliKilled
<1>7. ASSUME NEW s \in Sessions, StopRequest(s) PROVE Progress(t)' /\ Registered(t)'
  BY <1>7 DEF StopRequest
<1>8. CASE UNCHANGED vars  BY <1>8 DEF vars
<1> QED
  BY <1>1, <1>2, <1>3, <1>4, <1>5, <1>6, <1>7, <1>8 DEF Next, Start

\* No step but the start of a session touches its settings.
LEMMA SettledStep ==
  ASSUME TypeOK, RunnerInv, [Next]_vars, NEW t \in Sessions
  PROVE  SettledRight(t)'
<1> USE DEF TypeOK, RunnerInv, SettledRight, At
<1>1. ASSUME NEW s \in Sessions, NEW r \in Requests, StartThread(s, r) PROVE SettledRight(t)'
  BY <1>1 DEF StartThread, Settle
<1>2. ASSUME NEW s \in Sessions, NEW r \in Requests, CliRun(s, r) PROVE SettledRight(t)'
  BY <1>2 DEF CliRun, Settle
<1>3. CASE UNCHANGED settled
  BY <1>3 DEF settled
<1>4. CASE UNCHANGED vars
  BY <1>3, <1>4 DEF vars
<1> QED
  BY <1>1, <1>2, <1>3, <1>4
  DEF Next, Start, Restart, Handle, Work, RefusePlan, SeesId, PollTimesOut, Register, Reply,
      OpenRow, TakeId, OpenFails, EndSession, Remove, LoopEnds, CloseFails, CliKilled, StopRequest

\* The types, and the inductive invariant of request, thread, registry and row.
THEOREM RunnerInvariant == Spec => [](TypeOK /\ RunnerInv)
<1>1. Init => TypeOK /\ RunnerInv
  BY DEF Init, TypeOK, RunnerInv, Progress, Registered, SettledRight
<1>2. TypeOK /\ RunnerInv /\ [Next]_vars => RunnerInv'
  BY ProgressStep, SettledStep DEF RunnerInv
<1> QED  BY <1>1, <1>2, RunnerTypeStep, PTL DEF Spec

\* Every variable of the session runner keeps its type.
THEOREM RunnerTypes == Spec => []TypeOK
  BY RunnerInvariant, PTL

\* A client that was answered with a session finds it, in the registry while
\* it runs and on record afterwards.
THEOREM AnsweredFound == Spec => []AnsweredIsFound
<1>1. TypeOK /\ RunnerInv => AnsweredIsFound
  <2> SUFFICES ASSUME TypeOK, RunnerInv, NEW s \in Sessions
               PROVE  /\ handler[s] = "ok" /\ Live(s) => s \in registry
                      /\ handler[s] = "ok" /\ s \notin registry /\ ~restarted =>
                           status[s] = "final" \/ s \in unclosed
                      /\ handler[s] = "error" /\ sid[s] /\ thread[s] = "gone" /\ ~restarted =>
                           status[s] = "final" \/ s \in unclosed
                      /\ handler[s] \in {"register", "reply", "ok"} =>
                           /\ status[s] # "none"
                           /\ "storage" \notin DOMAIN asked[s].overrides =>
                                db[s] = Validated(file).storage.state_db
    BY DEF AnsweredIsFound
  <2>1. Progress(s) /\ Registered(s) /\ SettledRight(s)  BY DEF RunnerInv
  <2>2. thread[s] \in {"none", "opening", "running", "closing", "leaving", "gone"}  BY DEF TypeOK
  <2>3. handler[s] = "ok" /\ Live(s) => s \in registry
    BY <2>1 DEF Progress, Registered, Live
  <2>4. handler[s] = "ok" /\ s \notin registry /\ ~restarted => status[s] = "final" \/ s \in unclosed
    BY <2>1, <2>2 DEF Progress, Registered
  <2>5. handler[s] = "error" /\ sid[s] /\ thread[s] = "gone" /\ ~restarted =>
          status[s] = "final" \/ s \in unclosed
    BY <2>1, <2>2 DEF TypeOK, Progress, Registered
  <2>6. ASSUME handler[s] \in {"register", "reply", "ok"}, "storage" \notin DOMAIN asked[s].overrides
        PROVE  db[s] = Validated(file).storage.state_db
    <3>1. "storage" \in Sections  BY DEF Sections, Defaults
    <3>2. Overridden(Validated(file), asked[s].overrides)["storage"] = Validated(file)["storage"]
      BY <2>6, <3>1, OverrideKeeps
    <3> QED  BY <2>1, <2>6, <3>2 DEF Progress, SettledRight
  <2> QED  BY <2>1, <2>3, <2>4, <2>5, <2>6 DEF Progress
<1> QED  BY <1>1, RunnerInvariant, PTL

\* No session asks a server for a model it does not have.
THEOREM RouteServed == Spec => []RouteIsServed
<1>1. TypeOK /\ RunnerInv => RouteIsServed
  <2> SUFFICES ASSUME TypeOK, RunnerInv, NEW s \in Sessions
               PROVE  LET llm == Validated(file).llm
                          key == asked[s].model \in DOMAIN llm.models
                      IN  /\ proc[s] = "cli" => Served(llm, asked[s].model, route[s])
                          /\ proc[s] = "cli" /\ key =>
                               /\ route[s].base_url = llm.models[asked[s].model].base_url
                               /\ route[s].model = llm.models[asked[s].model].model
                          /\ proc[s] = "api" /\ ~key /\ "llm" \notin DOMAIN asked[s].overrides =>
                               Served(llm, asked[s].model, route[s])
    BY DEF RouteIsServed
  <2> DEFINE llm == Validated(file).llm
  <2> DEFINE name == asked[s].model
  <2>1. SettledRight(s)  BY DEF RunnerInv
  <2>2. None \notin DOMAIN llm.models  BY FilesAssumption DEF TypeOK
  <2>3. ASSUME proc[s] = "cli"
        PROVE  /\ Served(llm, name, route[s])
               /\ name \in DOMAIN llm.models =>
                    /\ route[s].base_url = llm.models[name].base_url
                    /\ route[s].model = llm.models[name].model
    <3>1. route[s] = ResolveEndpoint(llm, name)  BY <2>1, <2>3 DEF SettledRight
    <3> HIDE DEF llm, name
    <3> QED  BY <2>2, <3>1, ResolvedIsServed
  <2>4. ASSUME proc[s] = "api", name \notin DOMAIN llm.models, "llm" \notin DOMAIN asked[s].overrides
        PROVE  Served(llm, name, route[s])
    <3>1. "llm" \in Sections  BY DEF Sections, Defaults
    <3>2. Overridden(Validated(file), asked[s].overrides)["llm"] = Validated(file)["llm"]
      BY <2>4, <3>1, OverrideKeeps
    <3>3. route[s] = FlatEndpoint(llm, name)  BY <2>1, <2>4, <3>2 DEF SettledRight
    <3> HIDE DEF llm, name
    <3> QED  BY <2>4, <3>3, FlatIsServed
  <2> QED  BY <2>3, <2>4
<1> QED  BY <1>1, RunnerInvariant, PTL
=============================================================================
