--------------------------- MODULE LoopController ---------------------------
(***************************************************************************)
(* The goal loop of agent/loopcoder/loop/controller.py: one session, run   *)
(* by one thread, that takes the goals of a plan in topological order and, *)
(* for each of them, alternates an LLM call, its tool calls and an external*)
(* verification until the goal's acceptance holds or a limit is reached.   *)
(*                                                                         *)
(* The goals are 1..NumGoals in the order topological_order returns        *)
(* (plan/topo.py).  What the SQLite store keeps (session status, goal      *)
(* rows, iteration rows) and what git keeps (tags) survives a crash of the *)
(* process; everything else is volatile.                                   *)
(*                                                                         *)
(* The content of the workspace is abstracted to the set `met' of goals    *)
(* whose acceptance checks it satisfies, and to whether it holds files git *)
(* does not track, be it that nobody added them or that .gitignore names   *)
(* them.  The acceptance checks are taken to be a function of all that is  *)
(* there, ignored files included; they may add files, and undo nothing.    *)
(***************************************************************************)
EXTENDS Naturals, Sequences

CONSTANTS
  NumGoals,        \* number of goals of the plan
  MaxIters,        \* what plans have as max_iterations_per_goal, 0 = unbounded
  RollbackAfter,   \* loop.rollback_after, 0 = never
  StrategyAfter,   \* loop.strategy_change_after, 0 = never
  BudgetOn,        \* loop.max_total_minutes > 0
  JobsAllowed,     \* the model may start background shell jobs
  MaxCalls,        \* bound: tool calls of one LLM response
  IterCap          \* bound: iterations of a goal without a limit

ASSUME NumGoalsAssumption == NumGoals \in Nat \ {0}
ASSUME LimitsAssumption ==
  /\ MaxIters \subseteq Nat
  /\ RollbackAfter \in Nat
  /\ StrategyAfter \in Nat
  /\ MaxCalls \in Nat
  /\ IterCap \in Nat
ASSUME FlagsAssumption ==
  /\ BudgetOn \in BOOLEAN
  /\ JobsAllowed \in BOOLEAN

Goals  == 1..NumGoals
TagIds == 0..NumGoals      \* 0 is the "initial" tag

VARIABLES
  pc,        \* where the controller thread is
  session,   \* sessions.status, "none" before the row exists
  row,       \* goals.status of every goal, "absent" before the row exists
  rowIters,  \* goals.iterations
  verdicts,  \* iterations.verify_passed of every goal, in iteration order
  tagMet,    \* the goals a goal's tag satisfies; no step of the loop goes back
             \* to the initial tag, whose content is left out
  tagged,    \* the tags that exist
  exact,     \* history variable: the goals that were verified with no job
             \* running and no ignored file around
  cur,       \* index of the goal the for loop is at
  last,      \* index of the last goal of the (filtered) order
  iter,      \* iter_
  fails,     \* consecutive_failures
  good,      \* last_good_tag, 0 = None
  advice,    \* running_messages holds a strategy-change message
  calls,     \* tool calls of the response still to execute
  met,       \* goals whose acceptance the workspace satisfies now
  untracked, \* the workspace holds files nobody has added to git yet
  ignored,   \* the workspace holds files .gitignore names and git does not track
  job,       \* a background shell job is running
  stop,      \* _stop_requested
  over,      \* the clock has passed config.loop.max_total_minutes
  maxIter    \* max_iter: constraints.max_iterations_per_goal of the plan

db    == <<session, row, rowIters, verdicts>>
repo  == <<tagMet, tagged, exact>>
ws    == <<met, untracked, ignored, job>>
world == <<stop, over, maxIter>>
local == <<cur, last, iter, fails, good, advice, calls>>
vars  == <<pc, db, repo, ws, world, local>>

Running  == {"prepare", "goals", "skip", "iterHead", "chat", "tools",
             "verify", "snapshot", "endGoal", "reap", "decide", "close"}
InGoal   == {"iterHead", "chat", "tools", "verify", "snapshot", "endGoal", "decide"}
Final    == {"closed", "error", "dead"}
PCs      == {"new"} \cup Running \cup Final
RowState == {"absent", "running", "passed", "failed", "stopped", "skipped"}
Verdicts == {"pass", "fail"}
Terminal == {"passed", "failed", "stopped", "skipped"}

\* The types of the volatile flags, and of everything else.
FlagsOK ==
  /\ advice \in BOOLEAN
  /\ untracked \in BOOLEAN
  /\ ignored \in BOOLEAN
  /\ job \in BOOLEAN
  /\ stop \in BOOLEAN
  /\ over \in BOOLEAN

DataOK ==
  /\ pc \in PCs
  /\ session \in {"none", "running", "completed", "stopped", "error"}
  /\ row \in [Goals -> RowState]
  /\ rowIters \in [Goals -> Nat]
  /\ verdicts \in [Goals -> Seq(Verdicts)]
  /\ tagMet \in [Goals -> SUBSET Goals]
  /\ tagged \in SUBSET TagIds
  /\ exact \in SUBSET Goals
  /\ cur \in 1..(NumGoals + 1)
  /\ last \in 0..NumGoals
  /\ pc \in InGoal \cup {"skip", "reap"} => cur <= last
  /\ iter \in Nat
  /\ fails \in Nat
  /\ good \in TagIds
  /\ calls \in Nat
  /\ met \in SUBSET Goals
  /\ maxIter \in MaxIters

TypeOK == DataOK /\ FlagsOK

Init ==
  /\ pc = "new"
  /\ session = "none"
  /\ row = [g \in Goals |-> "absent"]
  /\ rowIters = [g \in Goals |-> 0]
  /\ verdicts = [g \in Goals |-> <<>>]
  /\ tagMet = [g \in Goals |-> {}]
  /\ tagged = {}
  /\ exact = {}
  /\ cur = 1
  /\ last = 0
  /\ iter = 0
  /\ fails = 0
  /\ good = 0
  /\ advice = FALSE
  /\ calls = 0
  /\ met \in SUBSET Goals
  /\ untracked \in BOOLEAN
  /\ ignored \in BOOLEAN
  /\ job = FALSE
  /\ stop = FALSE
  /\ over = FALSE
  /\ maxIter \in MaxIters

-----------------------------------------------------------------------------
(* The session: run(), _prepare_workspace(), the for loop over the goals.  *)

\* The for loop will take every goal, the one --goal names, or none when
\* --goal names no goal of the plan.
StartSession ==
  /\ pc = "new"
  /\ pc' = "prepare"
  /\ session' = "running"
  /\ \/ cur' = 1 /\ last' = NumGoals
     \/ \E g \in Goals : cur' = g /\ last' = g
     \/ cur' = 1 /\ last' = 0
  /\ UNCHANGED <<row, rowIters, verdicts, repo, ws, world, iter, fails, good, advice, calls>>

\* The tag of a goal satisfies what a tree may that lacks some of the files.
TagHolds(t, lacking) ==
  \E m \in (IF lacking THEN SUBSET Goals ELSE {met}) :
    tagMet' = [g \in Goals |-> IF g = t THEN m ELSE tagMet[g]]

\* Mutant: no `git add -A', so that changes git was not told of are left out.
TakeSnapshotUnstaged(t) ==
  /\ TagHolds(t, untracked \/ ignored)
  /\ tagged' = tagged \cup {t}
  /\ UNCHANGED <<exact, ws>>

\* SnapshotManager.snapshot: `git add -A', commit, move the tag.  The ignored
\* files stay out of the tree and out of git's sight.
TakeSnapshot(t) ==
  /\ TagHolds(t, ignored)
  /\ tagged' = tagged \cup {t}
  /\ untracked' = FALSE
  /\ UNCHANGED <<exact, met, ignored, job>>

PrepareWorkspace ==
  /\ pc = "prepare"
  /\ TakeSnapshot(0)
  /\ pc' = "goals"
  /\ UNCHANGED <<db, world, local>>

\* _goal_history in run order: the last goal before cur whose row says passed.
IsLastPassed(t) ==
  /\ t \in 0..(cur - 1)
  /\ t # 0 => row[t] = "passed"
  /\ \A g \in Goals : g < cur /\ row[g] = "passed" => g <= t

\* The first lines of _run_goal.
BeginGoal ==
  /\ pc = "goals"
  /\ cur <= last
  /\ ~stop /\ ~over
  /\ row' = [row EXCEPT ![cur] = "running"]
  /\ rowIters' = [rowIters EXCEPT ![cur] = 0]
  /\ good' \in {t \in TagIds : IsLastPassed(t)}
  /\ iter' = 0
  /\ fails' = 0
  /\ advice' = FALSE
  /\ pc' = "iterHead"
  /\ UNCHANGED <<session, verdicts, repo, ws, world, cur, last, calls>>

\* _mark_skipped: start_goal and end_goal are two transactions.
BeginSkip ==
  /\ pc = "goals"
  /\ cur <= last
  /\ stop \/ over
  /\ row' = [row EXCEPT ![cur] = "running"]
  /\ rowIters' = [rowIters EXCEPT ![cur] = 0]
  /\ pc' = "skip"
  /\ UNCHANGED <<session, verdicts, repo, ws, world, local>>

\* Mutant: the UPDATE forgets "AND goal_id=?".
EndGoalEverywhere(status, iterations) ==
  /\ row' = [g \in Goals |-> IF row[g] = "absent" THEN "absent" ELSE status]
  /\ rowIters' = [rowIters EXCEPT ![cur] = iterations]
  /\ UNCHANGED <<session, verdicts>>

\* SessionStore.end_goal, and the for loop moves on.
EndGoal(status, iterations) ==
  /\ row' = [row EXCEPT ![cur] = status]
  /\ rowIters' = [rowIters EXCEPT ![cur] = iterations]
  /\ UNCHANGED <<session, verdicts>>

\* Mutant: `break' for `continue'.
EndSkipBreaks ==
  /\ pc = "skip"
  /\ EndGoal("skipped", 0)
  /\ pc' = "close"
  /\ UNCHANGED <<repo, ws, world, local>>

EndSkip ==
  /\ pc = "skip"
  /\ EndGoal("skipped", 0)
  /\ cur' = cur + 1
  /\ pc' = "goals"
  /\ UNCHANGED <<repo, ws, world, last, iter, fails, good, advice, calls>>

LeaveLoop ==
  /\ pc = "goals"
  /\ cur > last
  /\ pc' = "close"
  /\ UNCHANGED <<db, repo, ws, world, local>>

\* Lines 152-153: the flag is read once more, after the last goal.
CloseSession ==
  /\ pc = "close"
  /\ session' = IF stop THEN "stopped" ELSE "completed"
  /\ pc' = "closed"
  /\ UNCHANGED <<row, rowIters, verdicts, repo, ws, world, local>>

-----------------------------------------------------------------------------
(* One iteration of _run_goal.                                             *)

\* Mutants: the loop head does not look at the clock, or at the stop flag.
LimitHitUntimed == stop \/ (maxIter > 0 /\ iter + 1 > maxIter)
LimitHitDeaf    == (maxIter > 0 /\ iter + 1 > maxIter) \/ over

LimitHit == stop \/ (maxIter > 0 /\ iter + 1 > maxIter) \/ over

\* Without a limit on iterations the model counts them up to IterCap only.
AtBound == pc = "iterHead" /\ maxIter = 0 /\ iter >= IterCap

\* Mutant: iter_ instead of iter_ - 1 is recorded.
GiveUpCounting ==
  /\ pc = "iterHead"
  /\ LimitHit
  /\ EndGoal(IF stop THEN "stopped" ELSE "failed", iter + 1)
  /\ cur' = cur + 1
  /\ pc' = "goals"
  /\ UNCHANGED <<repo, ws, world, last, iter, fails, good, advice, calls>>

\* The head of `while True': iter_ has been incremented, a limit ends the
\* goal with the iterations done so far.
GiveUp ==
  /\ pc = "iterHead"
  /\ LimitHit
  /\ EndGoal(IF stop THEN "stopped" ELSE "failed", iter)
  /\ cur' = cur + 1
  /\ pc' = "goals"
  /\ UNCHANGED <<repo, ws, world, last, iter, fails, good, advice, calls>>

BeginIteration ==
  /\ pc = "iterHead"
  /\ ~LimitHit
  /\ ~AtBound
  /\ iter' = iter + 1
  /\ pc' = "chat"
  /\ UNCHANGED <<db, repo, ws, world, cur, last, fails, good, advice, calls>>

\* Mutant: an LLM call that fails is tried again, and not counted.
ChatUncounted ==
  /\ pc = "chat"
  /\ \/ calls' \in 0..MaxCalls /\ pc' = "tools" /\ UNCHANGED iter
     \/ pc' = "iterHead" /\ iter' = iter - 1 /\ UNCHANGED calls
  /\ UNCHANGED <<db, repo, ws, world, cur, last, fails, good, advice>>

\* pack(), client.chat(), update_token_usage, record_message.
Chat ==
  /\ pc = "chat"
  /\ calls' \in 0..MaxCalls
  /\ pc' = "tools"
  /\ UNCHANGED <<db, repo, ws, world, cur, last, iter, fails, good, advice>>

NextCall == pc = "tools" /\ calls > 0 /\ calls' = calls - 1

\* Reads, todo and meta tools, unknown tools, rejected arguments, vetoed or
\* crashed calls: recorded in the store, and the workspace is as it was.
ToolObserves ==
  /\ NextCall
  /\ UNCHANGED <<pc, db, repo, ws, world, cur, last, iter, fails, good, advice>>

\* write_file, edit_file, apply_patch, run_shell, revert_to_snapshot: any
\* content, with or without files outside the index, or that it may not have.
ToolWrites ==
  /\ NextCall
  /\ met' \in SUBSET Goals
  /\ untracked' \in BOOLEAN
  /\ ignored' \in BOOLEAN
  /\ UNCHANGED <<pc, db, repo, job, world, cur, last, iter, fails, good, advice>>

\* run_shell_background
ToolStartsJob ==
  /\ NextCall
  /\ JobsAllowed
  /\ job' = TRUE
  /\ UNCHANGED <<pc, db, repo, met, untracked, ignored, world, cur, last, iter, fails, good, advice>>

\* BackgroundJobManager.kill: SIGTERM to the group, SIGKILL only while the
\* group's leader lives, so a descendant that ignores SIGTERM writes on.
KillJob == job' \in BOOLEAN /\ (job' => job)

\* kill_background_job
ToolKillsJob ==
  /\ NextCall
  /\ KillJob
  /\ UNCHANGED <<pc, db, repo, met, untracked, ignored, world, cur, last, iter, fails, good, advice>>

ToolsDone ==
  /\ pc = "tools"
  /\ calls = 0
  /\ pc' = "verify"
  /\ UNCHANGED <<db, repo, ws, world, local>>

\* The checks run one after the other: a job that writes between two of them
\* can make the conjunction come out either way.
Outcomes == IF job THEN Verdicts ELSE {IF cur \in met THEN "pass" ELSE "fail"}

\* INSERT OR REPLACE, under an iteration number that is not taken yet.
RecordIteration(verdict) == verdicts' = [verdicts EXCEPT ![cur] = Append(verdicts[cur], verdict)]

\* What a verification finds is all that a snapshot will take.
VerifiedAsIs(verdict) == verdict = "pass" /\ ~job /\ ~ignored'

\* verifier.run and record_iteration.  A check may leave files of its own.
Verify ==
  /\ pc = "verify"
  /\ untracked' \in {untracked, TRUE}
  /\ ignored' \in {ignored, TRUE}
  /\ \E verdict \in Outcomes :
       /\ RecordIteration(verdict)
       /\ pc' = IF verdict = "pass" THEN "snapshot" ELSE "decide"
       /\ exact' = IF VerifiedAsIs(verdict) THEN exact \cup {cur} ELSE exact \ {cur}
  /\ UNCHANGED <<session, row, rowIters, tagMet, tagged, met, job, world, local>>

SnapshotGoal ==
  /\ pc = "snapshot"
  /\ TakeSnapshot(cur)
  /\ pc' = "endGoal"
  /\ UNCHANGED <<db, world, local>>

EndPassed ==
  /\ pc = "endGoal"
  /\ EndGoal("passed", iter)
  /\ pc' = "reap"
  /\ UNCHANGED <<repo, ws, world, local>>

\* Mutant: the function does not return after it has killed the jobs.
ReapJobsAgain ==
  /\ pc = "reap"
  /\ KillJob
  /\ cur' = cur + 1
  /\ UNCHANGED <<pc, db, repo, met, untracked, ignored, world, last, iter, fails, good, advice, calls>>

\* Only this exit of _run_goal kills the jobs that survived.
ReapJobs ==
  /\ pc = "reap"
  /\ KillJob
  /\ cur' = cur + 1
  /\ pc' = "goals"
  /\ UNCHANGED <<db, repo, met, untracked, ignored, world, last, iter, fails, good, advice, calls>>

-----------------------------------------------------------------------------
(* After a failed verification: decide() and what the loop does with it.   *)

RollbackDue == RollbackAfter > 0 /\ fails + 1 >= RollbackAfter /\ good # 0
\* Mutant: off by one.
AdviceDueLate == StrategyAfter > 0 /\ fails >= StrategyAfter

AdviceDue   == StrategyAfter > 0 /\ fails + 1 >= StrategyAfter

\* Mutant: `git reset' without --hard, which leaves the files alone.
MixedReset(t) == UNCHANGED ws

\* git reset --hard: files git does not track, ignored ones among them, stay
\* where they are, so the content equals the tag's only when there are none.
\* The tag may track some of them, and have another .gitignore.
HardReset(t) ==
  /\ IF untracked \/ ignored
       THEN met' \in SUBSET Goals /\ untracked' \in BOOLEAN /\ ignored' \in BOOLEAN
       ELSE met' = tagMet[t] /\ UNCHANGED <<untracked, ignored>>
  /\ UNCHANGED job

Rollback ==
  /\ pc = "decide"
  /\ RollbackDue
  /\ HardReset(good)
  /\ fails' = 0
  /\ advice' = FALSE       \* running_messages.clear()
  /\ pc' = "iterHead"
  /\ UNCHANGED <<db, repo, world, cur, last, iter, good, calls>>

CountFailure ==
  /\ pc = "decide"
  /\ ~RollbackDue
  /\ fails' = fails + 1
  /\ advice' = (advice \/ AdviceDue)
  /\ pc' = "iterHead"
  /\ UNCHANGED <<db, repo, ws, world, cur, last, iter, good, calls>>

-----------------------------------------------------------------------------
(* The environment of the loop.                                            *)

\* Anything the try block of run() may raise: a context that does not fit,
\* an LLM that stays down, a bad pattern in a check, git or SQLite errors.
Abort ==
  /\ pc \in Running
  /\ session' = "error"
  /\ pc' = "error"
  /\ UNCHANGED <<row, rowIters, verdicts, repo, ws, world, local>>

\* The process dies: only the database and the repository keep their state.
Crash ==
  /\ pc \in Running
  /\ pc' = "dead"
  /\ UNCHANGED <<db, repo, ws, world, local>>

\* POST /v1/sessions/{sid}:stop
RequestStop ==
  /\ pc \in Running
  /\ ~stop
  /\ stop' = TRUE
  /\ UNCHANGED <<pc, db, repo, ws, over, maxIter, local>>

BudgetRunsOut ==
  /\ BudgetOn
  /\ pc \in Running \ {"prepare"}
  /\ ~over
  /\ over' = TRUE
  /\ UNCHANGED <<pc, db, repo, ws, stop, maxIter, local>>

\* A background job changes files, at any moment until it ends.
JobWrites ==
  /\ job
  /\ pc \notin Final
  /\ met' \in SUBSET Goals
  /\ untracked' \in {untracked, TRUE}
  /\ ignored' \in {ignored, TRUE}
  /\ UNCHANGED <<pc, db, repo, job, world, local>>

JobExits ==
  /\ job
  /\ pc \notin Final
  /\ job' = FALSE
  /\ UNCHANGED <<pc, db, repo, met, untracked, ignored, world, local>>

-----------------------------------------------------------------------------
ToolStep == ToolObserves \/ ToolWrites \/ ToolStartsJob \/ ToolKillsJob \/ ToolsDone

IterStep ==
  \/ GiveUp \/ BeginIteration \/ Chat \/ ToolStep \/ Verify
  \/ SnapshotGoal \/ EndPassed \/ ReapJobs \/ Rollback \/ CountFailure

SessionStep ==
  \/ StartSession \/ PrepareWorkspace \/ BeginGoal \/ BeginSkip \/ EndSkip
  \/ LeaveLoop \/ CloseSession

Controller == SessionStep \/ IterStep
Faults     == Abort \/ Crash

Finished == (pc \in Final \/ AtBound) /\ UNCHANGED vars

Next == Controller \/ BudgetRunsOut \/ RequestStop \/ Faults \/ JobWrites \/ JobExits \/ Finished

Spec == Init /\ [][Next]_vars

\* The controller thread is always scheduled, and every call it makes
\* returns: the LLM client, the shell tools and the checks have timeouts.
FairSpec == Spec /\ WF_vars(Controller)

-----------------------------------------------------------------------------
(* Properties.                                                             *)

\* How a goal row must agree with the iteration rows of its goal.
RowAgrees(g) ==
  LET n == Len(verdicts[g]) IN
  /\ \A i \in 1..n : verdicts[g][i] = "pass" => i = n
  /\ row[g] = "passed" => n > 0 /\ verdicts[g][n] = "pass" /\ rowIters[g] = n
  /\ row[g] \in {"failed", "stopped"} =>
       rowIters[g] = n /\ \A i \in 1..n : verdicts[g][i] = "fail"
  /\ row[g] \in {"absent", "skipped"} => n = 0 /\ rowIters[g] = 0

\* The goals table never tells another story than the iterations table, at
\* any point where the process may die: a goal is recorded as passed exactly
\* when its last recorded verification passed, the iteration counts match,
\* and the verifier is never consulted again after it has passed.
LedgerAgrees == \A g \in Goals : RowAgrees(g)

\* A goal recorded as passed can be reverted to: its tag was created before
\* the row was written, and the tag's tree satisfies the goal's acceptance
\* ("we can revert to a known-good state", snapshot.py:5) whatever happens
\* later, if git could take what was verified.  That is all the code gives: a
\* tag lacks what .gitignore names, and a job that runs during the checks, or
\* between them and the snapshot, may have written what no check has seen.
PassedTagIsGood ==
  \A g \in Goals : row[g] = "passed" =>
    g \in tagged /\ (g \in exact => g \in tagMet[g])

\* last_good_tag is computed once, before the first iteration of the goal,
\* and must stay the most recent success of this session until the goal ends.
GoodIsLatest == pc \in InGoal => IsLastPassed(good)

\* The strategy counters: once there is something to revert to, no iteration
\* starts with RollbackAfter failures pending, and from StrategyAfter
\* failures on the model has been told to change its approach, whatever
\* rollbacks cleared the conversation in between.
StrategyApplied ==
  pc = "iterHead" =>
    /\ fails <= iter
    /\ RollbackAfter > 0 /\ good # 0 => fails < RollbackAfter
    /\ StrategyAfter > 0 /\ fails >= StrategyAfter => advice

\* The rows follow the order of the loop: nothing after the current goal has
\* begun, at most the current goal is running, and every goal skipped is
\* followed only by skipped ones, for neither the stop flag nor the clock goes back.
RowsFollowOrder ==
  /\ \A g \in Goals : g > cur => row[g] = "absent"
  /\ \A g \in Goals : row[g] = "running" => g = cur
  /\ \A g, h \in Goals : g < h /\ row[g] = "skipped" =>
       row[h] \in {"absent", "running", "skipped"} /\ verdicts[h] = <<>>

\* A session that ended in order left no goal unaccounted for: every goal it
\* was to take has a final status, and one that ended as "completed" saw no
\* stop request take effect: only the clock can have skipped goals.
ClosedIsComplete ==
  session \in {"completed", "stopped"} =>
    /\ cur = last + 1
    /\ last > 0 => row[last] \in Terminal
    /\ \A g \in Goals : row[g] # "running"
    /\ \A g, h \in Goals : g < h /\ h <= last /\ row[g] # "absent" => row[h] # "absent"
    /\ session = "completed" =>
         \A g \in Goals : row[g] # "stopped" /\ (row[g] = "skipped" => over)

\* What was recorded about a goal that has ended is never rewritten: not by a
\* later goal, a late stop, an error or the end of the session.
RowsFrozen ==
  \A g \in Goals : row[g] \in Terminal =>
    row'[g] = row[g] /\ rowIters'[g] = rowIters[g] /\ verdicts'[g] = verdicts[g]

\* Action property: no step changes the rows of an ended goal.
TerminalRowsFrozen == [][RowsFrozen]_vars

\* A rollback goes to the tag of a goal that is recorded as passed, and the
\* workspace satisfies that goal again if git could take all that was verified
\* then, and knows of all that is there now.
RollbackIsGood ==
  pc = "decide" /\ pc' = "iterHead" /\ fails' = 0 =>
    /\ good \in tagged
    /\ row[good] = "passed"
    /\ good \in exact /\ ~untracked /\ ~ignored => good \in met'

\* Action property: every rollback restores what it was made for.
RollbackRestores == [][RollbackIsGood]_vars

\* With a limit on iterations the session ends, whatever the model does
\* ("infinite loops do not happen", E2E-4).
Terminates == maxIter > 0 => <>(pc \in Final)

\* A stop request and the clock each end the session, even when nothing else
\* limits it: they are looked at often enough, and by every loop.
LimitsEnd == stop \/ over ~> pc \in Final

\* Whoever reads the goal rows and the session status while the loop runs
\* sees the behaviour GoalLedger allows: goals one at a time and in order,
\* no status taken back, no goal tried after a skipped one, an orderly end
\* only when no goal is left running.
Ledger == INSTANCE GoalLedger WITH NumGoals <- NumGoals, session <- session, row <- row
LedgerSpec == Ledger!Spec

-----------------------------------------------------------------------------
(* The inductive invariant of the proofs, by subject.                      *)

AllFailed(g) == \A i \in 1..Len(verdicts[g]) : verdicts[g][i] = "fail"

\* Which row the program counter is working on, and how far it has come.
PcInv ==
  /\ pc = "new" <=> session = "none"
  /\ pc \in Running => session = "running"
  /\ pc \in {"new", "prepare"} => \A g \in Goals : row[g] = "absent"
  /\ pc \in {"goals", "close", "closed"} =>
       \A g \in Goals : row[g] # "running" /\ (g >= cur => row[g] = "absent")
  /\ pc \in InGoal \cup {"skip"} => row[cur] = "running"
  /\ pc = "reap" => row[cur] = "passed"
  /\ pc \in {"close", "closed"} => cur > last
  /\ pc = "closed" => session \in {"completed", "stopped"}
  /\ pc = "error" <=> session = "error"
  /\ pc = "dead" => session = "running"

\* The iteration rows of the goal at hand.
VerdictInv ==
  /\ pc = "skip" => verdicts[cur] = <<>> /\ rowIters[cur] = 0
  /\ pc \in {"iterHead", "decide"} => Len(verdicts[cur]) = iter /\ AllFailed(cur)
  /\ pc \in {"chat", "tools", "verify"} => Len(verdicts[cur]) + 1 = iter /\ AllFailed(cur)
  /\ pc \in {"snapshot", "endGoal"} =>
       /\ iter > 0
       /\ Len(verdicts[cur]) = iter
       /\ verdicts[cur][iter] = "pass"

OrderInv ==
  /\ \A g \in Goals : g > cur => row[g] = "absent"
  /\ \A g \in Goals : row[g] = "running" => g = cur

\* What the tags hold: from the verification on nothing can write to a goal
\* that was verified as is.
TagInv ==
  /\ pc = "endGoal" => cur \in tagged
  /\ \A g \in Goals : row[g] = "passed" => g \in tagged
  /\ pc = "snapshot" /\ cur \in exact => cur \in met /\ ~ignored /\ ~job
  /\ pc = "endGoal" /\ cur \in exact => cur \in tagMet[cur]
  /\ \A g \in Goals : row[g] = "passed" /\ g \in exact => g \in tagMet[g]

\* Skipping and stopping leave the flag behind that caused them.
LimitInv ==
  /\ pc = "skip" => stop \/ over
  /\ \A g \in Goals : row[g] = "stopped" => stop
  /\ \A g \in Goals : row[g] = "skipped" => stop \/ over
  /\ pc \in InGoal => \A g \in Goals : row[g] # "skipped"
  /\ session = "completed" => ~stop

\* The loop leaves no gap behind it.
ScopeInv ==
  /\ cur <= last + 1
  /\ last > 0 /\ cur > last => row[last] # "absent"
  /\ \A g, h \in Goals : g < h /\ h < cur /\ row[g] # "absent" => row[h] # "absent"

\* The counters of the failures, all through an iteration.
StrategyInv ==
  /\ pc = "iterHead" => fails <= iter
  /\ pc \in {"chat", "tools", "verify", "decide"} => fails + 1 <= iter
  /\ pc \in {"iterHead", "chat", "tools", "verify", "decide"} =>
       /\ RollbackAfter > 0 /\ good # 0 => fails < RollbackAfter
       /\ StrategyAfter > 0 /\ fails >= StrategyAfter => advice

LedgerInv == PcInv /\ VerdictInv /\ OrderInv /\ LedgerAgrees
SessionInv ==
  LedgerInv /\ TagInv /\ LimitInv /\ GoodIsLatest /\ RowsFollowOrder /\ ScopeInv /\ StrategyInv

=============================================================================
