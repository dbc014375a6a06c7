# LoopCoder: specification and proofs

TLA+ models of the parts of LoopCoder (`src/agent/loopcoder/`) whose behaviour depends on the
order in which things happen: the goal loop and what it records, the tools that change files
behind git's back, background jobs, the event stream and its reader in the editor, the session
registry of the API server, the settings a session is started with, the todo list, the packing of the
prompt and the order of the goals. TLC checks every model on a small instance; TLAPS proves the
safety properties of all of them, for every value of the constants.

    tlc -workers 2 -config LoopController.cfg LoopController     one run
    tlapm LoopControllerProofs.tla                               its proofs

Paths below are relative to `src/agent/loopcoder/` unless they start with `src/`.

## 1. Inventory of the system

LoopCoder drives a language model through a plan: an ordered set of goals, each with acceptance
checks that are run outside the model. One session is one pass over a plan, carried out by one
*controller thread*; the API server runs several sessions, each on a daemon thread, next to its
asyncio event loop. Further actors are the processes a session starts (shell commands,
background jobs and their children), the reader threads of those jobs, SSE clients, and whoever
sends a stop request.

| component | state it keeps | operations | talks to |
|---|---|---|---|
| goal loop `loop/controller.py`, `strategy.py`, `verifier.py` | position in the plan, iteration, failure counter, conversation, last good tag, stop flag | run, one goal, one iteration, verify, roll back, end | everything below |
| session store `state/store.py` | SQLite rows: sessions, goals, iterations, tool_calls, messages, todos | one transaction per call | written by the loop; read by CLI, API, report |
| snapshots `state/snapshot.py` | git tags, index, work tree | open or init, snapshot, revert, diff | loop, revert tool |
| file tools, hooks, registry `tools/fs.py`, `hooks.py`, `registry.py` | read and written sets of the goal's ToolContext | read, write, edit, patch, list, search | git index, workspace |
| background jobs `tools/shell.py` | per job: process group, two pipes, two buffers, finished flag | start, drain (thread), read, kill, list | loop (kills on success only) |
| event bus and SSE `events.py`, `api/server.py` | history, subscriber queues, lock | emit (controller thread), subscribe, stream, unsubscribe (event loop) | loop, clients |
| session registry `api/runner.py`, `api/server.py` | live runners, stop flag per controller | start, register, stop, remove | controller threads, store |
| plan `plan/*.py` | the goals, dependencies, priorities, limits | load, validate, order | loop |
| LLM client `llm/client.py`, `tool_fallback.py`, `tokens.py` | none between calls | chat with retries, recover calls from text | loop, sub-agents |
| context `llm/context.py`, `prompts.py`, `loop/reminders.py`, `conventions.py` | sections of one call | add, pack | loop |
| todo list `tools/todo.py` | todo rows, a cache of them | replace the list, read it | store, reminder, sub-agents |
| sub-agent, meta, test tools `tools/*.py` | none of their own | explore, submit, run tests | parent's ToolContext, LLM |
| sandbox `sandbox/*.py` | none | run one command with a timeout | shell tools, verifier |
| critic `loop/critic.py` | none | review (called by no code) | - |
| MCP server `mcp/server.py` | none | call one tool | registry |
| command line, reports `cli.py`, `ui/*.py` | none | run a session in a process of its own, print what is stored | loop, store |
| configuration, catalog `config.py`, `catalog.py` | loopcoder.yaml, install.yaml, vllm.yaml | load, override, resolve a model to an endpoint | session start, installation |
| VS Code extension `src/vscode-extension/` | live log, tree views | read the SSE stream, commands | API |
| deployment scripts `src/setup.sh`, `src/scripts/` | installed versions, links | install, upgrade, roll back, HPC jobs | - |

What makes each of them correct, and what is hard about it:

* **Goal loop.** A goal is recorded as passed only if its last verification passed, and its tag
  then holds content that passes, as far as git could take what was verified. Counters, conversation and rollbacks fit together however
  failures, rollbacks and limits alternate. Every exit (passed, out of iterations, stopped, out of
  time, exception, process death) leaves rows that tell the truth. The session ends. Hard: a stop
  or the clock may strike between any two steps, the row, tag and iteration writes are separate
  transactions, background jobs write at any moment.
* **Store.** Terminal rows are never rewritten; readers see a consistent story at any moment.
* **Snapshots, file tools, hooks.** A rollback restores exactly the last good goal; nothing the
  tools wrote is missing from the tag or from the diff in the prompt; a write replaces no version
  that came after the last read. Hard: five views of the same file (disk, index, tag, read set, conversation) that a
  different set of operations keeps up to date.
* **Background jobs.** A job reported finished is complete, output is neither lost nor repeated,
  a killed job finishes. Hard: a reader thread, a killer, a process group and its children.
* **Event bus.** A subscriber misses nothing and the controller is never held up by a client.
  Hard: the emitting thread takes no lock while coroutines subscribe, replay and leave.
* **Registry.** A session a client was told of can be stopped while it runs, and is never neither
  active nor on record. Hard: three threads, a five-second poll, a restart.
* **Settings.** The URL and the name of the model a session uses belong to one server, and its rows
  are where the server looks for them. Hard: four places of one file, defaults and overrides of a
  request are combined in two ways, one for the API and one for the command line.
* **Todo list.** The stored list is one the agent sent, and the reminder names a todo it knows.
  Hard: a write is several transactions, any of which may fail, and sub-agents write the same rows.
* **Live log.** What the user sees is true and in order, nothing is missing, and the log is closed at
  the end of the session. Hard: chunks end anywhere, lines are ended by a library, connections break.
* **Plan.** Goals come after what they depend on, in an order that only the plan determines, and a
  plan is refused exactly when there is none. Hard: the code goes through sets.
* **Context.** The model always sees the latest failure and the latest advice; what is dropped is
  the oldest, and no more than needed; every tool call is answered.

`PROJECT.json` lists the hazards one by one, each at its line, with the properties that cover it.

## 2. Modules

| module | models | state and actions |
|---|---|---|
| `GoalLedger` | what the session promises a reader of its rows | session status, goal status; Open, Begin, Conclude, Skip, Close, Break |
| `LoopController` | `run`, `_run_goal`, `decide`, snapshot and revert as the loop uses them, the rows | one program counter for the controller thread; one action per step between two effects that survive a crash |
| `LoopControllerProofs` | the theorems about it | - |
| `Workspace` | file tools, hooks, git | disk, index, tags, read and written sets, the versions the conversation goes by; one action per tool |
| `WorkspaceProofs` | the theorems about it | - |
| `BackgroundJobs`, `MCBackgroundJobs` | one job | process group, pipes, reader thread, controller thread |
| `BackgroundJobsProofs` | the theorems about it | - |
| `EventBus` | emit against subscribe, stream, heartbeat, unsubscribe | emitting thread and event loop, interleaved step by step; whether the event loop sleeps |
| `EventBusProofs` | the theorems about it | - |
| `SseReader` | the live log of the extension | the server's stream, the lines on the wire, the variables of the parser, the log |
| `SseReaderProofs` | the theorems about it | - |
| `Settings` | sections llm and storage of loopcoder.yaml | no state: defaults, override, the two ways to an endpoint |
| `SessionRunner`, `MCSessionRunner` | start, register, stop, restart, `loopcoder run` | handler, worker thread, registry, rows, the settings each session was started with |
| `SessionRunnerProofs` | the theorems about it and about Settings | - |
| `TodoList` | todo_write, todo_read, the reminder | rows, cache, the write under way, what the agent was shown |
| `PlanOrder` | validation, `topological_order` | one plan; the loops of the function, one goal at a time |
| `PlanOrderProofs` | the theorems about it | - |
| `Conversation` | sections, packing, answers, tool results, advice | one goal, its prompt and its message list; one action per round of `pack()`, per answer and per call |
| `AgentProofs` | the theorems about Conversation and TodoList, what the agent of a goal is shown | - |

Composition: `LoopController` implements `GoalLedger` (`INSTANCE GoalLedger WITH` its `session` and
`row`, checked as the property `LedgerSpec` and proved). `SessionRunner` extends `Settings`: what a session
talks to is computed when it starts and kept to its end. The others refine one aspect the loop
abstracts, and the loop states what it takes from them: its `HardReset` and `TakeSnapshot` are those
of `Workspace` with the files abstracted to the goals they satisfy, and to whether some are untracked or
ignored, which the snapshot leaves out and the reset leaves alone in both modules; a `job` that writes until it ends is
all `LoopController` keeps of `BackgroundJobs`; `SessionRunner` keeps of the loop that a stop ends it
(`LimitsEnd`) and that the store may fail when the session is closed; the strategy counters of
`Conversation` are those of the loop with the messages made explicit; the order in which the loop
numbers the goals is the one `PlanOrder` computes, and a cycle is one of its `Abort`s; `SseReader` reads
what the generator at the end of `EventBus` writes; `TodoList` is the one store table with several
transactions per call, for one goal.

**LoopController.** Goals are numbered in the order the loop takes them. The workspace is the set
`met` of goals whose checks it satisfies plus two bits: whether files exist that nobody has added to
git (`untracked`), and whether files exist that `.gitignore` names (`ignored`). The checks are taken to
be a function of all that is there, so a check may rest on an ignored build product. `git add -A`
clears the first bit and not the second: as long as ignored files exist, the tag satisfies any set of goals
(`TagHolds`), and so does the workspace after a reset that leaves files of either kind behind. `exact`
is a history variable: the goals that were verified with no job running and no ignored file around,
for which verified content and tag are the same. `maxIter` is the limit the plan happens to have.
A verification with a running job may come out either way, since checks
run one after the other. `KillJob` may leave the job alive: `kill` sends SIGKILL only while the
group's leader lives, so a child that ignores SIGTERM survives. Database and repository
(`session`, `row`, `rowIters`, `verdicts`, `tagMet`, `tagged`) survive `Crash`; nothing reads them
back later, for no code resumes a session. `Abort` is any exception below `run()`. `--goal` makes
the loop take one goal or, for an unknown name, none. Every transaction of its own is an action
of its own.

**Workspace.** A file has a version, a tree maps files to versions. Each tool is one action with the
hooks the registry runs around it; `Shell` also stands for acceptance checks that write. `base` is
the version a file had when the conversation last read of it or wrote it; it exists for the properties
only, and says nothing of how much was shown: a read succeeds, and opens the write guard, with a slice of
the file or with nothing of it. A call that is
rejected or fails before it changes anything is no step. Staging may fail without a trace
(`StagingFails`): the post-hook swallows what git raises when the index is locked.

**BackgroundJobs.** Output is counted in units of half a read. The reader thread reads stdout to
`Chunk` units or end of file, then stderr, then stores both and polls; the tool copies the buffers
under the lock and looks at `finished` after it.

**EventBus.** `emit` is split where another thread can get in between: append, each iteration over
the subscriber list, put, drop the oldest, put again. A coroutine runs until it awaits. The
operations of `asyncio.Queue` are taken as atomic, but a put from the emitting thread does not wake the
event loop: once every coroutine has run as far as it goes the loop sleeps, until a request comes in,
a connection ends or the fifteen seconds of a `wait_for` are over. A replay that waits for room has no
such timeout. `raced` and `overran` record which clients had an emit overlap their replay, or lost an
event to a full queue.

**SseReader.** One event is three lines. A chunk completes any number of them; the parser begins each
chunk with no type and no data. `lineEnd` is what the SSE library of the server puts at the end of a
line, CR LF by default in sse-starlette; the parser compares with the empty string. `cut` records
the events with lines in two chunks.

**Settings.** A mapping of the file is a function on the keys it has. `Overridden` replaces whole
sections, as `{**cfg.model_dump(), **overrides}` does, and fills the rest of them with the defaults of
the class. `ResolveEndpoint` is what the command line uses, `FlatEndpoint` what the API does. Fields
that decide neither endpoint nor database are left out.

**SessionRunner.** The request handler's poll, registration and reply, the worker's row, id, end
of session and removal are separate steps. A restart empties the registry and ends the threads.
`CloseFails` is the store refusing at both attempts, in the `try` of `run()` and in its handler. A
session of the command line takes the same steps in a process of its own, which a restart of the
server does not touch, and which an interrupt ends without any.

**TodoList.** `replace` is a delete and one insert per item, then a read; a step each. `StoreFails` may hit
any statement, the registry turns it into a failed call. The sub-agent runs inside a call of the
agent, with its ToolContext, so that no call of the two overlaps; its results go into another
conversation. `told` is the latest result in the agent's conversation, `behind` whether a sub-agent has
begun a write since. Rows are read by `created_at`, of a clock that is not set back in between.

**Conversation.** A section has a kind, a text and a size; equal sections are equal by value, as
dataclasses are. `pack()` is a loop, and each of its rounds a step: `Build` collects the sections and
keeps them all, `Drop` takes the oldest section of the least important kind out of `kept` as long as the
rest does not fit, `Overflow` raises when nothing may go, and `Send` restores the order in which the
sections were added. The sort by `_sections.index(s)` is `Packed`: the place of a section is the number
of those that precede it, where equal sections share one index and stay in the order of the first sort.
`running` has the last `Window` messages, the only ones that are ever read; as in the slice `[-0:]`, a window
of zero means all.

**PlanOrder.** A plan is a function from goals to what they depend on and to a priority. The
iteration over the set `remaining` has no order, the sort has one: `Place` takes the least goal of
the wave. Ids are numbers that sort like the ids.

## 3. Runs

| run | instance | distinct states | question |
|---|---|---|---|
| LoopController | 2 goals, limit of 3 iterations or none (bound 2), rollback after 2, advice after 1, clock and jobs on, ignored and untracked files | 864,800 | do rows, iterations, tags, counters, rollbacks agree at every step; does a limit, a stop or the clock end the session; does it implement GoalLedger |
| EventBus | 2 clients, 3 events, queues of 2, requests at 0 or 2 events | 246,426 | is an event lost or out of order, does every stream end |
| SessionRunner | 2 sessions, 4 requests, a table of 2 models, slow starts, restart | 225,992 | is an answered session found, does an accepted stop take effect, do URL and model belong together |
| BackgroundJobs | 5 scripts, pipe 2, read 2, results of 2, 3 reads, children, kill | 7,094 | is finished complete, is anything lost, do killed jobs finish without a child that ignores SIGTERM |
| JobsPipes | the same scripts, nobody reads or kills | violation | does a job that would end by itself end |
| Workspace | 2 files (one ignored), 2 versions, 2 goals, 4 sets of what else may happen (nothing; patches and a locked index; resets and sub-agents; commands) | 1,028,366 | are rollbacks exact, tags complete, writes never on top of an unread change |
| Conversation | budget 9, sizes 1, 4, 7, window 4, 2 calls per answer, 5 iterations, advice after 1, rollback after 3 | 76,662 | what does a full prompt leave out, is the rest in order, is every call answered |
| PlanOrder | all plans of 3 goals, 2 priorities, 1 unknown id | 67,912 | are dependencies first, cycles found, is the order determined |
| PlanPriority | the same plans | violation | does a ready goal with a lower number come first |
| TodoList | lists of up to 2 of 2 todos, pending or in progress, agent and sub-agents | 260,862 | are the rows ever of two lists, does a reminder name what the agent does not know |
| SseReader | 4 events with 1 heartbeat, LF or CR LF | 8,822 | is what the log shows true, is it closed |
| SseCrlf | 2 events, CR LF | violation | does the log show the events |

Why these bounds are enough for the cases that matter. *LoopController*: two goals give a goal
with and one without a tag to roll back to, and a goal after a skipped or failed one; three
iterations with a rollback after two failures give an advice, a rollback and a failure after the
rollback; one tool call per answer suffices because calls change only the workspace and a call may
change it to anything. Without a limit (`maxIter = 0`) the counters would grow for ever; the
bound `IterCap` stops the model there, and `AtBound` states that have not ended count against
`LimitsEnd` only when a limit has struck, in which case the loop head gives up before the bound
matters. *EventBus*: three events overflow queues of two; two clients give a second one that
unsubscribes under the emitting loop and one that waits for the lock. Requests after zero and two
events cover an empty history, a full one and one that is trimmed during the replay.
*BackgroundJobs*: scripts are silent, shorter than a read, longer than a pipe on either stream,
or alternate. *SessionRunner*: two sessions give one of the API beside one of the command line and
a stop of one that must leave the other alone; the requests name an entry of the table, a model it has
not, nothing, or another database. *Workspace*: one ignored and one ordinary file, and the four sets
separate what each of these can spoil. *TodoList*: two items give a write that is cut between its
inserts, a list that would mix with its predecessor and two items that could both be in progress.
*SseReader*: four events give one before, one in and one after a cut, besides the last; *SseCrlf* needs one
event that is not shown.
*Conversation*: sizes of 7 of 9 make logs and diffs that nearly fill or overflow the budget; five
iterations pass a rollback and fill the window. *PlanOrder*: three goals give cycles of two and three, a goal behind a cycle, chains, and a goal that is released
while the rest of a wave is still to be placed.

Deadlock checking is off where the modelled system really stops. In BackgroundJobs and
JobsPipes a finished (or stuck) job does nothing more, in SessionRunner all threads are gone, in
EventBus all events are out and all clients gone, or a replay waits for room for ever. The other
modules end in an explicit step that changes nothing (`Finished`, `Dead`, `Over`).

**Fairness.** *LoopController*: weak fairness of the controller thread. It is an OS thread, and
each of its steps returns: the LLM client, shell commands and checks have timeouts, SQLite waits at
most 30 s and then raises, which is `Abort`. Neither jobs, stop requests nor faults are fair.
*EventBus*: weak fairness of the emitting thread and of each coroutine, and the heartbeat is one of
its steps: `wait_for(queue.get(), timeout=15)` is all that wakes an event loop which a `put_nowait` of
another thread has not told of anything, and `StreamsClose` fails without it. *SessionRunner*: handlers
and threads are scheduled; the loop is fair to end only once it was asked to stop, which is what
`LimitsEnd` shows of it; the store, interrupts and restarts are not fair. *SseReader*: the server goes
on writing, what is written arrives or the connection breaks, and the extension host runs on.
*BackgroundJobs*: the reader thread runs on, and a tool call that has begun returns; whether the model
reads or kills at all is not fair, and neither the job nor a child it left behind owes anything. Only
JobsPipes takes the job to be fair (`EndingSpec`), since its question is about jobs that would end by
themselves.

**What the properties say, beyond types.**
LoopController: `PassedTagIsGood` (a passed goal can be reverted to), `StrategyApplied` (counters,
advice and rollbacks in step), `SessionInv` (the inductive invariant; among its conjuncts are
`GoodIsLatest`, the rollback target, read once, stays current, and `RowsFollowOrder`, no goal is tried
out of turn or after a skipped one; it implies `LedgerAgrees`, goal rows and iteration rows tell one
story whenever the process may die), `ClosedIsComplete` (an orderly end accounts for every goal),
`RollbackRestores` (a rollback restores what the tag was made for), `LedgerSpec` (which has that terminal
rows are not rewritten), `Terminates`, `LimitsEnd`. EventBus: `SubscriberGetsCopy`, `StreamsClose`. SseReader: `LogIsTrue`, `LogCloses`,
and `EventsShown`, which is false.
SessionRunner: `AnsweredIsFound`, `RouteIsServed`, `StopTakesEffect`. BackgroundJobs:
`FinishedIsComplete`, `FinalReadIsWhole`, `KilledJobFinishes`. Workspace: `OverwriteIsCurrent`,
`RollbackIsExact`, `TagHoldsWrites`. Conversation: `FailureShown`, `PromptIsPacked`, `AdviceShown`,
`CallsAnswered`. PlanOrder: `DepsFirst`, `CycleIsReal`, `OrderIsDetermined`,
and `PriorityFirst`, which is false. TodoList: `OneInProgress`,
`RowsOfOneList`, `ReminderIsKnown`. Each that holds has one or more mutants in `PROJECT.json`: a plausible bug,
defined next to the definition it replaces and marked `Mutant`, under which TLC reports the property
violated.

Conditions inside properties are limits of the code, each with its reason in the comment:
`PassedTagIsGood` and `RollbackRestores` claim the content of a tag only for a goal in `exact`, and of a
rollback only where git knows of all files, for a tag lacks what `.gitignore` names and may hold what a
job wrote unseen; `KilledJobFinishes` excludes a child that ignores SIGTERM;
`SubscriberGetsCopy` excludes a subscriber whose queue overran (it drops by design) and one that
was served while another unsubscribed (`events.py:54` iterates over a list that shrinks), and its
order excludes one whose replay overlapped an emit; `RollbackIsExact` lets a file remain that git was
never told of, where commands wrote it or the index was locked; `TagHoldsWrites` is weaker for ignored
files, which only the post-hook's forced add stages; `OverwriteIsCurrent` holds without shell commands,
resets and sub-agents, for the read set does not know of them, and speaks of the version that was read, not
of how much of it was shown; `AnsweredIsFound` excludes a store
that refuses to close the row, and `RouteIsServed` the two kinds of request listed in section 4;
`ReminderIsKnown` excludes what the agent cannot know: a call that failed, whose effect it is not told,
and a list its sub-agent wrote; `LogIsTrue` speaks of what is shown, and lets an event that a chunk cuts
lose its type; `CallsAnswered` says nothing of where the results stand when an answer has more calls than
messages are read again.

## 4. Findings

1. **JobsPipes** (`JobFinishes`). `_drain` waits for 4096 bytes of stdout before it looks at stderr
   (`tools/shell.py:165-166`): a job that fills the stderr pipe meanwhile never ends, although
   `shell.py:137-138` speaks of a thread that drains both.
2. **PlanPriority** (`PriorityFirst`). `plan/topo.py:15-25` orders in waves: goal 3 with priority 1, which
   waits for goal 1, is ready when goal 1 is placed, and yet comes after goal 2 with priority 2, although
   line 9 says "Among ready goals, lower priority first". `OrderIsDetermined` states the order there is.
3. **SseCrlf** (`EventsShown`). The extension recognises the end of an event by `ln === ""`
   (`src/vscode-extension/src/api.ts:116`), and sse-starlette ends lines in CR LF unless it is told
   otherwise, which `api/server.py:228` does not: each line keeps its carriage return and no event is ever
   shown, although `src/vscode-extension/README.md:22` says that the channel shows them.

Divergences met while modelling that no run of its own shows; many are the conditions of a property:

* `state/snapshot.py:3-5` calls the tag of every successful goal a known-good state. `git add -A` (53)
  leaves out what `.gitignore` names, so that a goal whose checks need an ignored build product has a tag
  that fails it; and ignored files of a failed attempt outlive `reset --hard` (65).
* The jobs of a goal are killed after the snapshot (`controller.py:382-388`): what they write between the
  verification and the snapshot is in the tag. The checks run one after the other
  (`verifier.py:55-71`), so that a job that writes between two of them can make all pass though they never
  held together. Either way the tag may fail its goal (`exact`).
* The check of prior reads "prevents accidental overwrites" (`hooks.py:85`), but `read_file` succeeds with
  nothing shown when the offset is past the end (`fs.py:115-116`), or with the lines that limit and
  max_bytes leave (117-120), as does `read_files` with its first lines (166); each opens the guard for the
  whole file.
* `shell.py:153` makes a process group to "kill children too", but SIGKILL follows only while the leader is
  alive (209-213): a child that ignores SIGTERM lives on, holds the pipes, and the job is never finished.
* With `rollback_after` at or below `strategy_change_after` a rollback clears the count before the
  strategy message is due, once there is a tag: `decide` asks for both (`strategy.py:27`), and the `elif` of
  the loop (`controller.py:402-408`) does the one only.
* A stop request after the last goal has ended makes the session `stopped` though all goals passed
  (`controller.py:152-153`).
* `events.py:47-48` speaks of a small lock, but `emit` takes none: an event emitted between the append
  to `_subscribers` and the replay is delivered twice, first ahead of older ones (`raced`).
* A stop request is answered "session not active in this server" (`api/server.py:199`) while the
  session runs there: before its runner is registered, or ever after the five-second poll gave up.
* The API takes the flat `base_url` and the model of the plan (`api/runner.py:73-75`), although a plan "can
  select" an entry of the routing table by its key (`config.py:185-186`): the flat server is asked for a
  model named like the key. The command line resolves it.
* `config_overrides` are a "partial loopcoder.yaml override merged on top" (`api/models.py:17`); the merge
  replaces whole sections, so that `{"llm": {"temperature": 0}}` resets URL and model to the defaults of
  the class. An override of `storage.state_db` puts the row where the server does not look.
* `loopcoder run --resume` is accepted and read by no code (`cli.py:43`).
* When the store fails at both calls of `end_session` (`controller.py:153`, 158), session.ended is never
  emitted and the streams of the session send heartbeats for good.
* The plan's `max_total_minutes` (`plan/schema.py`) is read by no code; only the config's counts.
* `llm/context.py:19-21` says an overflow lets the controller abort the goal; the exception ends the
  whole session as `error`.
* `run()` re-raises after an error and repairs nothing; `running` rows of a dead process stay, and
  no code resumes a session.
* Jobs are killed only when a goal passes; those of failed, stopped or aborted goals run on.
* A runner that is registered after its thread removed it stays in the registry (`runner.py:122`).
* `replay` waits for room with the lock held (`events.py:74`), so one request can hold up all others.
* `read_background_output` appends stderr although stdout was cut (`shell.py:276-278`), and
  `finished` may be newer than the output it comes with (284).
* `pack()` finds a section's place with `list.index` (`llm/context.py:126`), which compares by value: two
  equal messages of different iterations are put next to each other. `PromptIsPacked` excludes them.
* The store is called the source of truth of the todo list (`tools/todo.py:53`), but `replace` clears and
  inserts in one transaction each: a failure in between leaves part of the list.
* `run_tests` runs outside the sandbox, and its timeout ends the direct child only.
* A plain `git_diff` is empty after every write, since the post-hook stages it (`hooks.py:106-109`,
  `git.py:61`); `read_files` records the path as given, `read_file` the normalised one (`fs.py:170`).
* `hooks.py:9` lists apply_patch among the tools that need a prior read; it is not registered (123).
* `revert_to_snapshot` leaves the read set as it was; reads by a sub-agent count for its parent, which
  has not seen them; a sub-agent may call tools it was not offered (`controller.py:526`).
* The reminder's "not re-read since" is a difference of two sets without time (`controller.py:253`).
* The "diff since goal start" of the prompt is since the session's initial tag.
* A goal called `initial` would share its tag with the initial snapshot (`snapshot.py:46-49`).
* A goal runs although one it depends on has failed (`controller.py:144-151`).
* `list_sessions` leaves out the token columns (`store.py:269`), so the API reports 0.
* `api.ts:109-110` forgets the event under way at each network chunk, session.ended too: with lines that
  end in LF an event that is cut loses its type or is lost (`cut`; `EventsShown` fails there as well).
* A write by a sub-agent replaces the todo list of the agent, which is not told of it (`behind`).
* `scripts/upgrade-suite.sh:71` makes a relative link that `readlink -f` (100) cannot follow, so the
  version just linked is not protected from pruning.

## 5. Proofs

**The goal loop.** `LoopControllerProofs` proves, from the assumptions `NumGoalsAssumption`,
`LimitsAssumption` and `FlagsAssumption` (at least one goal, limits are naturals, switches are Boolean):

| theorem | statement |
|---|---|
| `TypeCorrect` | `Spec => []TypeOK` |
| `SessionInvariant` | `Spec => [](TypeOK /\ SessionInv)`, the inductive invariant |
| `LedgerAgreement` | `Spec => []LedgerAgrees` |
| `PassedTagCorrect` | `Spec => []PassedTagIsGood` |
| `RollbackTarget` | `Spec => []GoodIsLatest` |
| `RowsInOrder` | `Spec => []RowsFollowOrder` |
| `OrderlyEnd` | `Spec => []ClosedIsComplete` |
| `RowsStayFrozen` | `Spec => TerminalRowsFrozen` |
| `StrategyIsApplied` | `Spec => []StrategyApplied` |
| `RollbacksRestore` | `Spec => RollbackRestores` |
| `LoopImplementsLedger` | `Spec => LedgerSpec`, the refinement |

The argument. `TypeOK` is split into `FlagsOK`, whose variables are Boolean and suit Zenon, and
`DataOK`, which carries the bounds of `cur` that make `row[cur]` meaningful. None of the properties
is inductive by itself; `SessionInv` adds what the program counter knows:

* `PcInv`: which status the session and the current goal's row have at each program counter. Without
  it a row could be closed twice.
* `VerdictInv`: how many iteration rows the current goal has at each program counter, all failed
  until the snapshot. `LedgerAgrees` follows when `EndGoal` copies `iter` to the row.
* `OrderInv`: no row after the current goal, no other goal running. It makes an update of
  `row[cur]` harmless to every other goal.
* `TagInv`: the tag exists from `endGoal` on; and a goal in `exact` is still satisfied at the snapshot,
  where neither a job nor an ignored file can spoil it, so that its tag satisfies it from then on.
* `LimitInv`: a skipped or stopped row leaves the flag behind that caused it, and neither flag goes
  back; hence no goal is tried after a skipped one.
* `ScopeInv`: the loop leaves no goal behind without a row.
* `StrategyInv`: the failure counter, kept through a whole iteration and not only at the loop head
  where `StrategyApplied` looks. At the loop head it is at most the number of iterations and below the
  threshold of a rollback if there is a tag to go back to; within an iteration it is smaller by one
  than the iteration count, so that a failure that is counted cannot pass a threshold unseen.

One lemma per conjunct shows that `[Next]_vars` preserves it, with one step per action.
`RowsStayFrozen` needs only that the actions touch `row[cur]` and that `row[cur]` is open when they
do. `RollbacksRestore` needs `GoodIsLatest` for the row and `TagInv` for the tag. For the refinement every action is mapped to a ledger step or a stutter: `BeginGoal` and
`BeginSkip` to `Begin`, `GiveUp` and `EndPassed` to `Conclude` (`LimitInv` gives that nothing was
skipped), `EndSkip` to `Skip`.

**The order.** `PlanOrderProofs` proves, for any sets of ids and priorities:

| theorem | statement |
|---|---|
| `OrderInvariant` | `Spec => [](TypeOK /\ PlanInv)`, the inductive invariant |
| `DependenciesFirst` | `Spec => []DepsFirst` |
| `CyclesOnly` | `Spec => []CycleIsReal` |
| `OrderDetermined` | `Spec => []OrderIsDetermined` |

`PlanInv` has four parts. `Bookkeeping`: what is left is what is not placed, and each goal that is left
waits for exactly its unplaced dependencies, so that `Place` takes a goal whose dependencies are placed
and that is not. `Prefix`: the first two conjuncts of `DepsFirst`, which follow from that one goal at a
time. `KnotsStay`: no goal of a set that waits for itself is ever placed. An order of all goals thus
excludes cycles, and when nothing is free the rest waits for itself, which is `CycleIsReal`.
`WavesAreDepths`: the wave a goal is placed in is its depth. The goals that are placed have a depth, by
which they are sorted, and the wave `k` that is under way takes goals that wait for one of wave
`k - 1` and for none later (`InWave`), because whatever is left over between two waves could not have
been in an earlier one (`BeforeWave`). The depth is given by what it must satisfy (`IsDepth`), not by
recursion: only so could it be reasoned about, and for a plan without cycles the two are the same.

**The session registry.** `SessionRunnerProofs` proves, for any set of sessions, files and requests, from
`FilesAssumption` (None is no key of the table) and `FlagsAssumption`:

| theorem | statement |
|---|---|
| `OverrideKeeps` | an override leaves the sections alone that it does not name |
| `RunnerInvariant`, `RunnerTypes` | `Spec => [](TypeOK /\ RunnerInv)`, the inductive invariant |
| `AnsweredFound` | `Spec => []AnsweredIsFound` |
| `RouteServed` | `Spec => []RouteIsServed` |

`RunnerInv` has three parts. `Progress`: how far request and thread of a session can be apart. The id is
taken after the row is inserted, and neither handler nor registry know a session without one.
`Registered`: from the registration to the removal the registry has the session, and the row is closed
before; here the order of `Register` and `Remove`, which are steps of two threads, is of no matter, for
an answered session that was removed first is on record as finished. `SettledRight`: route and
database are what the file and the request say; no later step touches them. The rest is about
Settings alone: `OverrideKeeps`, and that what `ResolveEndpoint` and `FlatEndpoint` return is served.

**The todo list.** `AgentProofs` proves, for any ids and lists of any length, from `TodoAssumption`
(its initial state, steps, specification and types are called `TodoInit`, `TodoNext`, `TodoSpec` and
`TodoTypeOK`, since the module is about Conversation too):

| theorem | statement |
|---|---|
| `TodoInvariant`, `TodoTypes` | `TodoSpec => [](TodoTypeOK /\ TodoInv)`, the inductive invariant |
| `AtMostOneInProgress` | `TodoSpec => []OneInProgress` |
| `StoredRowsOfOneList` | `TodoSpec => []RowsOfOneList` |
| `RemindersAreKnown` | `TodoSpec => ReminderIsKnown` |

`TodoInv`: while a write is under way the rows followed by what is left are the list that was sent, and
that list was accepted (`Writing`); so each item inserted is new to the rows, the upsert appends, and
every beginning of an accepted list is accepted. Outside of its own writes the agent was shown what
is stored (`Shown`). The lemmas about lists rest on `SequenceTheorems`.

**The conversation.** `AgentProofs` proves, for any budget, any window, any thresholds, any sizes of
sections and any number of iterations, from `ConversationAssumption`:

| theorem | statement |
|---|---|
| `ConversationInvariant`, `ConversationTypes` | `Spec => [](TypeOK /\ GoalInv)`, the inductive invariant |
| `FailuresAreShown` | `Spec => []FailureShown` |
| `PromptsArePacked` | `Spec => []PromptIsPacked` |
| `AdviceIsShown` | `Spec => []AdviceShown` |
| `CallsAreAnswered` | `Spec => []CallsAnswered` |

None of the four properties is inductive: each speaks of one stage, and holds there because of what the
stages before it did. `GoalInv` says what:

* `SectionsInv`: from `Build` until the answer, `sections` is what `_run_goal` collects from the failure and
  the messages at hand. The lemmas `Places` and `WhatMayGo` read off where the diff, the log and the
  conversation are, and that nothing else may be dropped.
* `FailureInv`, `AdviceInv`: from the second iteration on the log of the one before is at hand; at the
  beginning of an iteration the advice that is due is the last message, and after a rollback there is none.
* `CallsInv`: the messages end in the turn under way and the answers to the calls carried out so far.
  Messages move towards the front as others are added, and `SayIs` says where to. An answer with as many
  calls as messages are read again (`context.list_dir_max_entries`, 500 unless set) would push its own
  turn out; nothing in the code excludes it, and `FitsWindow` sets it apart.
* `PackInv`: what is dropped is the conversation from its oldest message on and then the diff, and putting
  back what went last gives a prompt that did not fit. It rests on `VictimIs`: the first of a stable sort is
  the least position of the least important kind, which exists (`LeastOf`). Of the sum of the sizes the
  proof needs nothing but its comparison with the budget, which the code makes in every round.
* `OrderKept`: `PackedSorts` shows that sorting takes each section that is kept once and in the order of
  `Precedes`, for sections that need not differ. The ranks rise along `Precedes`, so they are an injection
  into as many numbers as there are sections, and by the pigeonhole principle a surjection: each place is
  taken by one section. A section unlike all others is its own index (`AloneIndex`), and the sections that
  share an index are of one kind, which is why the last section of the prompt is a message if any is.

**Background jobs.** `BackgroundJobsProofs` proves, for any output of a job, any children it leaves behind
and any sizes of pipe, read and result, from `JobsAssumption`:

| theorem | statement |
|---|---|
| `JobsInvariant`, `JobsTypes` | `Spec => [](TypeOK /\ JobsInv)`, the inductive invariant |
| `FinishedComplete` | `Spec => []FinishedIsComplete` |
| `FinalReadWhole` | `Spec => []FinalReadIsWhole` |

`JobsInv` has three parts. `Flow`: every unit written is in the pipe, in the read under way or stored.
`DrainInv`: a read that came back short has seen the end of the file, which is for good once leader and
child are gone, so a round that brought nothing leaves both pipes at their end. `ReadInv`: the offset
stays behind what the tool saw, and that behind what is stored; a tool that saw the job finished saw
the final buffers. When the job is finished pipe and read are empty, so `Flow` says that the buffers
hold all that was written.

**The workspace.** `WorkspaceProofs` proves, for any files, versions, goals and sets of what else may
happen, from `IgnoredAssumption`, `ToolSetsAssumption` and `SizesAssumption` (ignored files are files, the
sets hold the six names, the bounds are naturals):

| theorem | statement |
|---|---|
| `WorkspaceInvariant`, `WorkspaceTypes` | `Spec => [](TypeOK /\ WorkspaceInv)`, the inductive invariant |
| `OverwritesAreCurrent` | `Spec => OverwriteIsCurrent` |
| `RollbacksAreExact` | `Spec => RollbackIsExact` |
| `TagsHoldWrites` | `Spec => TagHoldsWrites` |

The three properties are about a step, and each needs to know how the views of a file lie before it.
`ReadIsBase`: what is in the read set has the version it had when it was last read or written, or is gone;
this is why nothing that changes files behind the conversation may be in use. `AllStaged`: without commands and busy locks
git knows of every file that is there, so that what a reset leaves behind was never told to git.
`WrittenStaged`: with the file tools alone every file written is in the index, so that the snapshot's
`git add` takes an ignored one too. `TagsInv`: the tag a rollback goes to exists. The lemmas before them
say what `git add`, `commit` with `tag` and `reset --hard` with `clean` do to disk, index and tags.

**The live log.** `SseReaderProofs` proves, for any number of events, any heartbeats and chunks that end
anywhere, from `StreamAssumption`:

| theorem | statement |
|---|---|
| `ReaderInvariant`, `ReaderTypes` | `Spec => [](TypeOK /\ ReaderInv)`, the inductive invariant |
| `LogTellsTruth` | `Spec => []LogIsTrue` |

The lines of the stream are numbered, three to an event, and the position of the reader is the number
of the last line it looked at. `LinesInv`: chunk and wire hold the lines that follow, none missing, which
is where the reassembly of partial lines would go wrong. `CutInv`: an event that the reader has taken
in part is in `cut`. `ParserInv`: type and data belong to the event at the position, and are all of
it unless it is in `cut`. `LogInv`: the log has events behind the position only, one to an entry and in
order. The theorem says that what is shown is true; that something is shown is false (SseCrlf).

**The event bus.** `EventBusProofs` proves, for any clients, any number of events and any size of
queues and history, from `BusAssumption`:

| theorem | statement |
|---|---|
| `BusInvariant`, `BusTypes` | `Spec => [](TypeOK /\ BusInv)`, the inductive invariant |
| `CopiesArrive` | `Spec => []SubscriberGetsCopy` |

The argument is about the *stream* of a client: what it received, then its queue, then what its
replay has still to give. Every step moves events along a stream, appends one, or drops one from the head
of the queue. `HistoryInv`: the history is the latest events without a gap, so a replay that begins
gives all that was emitted. `SubsInv`: the list of subscribers is the requests under way, each once, so
that `remove` takes out the right place. `ClientInv`: a replay stays within its list, and an emit that
overlaps it is on record in `raced`. `LoopInv`: the subscriber being served is behind the position of
the for loop. For an event under way a client is `Serving` (the loop is at its queue) or `Waiting` (the loop
has still to come to it). `NobodyIsServedAgain` says that neither comes true again for the same event,
which gives the order: `OrderInv` keeps streams rising and the event under way out of those that will
get it. `NobodyIsForgotten` says that they last until the event is in the queue, which gives completeness:
`CopyInv` has each emitted event in the stream, and the one under way in the stream or on its way. It
fails as soon as somebody unsubscribes and the list shrinks under the loop, and this is the condition
`SubscriberGetsCopy` states.

TLC checked each of these formulas, the inductive invariants included, before it was proved.

Only model-checked:

* Liveness (`Terminates`, `LimitsEnd`, `StreamsClose`, `LogCloses`, `StopTakesEffect`,
  `KilledJobFinishes`): beyond the prover under fairness.
* What the recursive definitions of the library compute for every input: the sum of the sizes of a
  prompt (`Used`) is taken as it is, and the proofs use no fact about it.

## 6. What is not modelled

* Sandbox, MCP server, catalog, reports, logging: one call each, or output; no state to go wrong. Of the
  command line only `run` changes state; the other commands print. Of the settings only the sections
  llm and storage decide where a session goes.
* The critic: no code calls it.
* Forbidden paths, allowed commands, listing and searching: decisions about one call.
* Retries of the LLM client: `Chat` returns or raises, whatever came before. Token counting: a size.
* Messages and token rows: written by the loop, read by no step of it.
* What `decode(errors="replace")` makes of output that is cut within a character (`shell.py:275`): output is
  counted in whole units.
* The inside of `asyncio.Queue`, of the SSE library, of git and of SQLite: external, as the code uses them.
* The extension's views, `setup.sh`, bundles, containers, `scripts/upgrade-suite.sh`: user interface and
  installation, run by hand.

## 7. Plan

Done, in this order: GoalLedger and LoopController with its proofs, EventBus, SessionRunner,
BackgroundJobs, Workspace, Conversation, PlanOrder with its proofs; then Settings inside SessionRunner
with its proofs, TodoList with its proofs, the proofs of BackgroundJobs, SseReader, the sleeping event
loop and the index that is locked. Where a model gained behaviour it joined the run that asked the question already.

Then the proofs of Workspace, SseReader and EventBus, those of `StrategyApplied` and `RollbackRestores` for
the loop, and that of `OrderIsDetermined`, whose depth was a recursive function before.

Last `pack()` as steps that drop one section each, with which the properties of Conversation became
invariants of the steps and could be proved; and the files that git ignores in the loop, with which the
tags promise less and the theorems about them need no condition on jobs any more. What is left open is the liveness of section 3 and the parts that
section 6 lists.
