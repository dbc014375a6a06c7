---------------------------- MODULE Conversation ----------------------------
(***************************************************************************)
(* What the model gets to see during one goal: the sections that           *)
(* LoopController._run_goal collects for every LLM call, how the           *)
(* ContextBuilder of llm/context.py packs them into the token budget, and  *)
(* how the answer (llm/client.py, llm/tool_fallback.py) and the results of *)
(* its tool calls become sections of the next call.                        *)
(*                                                                         *)
(* A section has a kind, a text and a size.  Two sections with the same    *)
(* fields are equal, as those of the dataclass are, wherever they stand;   *)
(* a text is a label with what makes it different from others of its kind. *)
(***************************************************************************)
EXTENDS Naturals, Sequences, FiniteSets

Sets == INSTANCE FiniteSetsExt

CONSTANTS
  Budget,         \* total_budget_tokens - reserve_for_completion
  Window,         \* config.context.list_dir_max_entries, 0 = all messages
  StrategyAfter,  \* loop.strategy_change_after, 0 = never
  RollbackAfter,  \* loop.rollback_after, 0 = never
  HasGood,        \* last_good_tag is not None
  MaxCalls,       \* bound: tool calls of one answer
  ResultSizes,    \* sizes of tool results
  Sizes,          \* sizes of logs and diffs
  MaxIter         \* bound: iterations of the goal

ASSUME ConversationAssumption ==
  /\ Budget \in Nat \ {0} /\ Window \in Nat
  /\ StrategyAfter \in Nat /\ RollbackAfter \in Nat /\ MaxIter \in Nat
  /\ HasGood \in BOOLEAN
  /\ MaxCalls \in Nat
  /\ ResultSizes \subseteq Nat \ {0} /\ Sizes \subseteq Nat \ {0}

VARIABLES
  stage,      \* build, pack, chat, calls, done, error, overflow
  iter,       \* iter_
  fails,      \* consecutive_failures
  failure,    \* last_verify, as a sequence of no or one section
  running,    \* the messages of running_messages that are read again
  asked,      \* the tool calls of the latest answer
  waiting,    \* those of them that have not been carried out
  recorded,   \* ids of the iteration's rows in tool_calls
  sections,   \* ContextBuilder._sections of the latest call
  kept,       \* those that pack() has not dropped, as positions in `sections'
  prompt      \* what pack() returned, as positions in `sections'

calls   == <<asked, waiting, recorded>>
request == <<sections, kept, prompt>>
vars    == <<stage, iter, fails, failure, running, calls, request>>

-----------------------------------------------------------------------------
(* ContextBuilder.                                                         *)

\* PRIORITY and NEVER_TRUNCATE, for the kinds the controller makes.
Priority      == [system |-> 0, goal |-> 1, verify_log |-> 2, git_diff |-> 4, attempt |-> 5]
NeverTruncate == {"system", "goal", "verify_log"}

Kinds   == DOMAIN Priority
Section(kind, text, size) == [kind |-> kind, text |-> text, size |-> size]

Used(secs, from) == Sets!MapThenSumSet(LAMBDA i : secs[i].size, from)
Droppable(secs)  == {i \in DOMAIN secs : secs[i].kind \notin NeverTruncate}

\* Mutant: the newest of them.
VictimNewest(secs, from) ==
  CHOOSE i \in from :
    \A j \in from :
      \/ Priority[secs[i].kind] > Priority[secs[j].kind]
      \/ Priority[secs[i].kind] = Priority[secs[j].kind] /\ i >= j

\* A stable sort by descending priority number: the oldest of the sections
\* that matter least.
Victim(secs, from) ==
  CHOOSE i \in from :
    \A j \in from :
      \/ Priority[secs[i].kind] > Priority[secs[j].kind]
      \/ Priority[secs[i].kind] = Priority[secs[j].kind] /\ i <= j

\* _sections.index(s) finds the first section that is equal to s.
IndexOf(secs, i) == Sets!Min({j \in DOMAIN secs : secs[j] = secs[i]})

\* Mutant: what is kept stays in the order of pack()'s first sort.
PrecedesByPriority(secs, j, i) ==
  \/ Priority[secs[j].kind] < Priority[secs[i].kind]
  \/ Priority[secs[j].kind] = Priority[secs[i].kind] /\ j < i

\* The order of the last sort: by that index, equal sections one after the other.
Precedes(secs, j, i) ==
  \/ IndexOf(secs, j) < IndexOf(secs, i)
  \/ IndexOf(secs, j) = IndexOf(secs, i) /\ j < i

\* The sections of `from' in that order.
Packed(secs, from) ==
  LET before(i) == {j \in from : Precedes(secs, j, i)}
  IN  [k \in 1..Cardinality(from) |-> CHOOSE i \in from : Cardinality(before(i)) = k - 1]

-----------------------------------------------------------------------------
(* One goal.                                                               *)

Init ==
  /\ stage = "build"
  /\ iter = 0
  /\ fails = 0
  /\ failure = <<>>
  /\ running = <<>>
  /\ asked = <<>> /\ waiting = <<>> /\ recorded = <<>>
  /\ sections = <<>> /\ kept = {} /\ prompt = <<>>

\* s[-n:], which is all of s when n is zero.
LastN(s, n) == IF n = 0 \/ Len(s) <= n THEN s ELSE SubSeq(s, Len(s) - n + 1, Len(s))

\* running_messages grows, but only its last Window messages are ever read.
Say(messages) == running' = LastN(running \o messages, Window)

System      == Section("system", <<"system">>, 1)
Reminder(n) == Section("goal", <<"reminder", n>>, 1)
GoalText    == Section("goal", <<"goal">>, 1)

\* The sections of iteration n in the order they are added.
Sections(n, diff) ==
  <<System, Reminder(n), GoalText, Section("git_diff", <<"diff", n>>, diff)>>
    \o failure \o running

Build ==
  /\ stage = "build"
  /\ iter < MaxIter
  /\ iter' = iter + 1
  /\ \E diff \in Sizes : sections' = Sections(iter + 1, diff)
  /\ kept' = DOMAIN sections'
  /\ prompt' = <<>>
  /\ stage' = "pack"
  /\ UNCHANGED <<fails, failure, running, calls>>

Fits(from) == Used(sections, from) <= Budget
MayDrop    == kept \cap Droppable(sections)

\* Mutant: two sections go in each round.
DropTwo ==
  LET rest == MayDrop \ {Victim(sections, MayDrop)} IN
  /\ stage = "pack" /\ ~Fits(kept) /\ MayDrop # {}
  /\ kept' = kept \ ({Victim(sections, MayDrop)}
                      \cup (IF rest = {} THEN {} ELSE {Victim(sections, rest)}))
  /\ UNCHANGED <<stage, iter, fails, failure, running, calls, sections, prompt>>

\* One round of the loop of pack().
Drop ==
  /\ stage = "pack" /\ ~Fits(kept) /\ MayDrop # {}
  /\ kept' = kept \ {Victim(sections, MayDrop)}
  /\ UNCHANGED <<stage, iter, fails, failure, running, calls, sections, prompt>>

\* ContextOverflowError goes out of _run_goal, and the session ends as "error".
Overflow ==
  /\ stage = "pack" /\ ~Fits(kept) /\ MayDrop = {}
  /\ stage' = "overflow"
  /\ UNCHANGED <<iter, fails, failure, running, calls, request>>

\* pack() returns.
Send ==
  /\ stage = "pack" /\ Fits(kept)
  /\ prompt' = Packed(sections, kept)
  /\ stage' = "chat"
  /\ UNCHANGED <<iter, fails, failure, running, calls, sections, kept>>

\* Calls the server returns have ids of their own; those recovered from the
\* text are numbered, and get the same ids in every answer.
ServerCalls    == UNION {[1..n -> [id : {<<iter, k>> : k \in 1..n}, bad : BOOLEAN]] : n \in 0..MaxCalls}
RecoveredCalls == UNION {[1..n -> [id : {<<0, k>> : k \in 1..n}, bad : BOOLEAN]] : n \in 1..MaxCalls}
Answers        == {c \in ServerCalls \cup RecoveredCalls : \A k \in DOMAIN c : c[k].id[2] = k}

\* meta, which holds the calls, is a field of the section.
Turn(c) == Section("attempt", <<"turn", c>>, 1)

Chat ==
  /\ stage = "chat"
  /\ asked' \in Answers
  /\ waiting' = asked'
  /\ recorded' = <<>>
  /\ Say(<<Turn(asked')>>)
  /\ stage' = "calls"
  /\ UNCHANGED <<iter, fails, failure, request>>

\* All attempts failed, or one with an error that is not tried again.
ChatFails ==
  /\ stage = "chat"
  /\ stage' = "error"
  /\ UNCHANGED <<iter, fails, failure, running, calls, request>>

Answered(call, message) ==
  /\ Say(<<message>>)
  /\ recorded' = Append(recorded, call.id)
  /\ waiting' = Tail(waiting)
  /\ UNCHANGED <<stage, iter, fails, failure, asked, request>>

\* Mutant: the model is not told that its call was rejected.
RejectCallSilently ==
  /\ stage = "calls" /\ waiting # <<>> /\ Head(waiting).bad
  /\ recorded' = Append(recorded, Head(waiting).id)
  /\ waiting' = Tail(waiting)
  /\ UNCHANGED <<stage, iter, fails, failure, running, asked, request>>

\* An unknown tool, or arguments that do not parse.
RejectCall ==
  /\ stage = "calls" /\ waiting # <<>> /\ Head(waiting).bad
  /\ Answered(Head(waiting), Section("attempt", <<"rejected", Head(waiting).id>>, 1))

\* ToolRegistry.call raises nothing: failures are results as well.
CallTool ==
  /\ stage = "calls" /\ waiting # <<>> /\ ~Head(waiting).bad
  /\ \E n \in ResultSizes :
       Answered(Head(waiting), Section("attempt", <<"result", Head(waiting).id>>, n))

Verifying == stage = "calls" /\ waiting = <<>>

VerifyPasses ==
  /\ Verifying
  /\ stage' = "done"
  /\ UNCHANGED <<iter, fails, failure, running, calls, request>>

Log(n)      == Section("verify_log", <<"log", iter>>, n)
Advice(n)   == Section("attempt", <<"advice", n>>, 1)
RollbackDue == RollbackAfter > 0 /\ HasGood /\ fails + 1 >= RollbackAfter
AdviceDue   == StrategyAfter > 0 /\ fails + 1 >= StrategyAfter

\* Mutants: the logs pile up; a rollback clears the log; a rollback keeps the
\* conversation.
NoteAllFailures(n)    == failure' = Append(failure, Log(n))
NoteUnlessRollback(n) == failure' = IF RollbackDue THEN <<>> ELSE <<Log(n)>>
ForgetNothing         == fails' = 0 /\ UNCHANGED running

\* last_verify survives a rollback, the conversation does not.
NoteFailure(n) == failure' = <<Log(n)>>
Forget         == fails' = 0 /\ running' = <<>>

VerifyFails ==
  /\ Verifying
  /\ \E n \in Sizes : NoteFailure(n)
  /\ IF RollbackDue
       THEN Forget
       ELSE /\ fails' = fails + 1
            /\ IF AdviceDue THEN Say(<<Advice(fails + 1)>>) ELSE UNCHANGED running
  /\ stage' = "build"
  /\ UNCHANGED <<iter, calls, request>>

Finished ==
  /\ stage \in {"done", "error", "overflow"} \/ (stage = "build" /\ iter = MaxIter)
  /\ UNCHANGED vars

Next ==
  \/ Build \/ Drop \/ Overflow \/ Send \/ Chat \/ ChatFails \/ RejectCall \/ CallTool
  \/ VerifyPasses \/ VerifyFails \/ Finished

Spec == Init /\ [][Next]_vars

-----------------------------------------------------------------------------
(* Properties.                                                             *)

CallIds  == (0..MaxIter) \X (1..MaxCalls)
Calls    == [id : CallIds, bad : BOOLEAN]
Messages ==
  [kind : {"attempt"}, size : Nat \ {0},
   text : ({"turn"} \X Seq(Calls)) \cup ({"rejected", "result"} \X CallIds)
            \cup ({"advice"} \X (0..MaxIter))]
Logs     == [kind : {"verify_log"}, text : {"log"} \X (0..MaxIter), size : Sizes]
Others   ==
  [kind : {"system", "goal", "git_diff"}, size : Nat \ {0},
   text : {<<"system">>, <<"goal">>} \cup ({"reminder", "diff"} \X (0..MaxIter))]

TypeOK ==
  /\ stage \in {"build", "pack", "chat", "calls", "done", "error", "overflow"}
  /\ iter \in 0..MaxIter
  /\ fails \in 0..iter
  /\ failure \in Seq(Logs) /\ Len(failure) <= 1
  /\ running \in Seq(Messages) /\ (Window > 0 => Len(running) <= Window)
  /\ asked \in Seq(Calls) /\ Len(asked) <= MaxCalls
  /\ waiting \in Seq(Calls) /\ Len(waiting) <= Len(asked)
  /\ recorded \in Seq(CallIds)
  /\ sections \in Seq(Others \cup Logs \cup Messages)
  /\ kept \subseteq DOMAIN sections
  /\ prompt \in Seq(DOMAIN sections)

InPrompt(i) == \E k \in DOMAIN prompt : prompt[k] = i
Talk        == (Len(sections) - Len(running) + 1)..Len(sections)
Diff        == CHOOSE i \in DOMAIN sections : sections[i].kind = "git_diff"
FitsWindow  == Window = 0 \/ Len(asked) < Window

\* "Verify logs ... are NEVER dropped or truncated" (context.py:18): as long
\* as a goal has a failed verification behind it, every prompt holds the log
\* of the latest one, whole, after a rollback too.
FailureShown ==
  stage = "chat" /\ iter > 1 =>
    \E i \in DOMAIN sections :
      InPrompt(i) /\ sections[i].kind = "verify_log" /\ sections[i].text = <<"log", iter - 1>>

\* What a full prompt leaves out of the conversation is its oldest part: no
\* message is missing while an older one is there, and none is there while
\* the diff is left out for want of room.
NewestKept ==
  stage = "chat" =>
    \A i \in Talk : InPrompt(i) =>
      (\A j \in Talk : i < j => InPrompt(j)) /\ InPrompt(Diff)

\* Nothing is left out that would have fitted: putting back the section that
\* went last exceeds the budget, and an overflow is raised only when the
\* sections that must stay exceed it by themselves.
PackedIsFull ==
  /\ stage = "chat" =>
       LET lost  == {i \in DOMAIN sections : ~InPrompt(i)}
           there == DOMAIN sections \ lost
           back  == IF Diff \in lost THEN Diff ELSE Sets!Max(lost)
       IN  lost # {} => ~Fits(there \cup {back})
  /\ stage = "overflow" => ~Fits(DOMAIN sections \ Droppable(sections))

\* "Restore original conversational order (insertion order)" (context.py:124):
\* sections that were dropped, and equal sections that share one index, leave
\* all others in the order in which they were added.
OrderKept ==
  LET alone(i) == \A j \in DOMAIN sections : sections[j] = sections[i] => j = i IN
  \A k, l \in DOMAIN prompt :
    k < l /\ alone(prompt[k]) /\ alone(prompt[l]) => prompt[k] < prompt[l]

\* What a call sends is the conversation as it went, without its oldest part,
\* and as much of it as the budget has room for.
PromptIsPacked == NewestKept /\ PackedIsFull /\ OrderKept

\* From StrategyAfter failures on, the message that asks for another approach
\* is the last one of the prompt, unless no message at all found room; and
\* what a rollback undid is not talked about any more.
AdviceShown ==
  stage = "chat" =>
    /\ StrategyAfter > 0 /\ fails >= StrategyAfter =>
         Talk # {} /\ sections[Len(sections)] = Advice(fails)
           /\ ((\E i \in Talk : InPrompt(i)) => prompt[Len(prompt)] \in Talk)
    /\ fails = 0 => Talk = {}

\* When the calls of an answer are done, each has its row in tool_calls, in
\* order and under its id, rejected calls included; and the conversation ends
\* in the turn and one result for each of them, unless the answer has more
\* calls than messages are read again.
CallsAnswered ==
  Verifying =>
    /\ recorded = [k \in DOMAIN asked |-> asked[k].id]
    /\ FitsWindow =>
         LET turn == Len(running) - Len(asked) IN
         /\ turn > 0 /\ running[turn] = Turn(asked)
         /\ \A k \in DOMAIN asked : running[turn + k].text[2] = asked[k].id
=============================================================================
