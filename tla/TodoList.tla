------------------------------- MODULE TodoList -------------------------------
(***************************************************************************)
(* tools/todo.py, the todo calls of state/store.py and the reminder that   *)
(* the controller builds from them: the task list of one goal, replaced by *)
(* a delete and one insert per item, each a transaction of its own, while  *)
(* any of them may fail and the process may die between two of them.       *)
(*                                                                         *)
(* The list is written by the agent of the goal and, through the context   *)
(* it shares with them (controller.py, _make_spawn_agent_factory), by its  *)
(* sub-agents, whose results the agent does not see.                       *)
(***************************************************************************)
EXTENDS Naturals, Sequences, SequencesExt

CONSTANTS
  Ids,        \* todo ids; what an item says is identified with its id
  Statuses,   \* the values of TodoStatus that are used
  MaxItems    \* bound: items of a list the model sends

ASSUME TodoAssumption ==
  /\ "in_progress" \in Statuses
  /\ MaxItems \in Nat

Nothing == "nothing"    \* no todo is in progress
Items   == [id : Ids, status : Statuses]
Lists   == BoundedSeq(Items, MaxItems)
Agents  == {"agent", "subagent"}

VARIABLES
  pc,       \* the call: idle, clear, insert, list, dead
  caller,   \* who made it
  left,     \* items still to insert
  rows,     \* the rows of the goal in the store, by created_at: a clock that is
            \* not set back between two inserts
  items,    \* TodoList.items
  told,     \* the latest result of a todo call in the agent's conversation
  behind,   \* history variable: a sub-agent has called todo_write since then
  sent,     \* history variable: the list of the write under way
  shown     \* in_progress_todo of the latest reminder

todoVars == <<pc, caller, left, rows, items, told, behind, sent, shown>>

TodoTypeOK ==
  /\ pc \in {"idle", "clear", "insert", "list", "dead"}
  /\ caller \in Agents
  /\ left \in Seq(Items)
  /\ rows \in Seq(Items)
  /\ items \in Seq(Items)
  /\ told \in [ok : BOOLEAN, list : Seq(Items)]
  /\ behind \in BOOLEAN
  /\ sent \in Seq(Items)
  /\ shown \in Ids \cup {Nothing}

TodoInit ==
  /\ pc = "idle"
  /\ caller = "agent"
  /\ left = <<>>
  /\ rows = <<>>
  /\ items = <<>>
  /\ told = [ok |-> TRUE, list |-> <<>>]
  /\ behind = FALSE
  /\ sent = <<>>
  /\ shown = Nothing

-----------------------------------------------------------------------------
InProgress(l) == {i \in 1..Len(l) : l[i].status = "in_progress"}

\* Mutant: the status, where the content is meant.
DoingStatus(l) ==
  IF InProgress(l) = {} THEN Nothing
  ELSE l[CHOOSE i \in InProgress(l) : \A j \in InProgress(l) : i <= j].status

\* The first item in progress, as the controller looks for it.
Doing(l) ==
  IF InProgress(l) = {} THEN Nothing
  ELSE l[CHOOSE i \in InProgress(l) : \A j \in InProgress(l) : i <= j].id

\* Mutant: only the ids are looked at.
AcceptedIds(l) == \A i, j \in 1..Len(l) : i # j => l[i].id # l[j].id

\* TodoWriteParams._at_most_one_in_progress.
Accepted(l) ==
  \A i, j \in 1..Len(l) :
    i # j => l[i].id # l[j].id /\ {l[i].status, l[j].status} # {"in_progress"}

\* The result of a call, appended to the conversation of whoever made it.
Answer(result) ==
  /\ told' = IF caller = "agent" THEN result ELSE told
  /\ pc' = "idle" /\ caller' = "agent" /\ left' = <<>> /\ sent' = <<>>
Crashed == [ok |-> FALSE, list |-> <<>>]

\* Registry.call: a list that does not validate never reaches the tool.
Reject(a) ==
  /\ pc = "idle"
  /\ \E l \in Lists : ~Accepted(l)
  /\ told' = IF a = "agent" THEN Crashed ELSE told
  /\ UNCHANGED <<pc, caller, left, rows, items, behind, sent, shown>>

BeginWrite(a) ==
  /\ pc = "idle"
  /\ \E l \in Lists : Accepted(l) /\ left' = l /\ sent' = l
  /\ caller' = a
  /\ behind' = (behind \/ a = "subagent")
  /\ pc' = "clear"
  /\ UNCHANGED <<rows, items, told, shown>>

\* Mutant: items the new list does not name stay.
ClearTodosNot ==
  /\ pc = "clear"
  /\ pc' = "insert"
  /\ UNCHANGED <<caller, left, rows, items, told, behind, sent, shown>>

\* store.clear_todos
ClearTodos ==
  /\ pc = "clear"
  /\ rows' = <<>>
  /\ pc' = "insert"
  /\ UNCHANGED <<caller, left, items, told, behind, sent, shown>>

\* INSERT OR REPLACE: a row that exists keeps its created_at.
Upserted(l, item) ==
  IF \E i \in 1..Len(l) : l[i].id = item.id
    THEN [i \in 1..Len(l) |-> IF l[i].id = item.id THEN item ELSE l[i]]
    ELSE Append(l, item)

\* store.upsert_todo
UpsertTodo ==
  /\ pc = "insert"
  /\ left # <<>>
  /\ rows' = Upserted(rows, Head(left))
  /\ left' = Tail(left)
  /\ UNCHANGED <<pc, caller, items, told, behind, sent, shown>>

EndInserts ==
  /\ pc = "insert"
  /\ left = <<>>
  /\ pc' = "list"
  /\ UNCHANGED <<caller, left, rows, items, told, behind, sent, shown>>

\* Mutant: the cache is rendered and not read again first.
RefreshStale ==
  /\ pc = "list"
  /\ Answer([ok |-> TRUE, list |-> items])
  /\ behind' = (behind /\ caller = "subagent")
  /\ UNCHANGED <<rows, items, shown>>

\* store.list_todos; the list as it is stored is rendered into the result.
Refresh ==
  /\ pc = "list"
  /\ items' = rows
  /\ Answer([ok |-> TRUE, list |-> rows])
  /\ behind' = (behind /\ caller = "subagent")
  /\ UNCHANGED <<rows, shown>>

\* todo_read
BeginRead(a) ==
  /\ pc = "idle"
  /\ caller' = a
  /\ pc' = "list"
  /\ UNCHANGED <<left, rows, items, told, behind, sent, shown>>

\* A statement fails (a disk that is full, a lock held for 30 seconds): its
\* transaction leaves no trace, those before it stay, the call has crashed.
StoreFails ==
  /\ pc \in {"clear", "list"} \/ (pc = "insert" /\ left # <<>>)
  /\ Answer(Crashed)
  /\ UNCHANGED <<rows, items, behind, shown>>

\* The head of an iteration: the reminder reads the store, not the cache.
\* A failure here ends the session.
Remind ==
  /\ pc = "idle"
  /\ shown' = Doing(rows)
  /\ UNCHANGED <<pc, caller, left, rows, items, told, behind, sent>>

Die ==
  /\ pc # "dead"
  /\ pc' = "dead"
  /\ UNCHANGED <<caller, left, rows, items, told, behind, sent, shown>>

Dead == pc = "dead" /\ UNCHANGED todoVars

TodoNext ==
  \/ \E a \in Agents : Reject(a) \/ BeginWrite(a) \/ BeginRead(a)
  \/ ClearTodos \/ UpsertTodo \/ EndInserts \/ Refresh \/ StoreFails
  \/ Remind \/ Die \/ Dead

TodoSpec == TodoInit /\ [][TodoNext]_todoVars

-----------------------------------------------------------------------------
(* Properties.                                                             *)

\* "exactly one in_progress task at a time (or zero)" (todo.py:8), in the
\* store, wherever a write is interrupted and whoever wrote before.
OneInProgress ==
  \A i, j \in InProgress(rows) : i = j

\* "writing the list always REPLACES the entire goal's todo set" (todo.py:10),
\* as far as several transactions can: from the delete on the rows are the
\* first items of the list sent last, never a mixture with an older one, and
\* all of it once an answer says so.
RowsOfOneList ==
  /\ pc = "insert" => rows \o left = sent
  /\ pc = "idle" /\ told.ok /\ ~behind => rows = told.list

\* The reminder "reflects current state" (reminders.py:5): the todo it names
\* is the one in progress in the list the model was shown last, unless the
\* model was told that a call failed, or a sub-agent has rewritten its list.
ReminderIsKnown ==
  [][Remind /\ told.ok /\ ~behind => shown' = Doing(told.list)]_todoVars
=============================================================================
