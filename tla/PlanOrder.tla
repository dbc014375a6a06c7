------------------------------ MODULE PlanOrder ------------------------------
(***************************************************************************)
(* How a plan becomes the sequence of goals the loop takes: the checks of  *)
(* plan/schema.py on what plan/parser.py read, and the function            *)
(* topological_order of plan/topo.py.  A cycle is found by the latter      *)
(* only: run() calls it when the session is on record already, and ends as *)
(* LoopController's Abort.                                                 *)
(*                                                                         *)
(* Goals are named by numbers that sort as their ids do.  The plan is a    *)
(* function of the ids: two goals with one id are refused before.          *)
(***************************************************************************)
EXTENDS Naturals, Sequences

CONSTANTS
  Ids,           \* ids of the goals
  Unknown,       \* ids a depends_on may name that are no goal's
  Priorities

ASSUME IdsAssumption ==
  /\ Ids \subseteq Nat
  /\ Unknown \subseteq Nat /\ Unknown \cap Ids = {}
  /\ Priorities \subseteq Nat

VARIABLES
  stage,      \* read, order, wave, refused, cycle, ordered
  deps,       \* goal.depends_on
  prio,       \* goal.priority
  incoming,   \* dependencies not placed yet
  remaining,  \* goals not placed yet
  ready,      \* the goals of the wave at hand that are not placed yet
  out         \* the result so far

plan == <<deps, prio>>
vars == <<stage, plan, incoming, remaining, ready, out>>

TypeOK ==
  /\ stage \in {"read", "order", "wave", "refused", "cycle", "ordered"}
  /\ deps \in [Ids -> SUBSET (Ids \cup Unknown)]
  /\ prio \in [Ids -> Priorities]
  /\ incoming \in [Ids -> SUBSET (Ids \cup Unknown)]
  /\ remaining \subseteq Ids
  /\ ready \subseteq Ids
  /\ out \in Seq(Ids)

Init ==
  /\ stage = "read"
  /\ deps \in [Ids -> SUBSET (Ids \cup Unknown)]
  /\ prio \in [Ids -> Priorities]
  /\ incoming = [g \in Ids |-> {}]
  /\ remaining = {}
  /\ ready = {}
  /\ out = <<>>

\* Mutant: the names are not looked up.
KnownOnlySelf == \A g \in Ids : g \notin deps[g]

\* _check_unique_goal_ids_and_deps
Known == \A g \in Ids : deps[g] \subseteq Ids /\ g \notin deps[g]

Refuse ==
  /\ stage = "read"
  /\ ~Known
  /\ stage' = "refused"
  /\ UNCHANGED <<plan, incoming, remaining, ready, out>>

Accept ==
  /\ stage = "read"
  /\ Known
  /\ incoming' = deps
  /\ remaining' = Ids
  /\ stage' = "order"
  /\ UNCHANGED <<plan, ready, out>>

\* Mutant: a goal is ready when one of its dependencies is placed.
FreeOfOne == {g \in remaining : incoming[g] = {} \/ incoming[g] # deps[g]}

Free == {g \in remaining : incoming[g] = {}}

FormWave ==
  /\ stage = "order"
  /\ Free # {}
  /\ ready' = Free
  /\ stage' = "wave"
  /\ UNCHANGED <<plan, incoming, remaining, out>>

FindCycle ==
  /\ stage = "order"
  /\ remaining # {} /\ Free = {}
  /\ stage' = "cycle"
  /\ UNCHANGED <<plan, incoming, remaining, ready, out>>

\* Mutant: the id alone.
SortsById(g, h) == g < h

\* The sort key (priority, id).
Sorts(g, h) == prio[g] < prio[h] \/ (prio[g] = prio[h] /\ g < h)

\* Mutants: only the goals of the wave are told; goals that are placed lose
\* their entry.
ReleaseWave(g) == [h \in Ids |-> IF h \in ready THEN incoming[h] \ {g} ELSE incoming[h]]
ReleaseLeft(g) == [h \in remaining \ {g} |-> incoming[h] \ {g}]

\* The goals left no longer wait for g.
Release(g) == [h \in Ids |-> IF h \in remaining \ {g} THEN incoming[h] \ {g} ELSE incoming[h]]

\* One round of `for gid in ready'.
Place(g) ==
  /\ stage = "wave"
  /\ g \in ready
  /\ \A h \in ready \ {g} : Sorts(g, h)
  /\ out' = Append(out, g)
  /\ remaining' = remaining \ {g}
  /\ incoming' = Release(g)
  /\ ready' = ready \ {g}
  /\ UNCHANGED <<stage, plan>>

EndWave ==
  /\ stage = "wave"
  /\ ready = {}
  /\ stage' = "order"
  /\ UNCHANGED <<plan, incoming, remaining, ready, out>>

Return ==
  /\ stage = "order"
  /\ remaining = {}
  /\ stage' = "ordered"
  /\ UNCHANGED <<plan, incoming, remaining, ready, out>>

Finished == stage \in {"refused", "cycle", "ordered"} /\ UNCHANGED vars

Next ==
  \/ Refuse \/ Accept \/ FormWave \/ FindCycle \/ EndWave \/ Return \/ Finished
  \/ \E g \in Ids : Place(g)

Spec == Init /\ [][Next]_vars

-----------------------------------------------------------------------------
(* Properties.                                                             *)

Placed == {out[i] : i \in 1..Len(out)}

\* A goal comes after everything it depends on, and comes once, in every
\* beginning of the result; nothing is left out of the whole of it.
DepsFirst ==
  /\ \A i \in 1..Len(out) : \A d \in deps[out[i]] : \E j \in 1..(i - 1) : out[j] = d
  /\ \A i, j \in 1..Len(out) : out[i] = out[j] => i = j
  /\ stage = "ordered" => Placed = Ids

\* Goals that wait for one another.
Knot(s) == s # {} /\ \A g \in s : deps[g] \cap s # {}

\* A plan that is read is refused as cyclic only for a real cycle, whose goals
\* the message names ("cycle detected among goals"); and a plan that is
\* ordered has none, and depends on its own goals only.
CycleIsReal ==
  /\ stage = "cycle" => Knot(remaining)
  /\ stage = "ordered" => \A s \in SUBSET Ids : ~Knot(s)
  /\ stage \in {"cycle", "ordered"} => \A g \in Ids : deps[g] \subseteq Ids

\* How many goals the longest chain of dependencies behind a goal has, for the
\* goals of s: one more than behind the deepest it depends on.
IsDepth(depth, s) ==
  \A g \in s :
    /\ \A d \in deps[g] : depth[d] < depth[g]
    /\ depth[g] > 0 => \E d \in deps[g] : depth[d] = depth[g] - 1

\* By depth, then by priority, then by id.
Before(depth, g, h) ==
  \/ depth[g] < depth[h]
  \/ /\ depth[g] = depth[h]
     /\ prio[g] < prio[h] \/ (prio[g] = prio[h] /\ g < h)

SortedBy(depth) == \A i, j \in 1..Len(out) : i < j => Before(depth, out[i], out[j])

\* The order is a function of the plan, whatever order the sets of the code
\* are gone through, so that a plan that is run again takes its goals in the
\* same order: by the length of the longest chain of dependencies behind them
\* (one wave each), then by priority, then by id.
OrderIsDetermined ==
  stage = "ordered" =>
    \E depth \in [Ids -> 0..Len(out)] : IsDepth(depth, Ids) /\ SortedBy(depth)

\* All that g depends on comes before the i-th goal.
ReadyBy(g, i) == deps[g] \subseteq {out[k] : k \in 1..(i - 1)}

\* "Among ready goals, lower priority first" (topo.py:9): no goal is taken
\* while another that is ready has a lower number.
PriorityFirst ==
  \A i, j \in 1..Len(out) : i < j /\ ReadyBy(out[j], i) => prio[out[i]] <= prio[out[j]]
=============================================================================
