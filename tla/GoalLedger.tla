----------------------------- MODULE GoalLedger -----------------------------
(***************************************************************************)
(* What a session promises to whoever reads its rows in the store while it *)
(* runs (`loopcoder status', GET /v1/sessions/{sid}, the report): the      *)
(* status of the session and of every goal, and nothing of how the loop    *)
(* comes to it.  LoopController implements this specification.             *)
(***************************************************************************)
EXTENDS Naturals

CONSTANT NumGoals    \* goals are 1..NumGoals in the order they are run

VARIABLES
  session,    \* sessions.status
  row         \* goals.status of every goal

ledger == <<session, row>>

Goals    == 1..NumGoals
Attempted == {"passed", "failed", "stopped"}   \* statuses of a goal that was tried

LedgerTypeOK ==
  /\ session \in {"none", "running", "completed", "stopped", "error"}
  /\ row \in [Goals -> {"absent", "running", "skipped"} \cup Attempted]

Init ==
  /\ session = "none"
  /\ row = [g \in Goals |-> "absent"]

Open ==
  /\ session = "none"
  /\ session' = "running"
  /\ UNCHANGED row

\* One goal at a time, in order.
Begin(g) ==
  /\ session = "running"
  /\ \A h \in Goals : row[h] # "running" /\ (h >= g => row[h] = "absent")
  /\ row' = [row EXCEPT ![g] = "running"]
  /\ UNCHANGED session

\* A goal that was tried ends with what came of it; after a skipped goal none is tried.
Conclude(g) ==
  /\ session = "running"
  /\ row[g] = "running"
  /\ \A h \in Goals : row[h] # "skipped"
  /\ \E status \in Attempted : row' = [row EXCEPT ![g] = status]
  /\ UNCHANGED session

Skip(g) ==
  /\ session = "running"
  /\ row[g] = "running"
  /\ row' = [row EXCEPT ![g] = "skipped"]
  /\ UNCHANGED session

\* An orderly end leaves no goal running, and a session that was stopped says so.
Close ==
  /\ session = "running"
  /\ \A g \in Goals : row[g] # "running"
  /\ \/ session' = "stopped"
     \/ session' = "completed" /\ \A g \in Goals : row[g] # "stopped"
  /\ UNCHANGED row

Break ==
  /\ session = "running"
  /\ session' = "error"
  /\ UNCHANGED row

Next ==
  \/ Open \/ Close \/ Break
  \/ \E g \in Goals : Begin(g) \/ Conclude(g) \/ Skip(g)

Spec == Init /\ [][Next]_ledger
=============================================================================
