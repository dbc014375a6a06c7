------------------------ MODULE LoopControllerProofs ------------------------
(***************************************************************************)
(* Theorems about LoopController, for every plan and every configuration.  *)
(***************************************************************************)
EXTENDS LoopController, TLAPS

\* Every action keeps the flags Boolean.
LEMMA FlagsStep == FlagsOK /\ [Next]_vars => FlagsOK'
<1> SUFFICES ASSUME FlagsOK, [Next]_vars PROVE FlagsOK'
  OBVIOUS
<1> USE DEF FlagsOK, db, repo, ws, world, local
<1>1. CASE StartSession  BY <1>1 DEF StartSession
<1>2. CASE PrepareWorkspace  BY <1>2 DEF PrepareWorkspace, TakeSnapshot, TagHolds
<1>3. CASE BeginGoal  BY <1>3 DEF BeginGoal
<1>4. CASE BeginSkip  BY <1>4 DEF BeginSkip
<1>5. CASE EndSkip  BY <1>5 DEF EndSkip, EndGoal
<1>6. CASE LeaveLoop  BY <1>6 DEF LeaveLoop
<1>7. CASE CloseSession  BY <1>7 DEF CloseSession
<1>8. CASE GiveUp  BY <1>8 DEF GiveUp, EndGoal
<1>9. CASE BeginIteration  BY <1>9 DEF BeginIteration
<1>10. CASE Chat  BY <1>10 DEF Chat
<1>11. CASE ToolObserves  BY <1>11 DEF ToolObserves, NextCall
<1>12. CASE ToolWrites  BY <1>12 DEF ToolWrites, NextCall
<1>13. CASE ToolStartsJob  BY <1>13 DEF ToolStartsJob, NextCall
<1>14. CASE ToolKillsJob  BY <1>14 DEF ToolKillsJob, NextCall, KillJob
<1>15. CASE ToolsDone  BY <1>15 DEF ToolsDone
<1>16. CASE Verify  BY <1>16 DEF Verify, RecordIteration, Outcomes
<1>17. CASE SnapshotGoal  BY <1>17 DEF SnapshotGoal, TakeSnapshot, TagHolds
<1>18. CASE EndPassed  BY <1>18 DEF EndPassed, EndGoal
<1>19. CASE ReapJobs  BY <1>19 DEF ReapJobs, KillJob
<1>20. CASE Rollback  BY <1>20 DEF Rollback, HardReset
<1>21. CASE CountFailure  BY <1>21 DEF CountFailure
<1>22. CASE Abort  BY <1>22 DEF Abort
<1>23. CASE Crash  BY <1>23 DEF Crash
<1>24. CASE RequestStop  BY <1>24 DEF RequestStop
<1>25. CASE BudgetRunsOut  BY <1>25 DEF BudgetRunsOut
<1>26. CASE JobWrites  BY <1>26 DEF JobWrites
<1>27. CASE JobExits  BY <1>27 DEF JobExits
<1>28. CASE UNCHANGED vars  BY <1>28 DEF vars
<1> QED
  BY <1>1, <1>2, <1>3, <1>4, <1>5, <1>6, <1>7, <1>8, <1>9, <1>10, <1>11, <1>12, <1>13, <1>14,
     <1>15, <1>16, <1>17, <1>18, <1>19, <1>20, <1>21, <1>22, <1>23, <1>24, <1>25, <1>26, <1>27, <1>28
  DEF Next, Controller, SessionStep, IterStep, ToolStep, Faults, Finished

\* Every action leaves the rest of the state in its type; the index of the goal
\* stays within the plan as long as a goal is open.
LEMMA DataStep == DataOK /\ FlagsOK /\ [Next]_vars => DataOK'
<1> SUFFICES ASSUME DataOK, FlagsOK, [Next]_vars PROVE DataOK'
  OBVIOUS
<1> USE NumGoalsAssumption, LimitsAssumption
    DEF DataOK, Goals, TagIds, PCs, Running, InGoal, Final, RowState,
        db, repo, ws, world, local
<1>1. CASE StartSession
  <2>1. /\ pc' = "prepare" /\ session' = "running"
        /\ cur' \in 1..(NumGoals + 1) /\ last' \in 0..NumGoals
    BY <1>1 DEF StartSession
  <2>2. UNCHANGED <<row, rowIters, verdicts, tagMet, tagged, exact, iter, fails, good, calls, met, maxIter>>
    BY <1>1 DEF StartSession
  <2> QED  BY <2>1, <2>2
<1>2. CASE PrepareWorkspace  BY <1>2 DEF PrepareWorkspace, TakeSnapshot, TagHolds
<1>3. CASE BeginGoal  BY <1>3 DEF BeginGoal
<1>4. CASE BeginSkip  BY <1>4 DEF BeginSkip
<1>5. CASE EndSkip  BY <1>5 DEF EndSkip, EndGoal
<1>6. CASE LeaveLoop  BY <1>6 DEF LeaveLoop
<1>7. CASE CloseSession  BY <1>7 DEF CloseSession
<1>8. CASE GiveUp  BY <1>8 DEF GiveUp, EndGoal
<1>9. CASE BeginIteration  BY <1>9 DEF BeginIteration
<1>10. CASE Chat  BY <1>10 DEF Chat
<1>11. CASE ToolObserves  BY <1>11 DEF ToolObserves, NextCall
<1>12. CASE ToolWrites  BY <1>12 DEF ToolWrites, NextCall
<1>13. CASE ToolStartsJob
  <2>1. calls' \in Nat  BY <1>13 DEF ToolStartsJob, NextCall
  <2>2. UNCHANGED <<pc, db, repo, met, cur, last, iter, fails, good, maxIter>>
    BY <1>13 DEF ToolStartsJob
  <2> QED  BY <2>1, <2>2
<1>14. CASE ToolKillsJob  BY <1>14 DEF ToolKillsJob, NextCall, KillJob
<1>15. CASE ToolsDone  BY <1>15 DEF ToolsDone
<1>16. CASE Verify
  <2>1. PICK verdict \in Outcomes :
          /\ verdicts' = [verdicts EXCEPT ![cur] = Append(verdicts[cur], verdict)]
          /\ pc' = IF verdict = "pass" THEN "snapshot" ELSE "decide"
    BY <1>16 DEF Verify, RecordIteration
  <2>2. verdict \in Verdicts  BY DEF Outcomes, Verdicts
  <2>3. pc = "verify" /\ cur \in Goals
    BY <1>16 DEF Verify
  <2>4. verdicts' \in [Goals -> Seq(Verdicts)]
    <3>1. Append(verdicts[cur], verdict) \in Seq(Verdicts)  BY <2>2, <2>3
    <3> QED  BY <2>1, <3>1
  <2>5. pc' \in PCs /\ pc' \in InGoal  BY <2>1
  <2>6. exact' = exact \cup {cur} \/ exact' = exact \ {cur}
    BY <1>16 DEF Verify
  <2>7. exact' \in SUBSET Goals
    BY <2>3, <2>6
  <2>8. UNCHANGED <<session, row, rowIters, tagMet, tagged, met, maxIter, local>>
    BY <1>16 DEF Verify
  <2> QED  BY <2>3, <2>4, <2>5, <2>7, <2>8
<1>17. CASE SnapshotGoal  BY <1>17 DEF SnapshotGoal, TakeSnapshot, TagHolds
<1>18. CASE EndPassed  BY <1>18 DEF EndPassed, EndGoal
<1>19. CASE ReapJobs  BY <1>19 DEF ReapJobs, KillJob
<1>20. CASE Rollback
  <2>1. good \in Goals /\ tagMet[good] \in SUBSET Goals
    BY <1>20 DEF Rollback, RollbackDue
  <2>2. met' \in SUBSET Goals
    BY <1>20, <2>1 DEF Rollback, HardReset
  <2>3. /\ pc = "decide" /\ pc' = "iterHead" /\ fails' = 0
        /\ UNCHANGED <<db, repo, maxIter, cur, last, iter, good, calls>>
    BY <1>20 DEF Rollback
  <2> QED  BY <2>2, <2>3
<1>21. CASE CountFailure  BY <1>21 DEF CountFailure
<1>22. CASE Abort  BY <1>22 DEF Abort
<1>23. CASE Crash  BY <1>23 DEF Crash
<1>24. CASE RequestStop  BY <1>24 DEF RequestStop
<1>25. CASE BudgetRunsOut  BY <1>25 DEF BudgetRunsOut
<1>26. CASE JobWrites  BY <1>26 DEF JobWrites
<1>27. CASE JobExits  BY <1>27 DEF JobExits
<1>28. CASE UNCHANGED vars  BY <1>28 DEF vars
<1> QED
  BY <1>1, <1>2, <1>3, <1>4, <1>5, <1>6, <1>7, <1>8, <1>9, <1>10, <1>11, <1>12, <1>13, <1>14,
     <1>15, <1>16, <1>17, <1>18, <1>19, <1>20, <1>21, <1>22, <1>23, <1>24, <1>25, <1>26, <1>27, <1>28
  DEF Next, Controller, SessionStep, IterStep, ToolStep, Faults, Finished

\* The program counter, the session row and the current goal row move together.
LEMMA PcStep == DataOK /\ PcInv /\ OrderInv /\ [Next]_vars => PcInv'
<1> SUFFICES ASSUME DataOK, PcInv, OrderInv, [Next]_vars PROVE PcInv'
  OBVIOUS
<1> USE NumGoalsAssumption
    DEF DataOK, Goals, InGoal, Running, PcInv, OrderInv, db, repo, ws, world, local
<1>1. CASE StartSession  BY <1>1 DEF StartSession
<1>2. CASE PrepareWorkspace  BY <1>2 DEF PrepareWorkspace, TakeSnapshot, TagHolds
<1>3. CASE BeginGoal  BY <1>3 DEF BeginGoal
<1>4. CASE BeginSkip  BY <1>4 DEF BeginSkip
<1>5. CASE EndSkip  BY <1>5 DEF EndSkip, EndGoal
<1>6. CASE LeaveLoop  BY <1>6 DEF LeaveLoop
<1>7. CASE CloseSession  BY <1>7 DEF CloseSession
<1>8. CASE GiveUp  BY <1>8 DEF GiveUp, EndGoal
<1>9. CASE BeginIteration  BY <1>9 DEF BeginIteration
<1>10. CASE Chat  BY <1>10 DEF Chat
<1>11. CASE ToolObserves  BY <1>11 DEF ToolObserves, NextCall
<1>12. CASE ToolWrites  BY <1>12 DEF ToolWrites, NextCall
<1>13. CASE ToolStartsJob  BY <1>13 DEF ToolStartsJob, NextCall
<1>14. CASE ToolKillsJob  BY <1>14 DEF ToolKillsJob, NextCall, KillJob
<1>15. CASE ToolsDone  BY <1>15 DEF ToolsDone
<1>16. CASE Verify  BY <1>16 DEF Verify, RecordIteration, Outcomes
<1>17. CASE SnapshotGoal  BY <1>17 DEF SnapshotGoal, TakeSnapshot, TagHolds
<1>18. CASE EndPassed  BY <1>18 DEF EndPassed, EndGoal
<1>19. CASE ReapJobs  BY <1>19 DEF ReapJobs, KillJob
<1>20. CASE Rollback  BY <1>20 DEF Rollback, HardReset
<1>21. CASE CountFailure  BY <1>21 DEF CountFailure
<1>22. CASE Abort  BY <1>22 DEF Abort, PCs, Final
<1>23. CASE Crash  BY <1>23 DEF Crash, PCs
<1>24. CASE RequestStop  BY <1>24 DEF RequestStop
<1>25. CASE BudgetRunsOut  BY <1>25 DEF BudgetRunsOut
<1>26. CASE JobWrites  BY <1>26 DEF JobWrites
<1>27. CASE JobExits  BY <1>27 DEF JobExits
<1>28. CASE UNCHANGED vars  BY <1>28 DEF vars
<1> QED
  BY <1>1, <1>2, <1>3, <1>4, <1>5, <1>6, <1>7, <1>8, <1>9, <1>10, <1>11, <1>12, <1>13, <1>14,
     <1>15, <1>16, <1>17, <1>18, <1>19, <1>20, <1>21, <1>22, <1>23, <1>24, <1>25, <1>26, <1>27, <1>28
  DEF Next, Controller, SessionStep, IterStep, ToolStep, Faults, Finished

\* Nothing after the current goal has begun, and no other goal is running.
LEMMA OrderStep == DataOK /\ PcInv /\ OrderInv /\ [Next]_vars => OrderInv'
<1> SUFFICES ASSUME DataOK, PcInv, OrderInv, [Next]_vars PROVE OrderInv'
  OBVIOUS
<1> USE NumGoalsAssumption
    DEF DataOK, Goals, InGoal, Running, PcInv, OrderInv, db, repo, ws, world, local
<1>1. CASE StartSession  BY <1>1 DEF StartSession
<1>2. CASE PrepareWorkspace  BY <1>2 DEF PrepareWorkspace, TakeSnapshot, TagHolds
<1>3. CASE BeginGoal  BY <1>3 DEF BeginGoal
<1>4. CASE BeginSkip  BY <1>4 DEF BeginSkip
<1>5. CASE EndSkip
  <2>1. /\ cur \in Goals /\ cur' = cur + 1
        /\ row' = [row EXCEPT ![cur] = "skipped"]
    BY <1>5 DEF EndSkip, EndGoal
  <2>2. \A g \in Goals : g # cur => row[g] # "running"
    OBVIOUS
  <2>3. \A g \in Goals : row'[g] = IF g = cur THEN "skipped" ELSE row[g]
    BY <2>1
  <2> QED  BY <2>1, <2>2, <2>3
<1>6. CASE LeaveLoop  BY <1>6 DEF LeaveLoop
<1>7. CASE CloseSession  BY <1>7 DEF CloseSession
<1>8. CASE GiveUp  BY <1>8 DEF GiveUp, EndGoal
<1>9. CASE BeginIteration  BY <1>9 DEF BeginIteration
<1>10. CASE Chat  BY <1>10 DEF Chat
<1>11. CASE ToolObserves  BY <1>11 DEF ToolObserves, NextCall
<1>12. CASE ToolWrites  BY <1>12 DEF ToolWrites, NextCall
<1>13. CASE ToolStartsJob  BY <1>13 DEF ToolStartsJob, NextCall
<1>14. CASE ToolKillsJob  BY <1>14 DEF ToolKillsJob, NextCall, KillJob
<1>15. CASE ToolsDone  BY <1>15 DEF ToolsDone
<1>16. CASE Verify  BY <1>16 DEF Verify, RecordIteration, Outcomes
<1>17. CASE SnapshotGoal  BY <1>17 DEF SnapshotGoal, TakeSnapshot, TagHolds
<1>18. CASE EndPassed  BY <1>18 DEF EndPassed, EndGoal
<1>19. CASE ReapJobs  BY <1>19 DEF ReapJobs, KillJob
<1>20. CASE Rollback  BY <1>20 DEF Rollback, HardReset
<1>21. CASE CountFailure  BY <1>21 DEF CountFailure
<1>22. CASE Abort  BY <1>22 DEF Abort
<1>23. CASE Crash  BY <1>23 DEF Crash
<1>24. CASE RequestStop  BY <1>24 DEF RequestStop
<1>25. CASE BudgetRunsOut  BY <1>25 DEF BudgetRunsOut
<1>26. CASE JobWrites  BY <1>26 DEF JobWrites
<1>27. CASE JobExits  BY <1>27 DEF JobExits
<1>28. CASE UNCHANGED vars  BY <1>28 DEF vars
<1> QED
  BY <1>1, <1>2, <1>3, <1>4, <1>5, <1>6, <1>7, <1>8, <1>9, <1>10, <1>11, <1>12, <1>13, <1>14,
     <1>15, <1>16, <1>17, <1>18, <1>19, <1>20, <1>21, <1>22, <1>23, <1>24, <1>25, <1>26, <1>27, <1>28
  DEF Next, Controller, SessionStep, IterStep, ToolStep, Faults, Finished

\* The iteration rows of the goal at hand keep up with the iteration counter.
LEMMA VerdictStep == DataOK /\ LedgerInv /\ [Next]_vars => VerdictInv'
<1> SUFFICES ASSUME DataOK, LedgerInv, [Next]_vars PROVE VerdictInv'
  OBVIOUS
<1> USE NumGoalsAssumption
    DEF DataOK, Goals, TagIds, InGoal, Running, LedgerInv, PcInv, OrderInv, VerdictInv, AllFailed,
        db, repo, ws, world, local
<1>1. CASE StartSession  BY <1>1 DEF StartSession
<1>2. CASE PrepareWorkspace  BY <1>2 DEF PrepareWorkspace, TakeSnapshot, TagHolds
<1>3. CASE BeginGoal  BY <1>3 DEF BeginGoal, LedgerAgrees, RowAgrees
<1>4. CASE BeginSkip  BY <1>4 DEF BeginSkip, LedgerAgrees, RowAgrees
<1>5. CASE EndSkip  BY <1>5 DEF EndSkip, EndGoal
<1>6. CASE LeaveLoop  BY <1>6 DEF LeaveLoop
<1>7. CASE CloseSession  BY <1>7 DEF CloseSession
<1>8. CASE GiveUp  BY <1>8 DEF GiveUp, EndGoal
<1>9. CASE BeginIteration  BY <1>9 DEF BeginIteration
<1>10. CASE Chat  BY <1>10 DEF Chat
<1>11. CASE ToolObserves  BY <1>11 DEF ToolObserves, NextCall
<1>12. CASE ToolWrites  BY <1>12 DEF ToolWrites, NextCall
<1>13. CASE ToolStartsJob  BY <1>13 DEF ToolStartsJob, NextCall
<1>14. CASE ToolKillsJob  BY <1>14 DEF ToolKillsJob, NextCall, KillJob
<1>15. CASE ToolsDone  BY <1>15 DEF ToolsDone
<1>16. CASE Verify
  <2>1. PICK verdict \in Outcomes :
          /\ verdicts' = [verdicts EXCEPT ![cur] = Append(verdicts[cur], verdict)]
          /\ pc' = IF verdict = "pass" THEN "snapshot" ELSE "decide"
    BY <1>16 DEF Verify, RecordIteration
  <2>2. verdict \in Verdicts  BY DEF Outcomes, Verdicts
  <2>3. /\ verdicts[cur] \in Seq(Verdicts)
        /\ verdicts'[cur] = Append(verdicts[cur], verdict)
    BY <1>16, <2>1 DEF Verify, RecordIteration
  <2>4. /\ Len(verdicts[cur]) + 1 = iter
        /\ AllFailed(cur)
        /\ cur' = cur /\ iter' = iter
    BY <1>16 DEF Verify, RecordIteration, LedgerInv, VerdictInv
  <2>5. /\ Len(verdicts'[cur]) = iter
        /\ verdicts'[cur][iter] = verdict
        /\ \A i \in 1..Len(verdicts[cur]) : verdicts'[cur][i] = verdicts[cur][i]
    BY <2>2, <2>3, <2>4
  <2>6. verdict = "fail" => AllFailed(cur)'
    <3> SUFFICES ASSUME verdict = "fail", NEW i \in 1..iter
                 PROVE verdicts'[cur][i] = "fail"
      BY <2>4, <2>5 DEF AllFailed
    <3>1. CASE i = iter  BY <2>5, <3>1
    <3>2. CASE i # iter
      <4>1. i \in 1..Len(verdicts[cur])  BY <2>3, <2>4, <3>2
      <4> QED  BY <2>4, <2>5, <4>1 DEF AllFailed
    <3> QED  BY <3>1, <3>2
  <2> QED  BY <2>1, <2>2, <2>4, <2>5, <2>6 DEF VerdictInv, Verdicts
<1>17. CASE SnapshotGoal  BY <1>17 DEF SnapshotGoal, TakeSnapshot, TagHolds
<1>18. CASE EndPassed  BY <1>18 DEF EndPassed, EndGoal
<1>19. CASE ReapJobs  BY <1>19 DEF ReapJobs, KillJob
<1>20. CASE Rollback  BY <1>20 DEF Rollback, HardReset
<1>21. CASE CountFailure  BY <1>21 DEF CountFailure
<1>22. CASE Abort  BY <1>22 DEF Abort
<1>23. CASE Crash  BY <1>23 DEF Crash
<1>24. CASE RequestStop  BY <1>24 DEF RequestStop
<1>25. CASE BudgetRunsOut  BY <1>25 DEF BudgetRunsOut
<1>26. CASE JobWrites  BY <1>26 DEF JobWrites
<1>27. CASE JobExits  BY <1>27 DEF JobExits
<1>28. CASE UNCHANGED vars  BY <1>28 DEF vars
<1> QED
  BY <1>1, <1>2, <1>3, <1>4, <1>5, <1>6, <1>7, <1>8, <1>9, <1>10, <1>11, <1>12, <1>13, <1>14,
     <1>15, <1>16, <1>17, <1>18, <1>19, <1>20, <1>21, <1>22, <1>23, <1>24, <1>25, <1>26, <1>27, <1>28
  DEF Next, Controller, SessionStep, IterStep, ToolStep, Faults, Finished

\* Every goal row keeps agreeing with the iteration rows of its goal.
LEMMA LedgerStep == DataOK /\ LedgerInv /\ [Next]_vars => LedgerAgrees'
<1> SUFFICES ASSUME DataOK, LedgerInv, [Next]_vars PROVE LedgerAgrees'
  OBVIOUS
<1> USE NumGoalsAssumption
    DEF DataOK, Goals, TagIds, InGoal, Running, LedgerInv, PcInv, OrderInv, VerdictInv, AllFailed, LedgerAgrees, RowAgrees,
        db, repo, ws, world, local
<1>1. CASE StartSession  BY <1>1 DEF StartSession
<1>2. CASE PrepareWorkspace  BY <1>2 DEF PrepareWorkspace, TakeSnapshot, TagHolds
<1>3. CASE BeginGoal
  <2> SUFFICES ASSUME NEW g \in Goals PROVE RowAgrees(g)'
    BY DEF LedgerAgrees
  <2>1. RowAgrees(g)  BY DEF LedgerInv, LedgerAgrees
  <2>2. CASE g = cur  BY <1>3, <2>1, <2>2 DEF BeginGoal, RowAgrees
  <2>3. CASE g # cur  BY <1>3, <2>1, <2>3 DEF BeginGoal, RowAgrees
  <2> QED  BY <2>2, <2>3
<1>4. CASE BeginSkip
  <2> SUFFICES ASSUME NEW g \in Goals PROVE RowAgrees(g)'
    BY DEF LedgerAgrees
  <2>1. RowAgrees(g)  BY DEF LedgerInv, LedgerAgrees
  <2>2. CASE g = cur  BY <1>4, <2>1, <2>2 DEF BeginSkip, RowAgrees
  <2>3. CASE g # cur  BY <1>4, <2>1, <2>3 DEF BeginSkip, RowAgrees
  <2> QED  BY <2>2, <2>3
<1>5. CASE EndSkip
  <2> SUFFICES ASSUME NEW g \in Goals PROVE RowAgrees(g)'
    BY DEF LedgerAgrees
  <2>1. RowAgrees(g)  BY DEF LedgerInv, LedgerAgrees
  <2>2. CASE g = cur  BY <1>5, <2>1, <2>2 DEF EndSkip, EndGoal, RowAgrees
  <2>3. CASE g # cur  BY <1>5, <2>1, <2>3 DEF EndSkip, EndGoal, RowAgrees
  <2> QED  BY <2>2, <2>3
<1>6. CASE LeaveLoop  BY <1>6 DEF LeaveLoop
<1>7. CASE CloseSession  BY <1>7 DEF CloseSession
<1>8. CASE GiveUp  BY <1>8 DEF GiveUp, EndGoal
<1>9. CASE BeginIteration  BY <1>9 DEF BeginIteration
<1>10. CASE Chat  BY <1>10 DEF Chat
<1>11. CASE ToolObserves  BY <1>11 DEF ToolObserves, NextCall
<1>12. CASE ToolWrites  BY <1>12 DEF ToolWrites, NextCall
<1>13. CASE ToolStartsJob  BY <1>13 DEF ToolStartsJob, NextCall
<1>14. CASE ToolKillsJob  BY <1>14 DEF ToolKillsJob, NextCall, KillJob
<1>15. CASE ToolsDone  BY <1>15 DEF ToolsDone
<1>16. CASE Verify
  <2>1. PICK verdict \in Outcomes :
          verdicts' = [verdicts EXCEPT ![cur] = Append(verdicts[cur], verdict)]
    BY <1>16 DEF Verify, RecordIteration
  <2>2. verdict \in Verdicts  BY DEF Outcomes, Verdicts
  <2>3. row' = row /\ rowIters' = rowIters  BY <1>16 DEF Verify, RecordIteration
  <2> SUFFICES ASSUME NEW g \in Goals PROVE RowAgrees(g)'
    BY DEF LedgerAgrees
  <2>4. RowAgrees(g)  BY DEF LedgerInv, LedgerAgrees
  <2>5. CASE g # cur  BY <2>1, <2>3, <2>4, <2>5 DEF RowAgrees
  <2>6. CASE g = cur
    <3>1. row[g] = "running" /\ AllFailed(g)
      BY <1>16, <2>6 DEF Verify, RecordIteration, LedgerInv, PcInv, VerdictInv
    <3>2. /\ verdicts[g] \in Seq(Verdicts)
          /\ verdicts'[g] = Append(verdicts[g], verdict)
      BY <2>1, <2>6
    <3>3. /\ Len(verdicts'[g]) = Len(verdicts[g]) + 1
          /\ \A i \in 1..Len(verdicts[g]) : verdicts'[g][i] = verdicts[g][i]
      BY <2>2, <3>2
    <3> QED  BY <2>3, <3>1, <3>2, <3>3 DEF RowAgrees, AllFailed
  <2> QED  BY <2>5, <2>6
<1>17. CASE SnapshotGoal  BY <1>17 DEF SnapshotGoal, TakeSnapshot, TagHolds
<1>18. CASE EndPassed  BY <1>18 DEF EndPassed, EndGoal
<1>19. CASE ReapJobs  BY <1>19 DEF ReapJobs, KillJob
<1>20. CASE Rollback  BY <1>20 DEF Rollback, HardReset
<1>21. CASE CountFailure  BY <1>21 DEF CountFailure
<1>22. CASE Abort
  <2>1. UNCHANGED <<row, rowIters, verdicts>>  BY <1>22 DEF Abort
  <2> QED  BY <2>1 DEF LedgerInv, LedgerAgrees, RowAgrees
<1>23. CASE Crash
  <2>1. UNCHANGED <<row, rowIters, verdicts>>  BY <1>23 DEF Crash
  <2> QED  BY <2>1 DEF LedgerInv, LedgerAgrees, RowAgrees
<1>24. CASE RequestStop
  <2>1. UNCHANGED <<row, rowIters, verdicts>>  BY <1>24 DEF RequestStop
  <2> QED  BY <2>1 DEF LedgerInv, LedgerAgrees, RowAgrees
<1>25. CASE BudgetRunsOut
  <2>1. UNCHANGED <<row, rowIters, verdicts>>  BY <1>25 DEF BudgetRunsOut
  <2> QED  BY <2>1 DEF LedgerInv, LedgerAgrees, RowAgrees
<1>26. CASE JobWrites  BY <1>26 DEF JobWrites
<1>27. CASE JobExits  BY <1>27 DEF JobExits
<1>28. CASE UNCHANGED vars  BY <1>28 DEF vars
<1> QED
  BY <1>1, <1>2, <1>3, <1>4, <1>5, <1>6, <1>7, <1>8, <1>9, <1>10, <1>11, <1>12, <1>13, <1>14,
     <1>15, <1>16, <1>17, <1>18, <1>19, <1>20, <1>21, <1>22, <1>23, <1>24, <1>25, <1>26, <1>27, <1>28
  DEF Next, Controller, SessionStep, IterStep, ToolStep, Faults, Finished

\* The tags of the passed goals stay what they were made from.
LEMMA TagStep == DataOK /\ PcInv /\ OrderInv /\ TagInv /\ [Next]_vars => TagInv'
<1> SUFFICES ASSUME DataOK, PcInv, OrderInv, TagInv, [Next]_vars PROVE TagInv'
  OBVIOUS
<1> USE NumGoalsAssumption
    DEF DataOK, Goals, TagIds, InGoal, Running, PcInv, OrderInv, TagInv,
        db, repo, ws, world, local
<1>1. CASE StartSession  BY <1>1 DEF StartSession
<1>2. CASE PrepareWorkspace  BY <1>2 DEF PrepareWorkspace, TakeSnapshot, TagHolds
<1>3. CASE BeginGoal  BY <1>3 DEF BeginGoal
<1>4. CASE BeginSkip  BY <1>4 DEF BeginSkip
<1>5. CASE EndSkip  BY <1>5 DEF EndSkip, EndGoal
<1>6. CASE LeaveLoop  BY <1>6 DEF LeaveLoop
<1>7. CASE CloseSession  BY <1>7 DEF CloseSession
<1>8. CASE GiveUp  BY <1>8 DEF GiveUp, EndGoal
<1>9. CASE BeginIteration  BY <1>9 DEF BeginIteration
<1>10. CASE Chat  BY <1>10 DEF Chat
<1>11. CASE ToolObserves  BY <1>11 DEF ToolObserves, NextCall
<1>12. CASE ToolWrites  BY <1>12 DEF ToolWrites, NextCall
<1>13. CASE ToolStartsJob  BY <1>13 DEF ToolStartsJob, NextCall
<1>14. CASE ToolKillsJob  BY <1>14 DEF ToolKillsJob, NextCall, KillJob
<1>15. CASE ToolsDone  BY <1>15 DEF ToolsDone
<1>16. CASE Verify
  <2>1. /\ pc = "verify" /\ pc' \in {"snapshot", "decide"}
        /\ row[cur] = "running"
        /\ UNCHANGED <<row, tagMet, tagged, met, job, cur>>
    BY <1>16 DEF Verify
  <2>2. PICK verdict \in Outcomes :
          exact' = IF VerifiedAsIs(verdict) THEN exact \cup {cur} ELSE exact \ {cur}
    BY <1>16 DEF Verify
  <2>3. VerifiedAsIs(verdict) => cur \in met /\ ~ignored' /\ ~job
    BY DEF VerifiedAsIs, Outcomes
  <2>4. \A g \in Goals : g # cur => (g \in exact' <=> g \in exact)
    BY <2>2
  <2>5. cur \in exact' => cur \in met /\ ~ignored' /\ ~job
    BY <2>2, <2>3
  <2> QED  BY <2>1, <2>4, <2>5
<1>17. CASE SnapshotGoal  BY <1>17 DEF SnapshotGoal, TakeSnapshot, TagHolds
<1>18. CASE EndPassed  BY <1>18 DEF EndPassed, EndGoal
<1>19. CASE ReapJobs  BY <1>19 DEF ReapJobs, KillJob
<1>20. CASE Rollback  BY <1>20 DEF Rollback, HardReset
<1>21. CASE CountFailure  BY <1>21 DEF CountFailure
<1>22. CASE Abort  BY <1>22 DEF Abort
<1>23. CASE Crash  BY <1>23 DEF Crash
<1>24. CASE RequestStop  BY <1>24 DEF RequestStop
<1>25. CASE BudgetRunsOut
  <2>1. UNCHANGED <<pc, row, cur, tagged, tagMet, exact, met, ignored, job>>
    BY <1>25 DEF BudgetRunsOut
  <2> QED  BY <2>1
<1>26. CASE JobWrites  BY <1>26 DEF JobWrites
<1>27. CASE JobExits  BY <1>27 DEF JobExits
<1>28. CASE UNCHANGED vars  BY <1>28 DEF vars
<1> QED
  BY <1>1, <1>2, <1>3, <1>4, <1>5, <1>6, <1>7, <1>8, <1>9, <1>10, <1>11, <1>12, <1>13, <1>14,
     <1>15, <1>16, <1>17, <1>18, <1>19, <1>20, <1>21, <1>22, <1>23, <1>24, <1>25, <1>26, <1>27, <1>28
  DEF Next, Controller, SessionStep, IterStep, ToolStep, Faults, Finished

\* A skipped or stopped goal leaves its cause behind, and no goal is tried after a skipped one.
LEMMA LimitStep == DataOK /\ PcInv /\ LimitInv /\ [Next]_vars => LimitInv'
<1> SUFFICES ASSUME DataOK, PcInv, LimitInv, [Next]_vars PROVE LimitInv'
  OBVIOUS
<1> USE NumGoalsAssumption
    DEF DataOK, Goals, TagIds, InGoal, Running, PcInv, LimitInv,
        db, repo, ws, world, local
<1>1. CASE StartSession  BY <1>1 DEF StartSession
<1>2. CASE PrepareWorkspace  BY <1>2 DEF PrepareWorkspace, TakeSnapshot, TagHolds
<1>3. CASE BeginGoal  BY <1>3 DEF BeginGoal
<1>4. CASE BeginSkip  BY <1>4 DEF BeginSkip
<1>5. CASE EndSkip  BY <1>5 DEF EndSkip, EndGoal
<1>6. CASE LeaveLoop  BY <1>6 DEF LeaveLoop
<1>7. CASE CloseSession  BY <1>7 DEF CloseSession
<1>8. CASE GiveUp  BY <1>8 DEF GiveUp, EndGoal
<1>9. CASE BeginIteration  BY <1>9 DEF BeginIteration
<1>10. CASE Chat  BY <1>10 DEF Chat
<1>11. CASE ToolObserves  BY <1>11 DEF ToolObserves, NextCall
<1>12. CASE ToolWrites  BY <1>12 DEF ToolWrites, NextCall
<1>13. CASE ToolStartsJob  BY <1>13 DEF ToolStartsJob, NextCall
<1>14. CASE ToolKillsJob  BY <1>14 DEF ToolKillsJob, NextCall, KillJob
<1>15. CASE ToolsDone  BY <1>15 DEF ToolsDone
<1>16. CASE Verify  BY <1>16 DEF Verify, RecordIteration, Outcomes
<1>17. CASE SnapshotGoal  BY <1>17 DEF SnapshotGoal, TakeSnapshot, TagHolds
<1>18. CASE EndPassed  BY <1>18 DEF EndPassed, EndGoal
<1>19. CASE ReapJobs  BY <1>19 DEF ReapJobs, KillJob
<1>20. CASE Rollback  BY <1>20 DEF Rollback, HardReset
<1>21. CASE CountFailure  BY <1>21 DEF CountFailure
<1>22. CASE Abort  BY <1>22 DEF Abort
<1>23. CASE Crash  BY <1>23 DEF Crash
<1>24. CASE RequestStop  BY <1>24 DEF RequestStop
<1>25. CASE BudgetRunsOut
  <2>1. UNCHANGED <<pc, session, row, stop>>
    BY <1>25 DEF BudgetRunsOut
  <2>2. over => over'
    BY <1>25 DEF BudgetRunsOut
  <2> QED  BY <2>1, <2>2
<1>26. CASE JobWrites  BY <1>26 DEF JobWrites
<1>27. CASE JobExits  BY <1>27 DEF JobExits
<1>28. CASE UNCHANGED vars  BY <1>28 DEF vars
<1> QED
  BY <1>1, <1>2, <1>3, <1>4, <1>5, <1>6, <1>7, <1>8, <1>9, <1>10, <1>11, <1>12, <1>13, <1>14,
     <1>15, <1>16, <1>17, <1>18, <1>19, <1>20, <1>21, <1>22, <1>23, <1>24, <1>25, <1>26, <1>27, <1>28
  DEF Next, Controller, SessionStep, IterStep, ToolStep, Faults, Finished

\* The rollback target stays the latest success while its goal runs.
LEMMA GoodStep == DataOK /\ PcInv /\ GoodIsLatest /\ [Next]_vars => GoodIsLatest'
<1> SUFFICES ASSUME DataOK, PcInv, GoodIsLatest, [Next]_vars PROVE GoodIsLatest'
  OBVIOUS
<1> USE NumGoalsAssumption
    DEF DataOK, Goals, TagIds, InGoal, Running, PcInv, GoodIsLatest, IsLastPassed,
        db, repo, ws, world, local
<1>1. CASE StartSession  BY <1>1 DEF StartSession
<1>2. CASE PrepareWorkspace  BY <1>2 DEF PrepareWorkspace, TakeSnapshot, TagHolds
<1>3. CASE BeginGoal  BY <1>3 DEF BeginGoal
<1>4. CASE BeginSkip  BY <1>4 DEF BeginSkip
<1>5. CASE EndSkip  BY <1>5 DEF EndSkip, EndGoal
<1>6. CASE LeaveLoop  BY <1>6 DEF LeaveLoop
<1>7. CASE CloseSession  BY <1>7 DEF CloseSession
<1>8. CASE GiveUp  BY <1>8 DEF GiveUp, EndGoal
<1>9. CASE BeginIteration  BY <1>9 DEF BeginIteration
<1>10. CASE Chat  BY <1>10 DEF Chat
<1>11. CASE ToolObserves  BY <1>11 DEF ToolObserves, NextCall
<1>12. CASE ToolWrites  BY <1>12 DEF ToolWrites, NextCall
<1>13. CASE ToolStartsJob  BY <1>13 DEF ToolStartsJob, NextCall
<1>14. CASE ToolKillsJob  BY <1>14 DEF ToolKillsJob, NextCall, KillJob
<1>15. CASE ToolsDone  BY <1>15 DEF ToolsDone
<1>16. CASE Verify  BY <1>16 DEF Verify, RecordIteration, Outcomes
<1>17. CASE SnapshotGoal  BY <1>17 DEF SnapshotGoal, TakeSnapshot, TagHolds
<1>18. CASE EndPassed  BY <1>18 DEF EndPassed, EndGoal
<1>19. CASE ReapJobs  BY <1>19 DEF ReapJobs, KillJob
<1>20. CASE Rollback  BY <1>20 DEF Rollback, HardReset
<1>21. CASE CountFailure  BY <1>21 DEF CountFailure
<1>22. CASE Abort  BY <1>22 DEF Abort
<1>23. CASE Crash  BY <1>23 DEF Crash
<1>24. CASE RequestStop  BY <1>24 DEF RequestStop
<1>25. CASE BudgetRunsOut  BY <1>25 DEF BudgetRunsOut
<1>26. CASE JobWrites  BY <1>26 DEF JobWrites
<1>27. CASE JobExits  BY <1>27 DEF JobExits
<1>28. CASE UNCHANGED vars  BY <1>28 DEF vars
<1> QED
  BY <1>1, <1>2, <1>3, <1>4, <1>5, <1>6, <1>7, <1>8, <1>9, <1>10, <1>11, <1>12, <1>13, <1>14,
     <1>15, <1>16, <1>17, <1>18, <1>19, <1>20, <1>21, <1>22, <1>23, <1>24, <1>25, <1>26, <1>27, <1>28
  DEF Next, Controller, SessionStep, IterStep, ToolStep, Faults, Finished

\* No goal is tried after a skipped one.
LEMMA SkipStep == DataOK /\ LedgerInv /\ LimitInv /\ RowsFollowOrder /\ [Next]_vars => RowsFollowOrder'
<1> SUFFICES ASSUME DataOK, LedgerInv, LimitInv, RowsFollowOrder, [Next]_vars PROVE RowsFollowOrder'
  OBVIOUS
<1> USE NumGoalsAssumption
    DEF DataOK, Goals, TagIds, InGoal, Running, LedgerInv, PcInv, OrderInv, VerdictInv, LimitInv, RowsFollowOrder,
        db, repo, ws, world, local
<1>1. CASE StartSession  BY <1>1 DEF StartSession
<1>2. CASE PrepareWorkspace  BY <1>2 DEF PrepareWorkspace, TakeSnapshot, TagHolds
<1>3. CASE BeginGoal
  <2>1. /\ \A g \in Goals : g # cur => row'[g] = row[g]
        /\ verdicts' = verdicts /\ cur' \in {cur, cur + 1}
    BY <1>3 DEF BeginGoal
  <2>2. verdicts[cur] = <<>>
    BY <1>3 DEF BeginGoal, LedgerAgrees, RowAgrees
  <2>3. row'[cur] \in {"running", "skipped"}
    BY <1>3 DEF BeginGoal
  <2>4. ASSUME NEW g \in Goals, NEW h \in Goals, g < h, row'[g] = "skipped"
        PROVE  row'[h] \in {"absent", "running", "skipped"} /\ verdicts'[h] = <<>>
    <3>1. CASE h = cur  BY <2>1, <2>2, <2>3, <3>1
    <3>2. CASE g = cur
      <4>1. row[h] = "absent" /\ row'[h] = row[h]  BY <2>1, <2>4, <3>2
      <4>2. verdicts[h] = <<>>  BY <4>1 DEF LedgerAgrees, RowAgrees
      <4> QED  BY <2>1, <4>1, <4>2
    <3>3. CASE h # cur /\ g # cur  BY <2>1, <2>4, <3>3
    <3> QED  BY <3>1, <3>2, <3>3
  <2>5. ASSUME NEW g \in Goals, g > cur'  PROVE row'[g] = "absent"
    <3>1. g # cur /\ g > cur  BY <2>1, <2>5
    <3> QED  BY <2>1, <3>1
  <2>6. ASSUME NEW g \in Goals, row'[g] = "running"  PROVE g = cur'
    BY <1>3, <2>1, <2>6 DEF BeginGoal
  <2> QED  BY <2>4, <2>5, <2>6
<1>4. CASE BeginSkip
  <2>1. /\ \A g \in Goals : g # cur => row'[g] = row[g]
        /\ verdicts' = verdicts /\ cur' \in {cur, cur + 1}
    BY <1>4 DEF BeginSkip
  <2>2. verdicts[cur] = <<>>
    BY <1>4 DEF BeginSkip, LedgerAgrees, RowAgrees
  <2>3. row'[cur] \in {"running", "skipped"}
    BY <1>4 DEF BeginSkip
  <2>4. ASSUME NEW g \in Goals, NEW h \in Goals, g < h, row'[g] = "skipped"
        PROVE  row'[h] \in {"absent", "running", "skipped"} /\ verdicts'[h] = <<>>
    <3>1. CASE h = cur  BY <2>1, <2>2, <2>3, <3>1
    <3>2. CASE g = cur
      <4>1. row[h] = "absent" /\ row'[h] = row[h]  BY <2>1, <2>4, <3>2
      <4>2. verdicts[h] = <<>>  BY <4>1 DEF LedgerAgrees, RowAgrees
      <4> QED  BY <2>1, <4>1, <4>2
    <3>3. CASE h # cur /\ g # cur  BY <2>1, <2>4, <3>3
    <3> QED  BY <3>1, <3>2, <3>3
  <2>5. ASSUME NEW g \in Goals, g > cur'  PROVE row'[g] = "absent"
    <3>1. g # cur /\ g > cur  BY <2>1, <2>5
    <3> QED  BY <2>1, <3>1
  <2>6. ASSUME NEW g \in Goals, row'[g] = "running"  PROVE g = cur'
    BY <1>4, <2>1, <2>6 DEF BeginSkip
  <2> QED  BY <2>4, <2>5, <2>6
<1>5. CASE EndSkip
  <2>1. /\ \A g \in Goals : g # cur => row'[g] = row[g]
        /\ verdicts' = verdicts /\ cur' \in {cur, cur + 1}
    BY <1>5 DEF EndSkip, EndGoal
  <2>2. verdicts[cur] = <<>>
    BY <1>5 DEF EndSkip, EndGoal, LedgerAgrees, RowAgrees
  <2>3. row'[cur] \in {"running", "skipped"}
    BY <1>5 DEF EndSkip, EndGoal
  <2>4. ASSUME NEW g \in Goals, NEW h \in Goals, g < h, row'[g] = "skipped"
        PROVE  row'[h] \in {"absent", "running", "skipped"} /\ verdicts'[h] = <<>>
    <3>1. CASE h = cur  BY <2>1, <2>2, <2>3, <3>1
    <3>2. CASE g = cur
      <4>1. row[h] = "absent" /\ row'[h] = row[h]  BY <2>1, <2>4, <3>2
      <4>2. verdicts[h] = <<>>  BY <4>1 DEF LedgerAgrees, RowAgrees
      <4> QED  BY <2>1, <4>1, <4>2
    <3>3. CASE h # cur /\ g # cur  BY <2>1, <2>4, <3>3
    <3> QED  BY <3>1, <3>2, <3>3
  <2>5. ASSUME NEW g \in Goals, g > cur'  PROVE row'[g] = "absent"
    <3>1. g # cur /\ g > cur  BY <2>1, <2>5
    <3> QED  BY <2>1, <3>1
  <2>6. ASSUME NEW g \in Goals, row'[g] = "running"  PROVE g = cur'
    BY <1>5, <2>1, <2>6 DEF EndSkip, EndGoal
  <2> QED  BY <2>4, <2>5, <2>6
<1>6. CASE LeaveLoop  BY <1>6 DEF LeaveLoop
<1>7. CASE CloseSession  BY <1>7 DEF CloseSession
<1>8. CASE GiveUp  BY <1>8 DEF GiveUp, EndGoal
<1>9. CASE BeginIteration  BY <1>9 DEF BeginIteration
<1>10. CASE Chat  BY <1>10 DEF Chat
<1>11. CASE ToolObserves  BY <1>11 DEF ToolObserves, NextCall
<1>12. CASE ToolWrites  BY <1>12 DEF ToolWrites, NextCall
<1>13. CASE ToolStartsJob  BY <1>13 DEF ToolStartsJob, NextCall
<1>14. CASE ToolKillsJob  BY <1>14 DEF ToolKillsJob, NextCall, KillJob
<1>15. CASE ToolsDone  BY <1>15 DEF ToolsDone
<1>16. CASE Verify  BY <1>16 DEF Verify, RecordIteration, Outcomes
<1>17. CASE SnapshotGoal  BY <1>17 DEF SnapshotGoal, TakeSnapshot, TagHolds
<1>18. CASE EndPassed  BY <1>18 DEF EndPassed, EndGoal
<1>19. CASE ReapJobs  BY <1>19 DEF ReapJobs, KillJob
<1>20. CASE Rollback  BY <1>20 DEF Rollback, HardReset
<1>21. CASE CountFailure  BY <1>21 DEF CountFailure
<1>22. CASE Abort  BY <1>22 DEF Abort
<1>23. CASE Crash  BY <1>23 DEF Crash
<1>24. CASE RequestStop  BY <1>24 DEF RequestStop
<1>25. CASE BudgetRunsOut  BY <1>25 DEF BudgetRunsOut
<1>26. CASE JobWrites  BY <1>26 DEF JobWrites
<1>27. CASE JobExits  BY <1>27 DEF JobExits
<1>28. CASE UNCHANGED vars  BY <1>28 DEF vars
<1> QED
  BY <1>1, <1>2, <1>3, <1>4, <1>5, <1>6, <1>7, <1>8, <1>9, <1>10, <1>11, <1>12, <1>13, <1>14,
     <1>15, <1>16, <1>17, <1>18, <1>19, <1>20, <1>21, <1>22, <1>23, <1>24, <1>25, <1>26, <1>27, <1>28
  DEF Next, Controller, SessionStep, IterStep, ToolStep, Faults, Finished

\* The loop leaves no goal behind without a row.
LEMMA ScopeStep == DataOK /\ PcInv /\ OrderInv /\ ScopeInv /\ [Next]_vars => ScopeInv'
<1> SUFFICES ASSUME DataOK, PcInv, OrderInv, ScopeInv, [Next]_vars PROVE ScopeInv'
  OBVIOUS
<1> USE NumGoalsAssumption
    DEF DataOK, Goals, TagIds, InGoal, Running, PcInv, OrderInv, ScopeInv,
        db, repo, ws, world, local
<1>1. CASE StartSession  BY <1>1 DEF StartSession
<1>2. CASE PrepareWorkspace  BY <1>2 DEF PrepareWorkspace, TakeSnapshot, TagHolds
<1>3. CASE BeginGoal  BY <1>3 DEF BeginGoal
<1>4. CASE BeginSkip  BY <1>4 DEF BeginSkip
<1>5. CASE EndSkip  BY <1>5 DEF EndSkip, EndGoal
<1>6. CASE LeaveLoop  BY <1>6 DEF LeaveLoop
<1>7. CASE CloseSession  BY <1>7 DEF CloseSession
<1>8. CASE GiveUp  BY <1>8 DEF GiveUp, EndGoal
<1>9. CASE BeginIteration  BY <1>9 DEF BeginIteration
<1>10. CASE Chat  BY <1>10 DEF Chat
<1>11. CASE ToolObserves  BY <1>11 DEF ToolObserves, NextCall
<1>12. CASE ToolWrites  BY <1>12 DEF ToolWrites, NextCall
<1>13. CASE ToolStartsJob  BY <1>13 DEF ToolStartsJob, NextCall
<1>14. CASE ToolKillsJob  BY <1>14 DEF ToolKillsJob, NextCall, KillJob
<1>15. CASE ToolsDone  BY <1>15 DEF ToolsDone
<1>16. CASE Verify  BY <1>16 DEF Verify, RecordIteration, Outcomes
<1>17. CASE SnapshotGoal  BY <1>17 DEF SnapshotGoal, TakeSnapshot, TagHolds
<1>18. CASE EndPassed  BY <1>18 DEF EndPassed, EndGoal
<1>19. CASE ReapJobs  BY <1>19 DEF ReapJobs, KillJob
<1>20. CASE Rollback  BY <1>20 DEF Rollback, HardReset
<1>21. CASE CountFailure  BY <1>21 DEF CountFailure
<1>22. CASE Abort  BY <1>22 DEF Abort
<1>23. CASE Crash  BY <1>23 DEF Crash
<1>24. CASE RequestStop  BY <1>24 DEF RequestStop
<1>25. CASE BudgetRunsOut  BY <1>25 DEF BudgetRunsOut
<1>26. CASE JobWrites  BY <1>26 DEF JobWrites
<1>27. CASE JobExits  BY <1>27 DEF JobExits
<1>28. CASE UNCHANGED vars  BY <1>28 DEF vars
<1> QED
  BY <1>1, <1>2, <1>3, <1>4, <1>5, <1>6, <1>7, <1>8, <1>9, <1>10, <1>11, <1>12, <1>13, <1>14,
     <1>15, <1>16, <1>17, <1>18, <1>19, <1>20, <1>21, <1>22, <1>23, <1>24, <1>25, <1>26, <1>27, <1>28
  DEF Next, Controller, SessionStep, IterStep, ToolStep, Faults, Finished

\* No failure is counted beyond the point where something is done about it.
LEMMA StrategyStep == DataOK /\ FlagsOK /\ StrategyInv /\ [Next]_vars => StrategyInv'
<1> SUFFICES ASSUME DataOK, FlagsOK, StrategyInv, [Next]_vars PROVE StrategyInv'
  OBVIOUS
<1> USE LimitsAssumption
    DEF DataOK, FlagsOK, TagIds, StrategyInv, db, repo, ws, world, local
<1>1. CASE StartSession  BY <1>1 DEF StartSession
<1>2. CASE PrepareWorkspace  BY <1>2 DEF PrepareWorkspace, TakeSnapshot, TagHolds
<1>3. CASE BeginGoal  BY <1>3 DEF BeginGoal
<1>4. CASE BeginSkip  BY <1>4 DEF BeginSkip
<1>5. CASE EndSkip  BY <1>5 DEF EndSkip, EndGoal
<1>6. CASE LeaveLoop  BY <1>6 DEF LeaveLoop
<1>7. CASE CloseSession  BY <1>7 DEF CloseSession
<1>8. CASE GiveUp  BY <1>8 DEF GiveUp, EndGoal
<1>9. CASE BeginIteration  BY <1>9 DEF BeginIteration
<1>10. CASE Chat  BY <1>10 DEF Chat
<1>11. CASE ToolObserves  BY <1>11 DEF ToolObserves, NextCall
<1>12. CASE ToolWrites  BY <1>12 DEF ToolWrites, NextCall
<1>13. CASE ToolStartsJob  BY <1>13 DEF ToolStartsJob, NextCall
<1>14. CASE ToolKillsJob  BY <1>14 DEF ToolKillsJob, NextCall, KillJob
<1>15. CASE ToolsDone  BY <1>15 DEF ToolsDone
<1>16. CASE Verify
  <2>1. pc = "verify" /\ pc' \in {"snapshot", "decide"} /\ UNCHANGED <<iter, fails, good, advice>>
    BY <1>16 DEF Verify
  <2> QED  BY <2>1
<1>17. CASE SnapshotGoal  BY <1>17 DEF SnapshotGoal, TakeSnapshot, TagHolds
<1>18. CASE EndPassed  BY <1>18 DEF EndPassed, EndGoal
<1>19. CASE ReapJobs  BY <1>19 DEF ReapJobs, KillJob
<1>20. CASE Rollback  BY <1>20 DEF Rollback, RollbackDue, HardReset
<1>21. CASE CountFailure
  <2>1. /\ pc = "decide" /\ pc' = "iterHead" /\ fails' = fails + 1 /\ UNCHANGED <<iter, good>>
        /\ fails \in Nat /\ iter \in Nat /\ fails + 1 <= iter
    BY <1>21 DEF CountFailure
  <2>2. RollbackAfter > 0 /\ good # 0 => fails + 1 < RollbackAfter
    BY <1>21 DEF CountFailure, RollbackDue
  <2>3. advice' = (advice \/ AdviceDue)
    BY <1>21 DEF CountFailure
  <2>4. StrategyAfter > 0 /\ fails + 1 >= StrategyAfter => advice'
    BY <2>3, Zenon DEF AdviceDue
  <2> QED  BY <2>1, <2>2, <2>4
<1>22. CASE Abort  BY <1>22 DEF Abort
<1>23. CASE Crash  BY <1>23 DEF Crash
<1>24. CASE RequestStop  BY <1>24 DEF RequestStop
<1>25. CASE BudgetRunsOut
  <2>1. UNCHANGED <<pc, iter, fails, good, advice>>
    BY <1>25 DEF BudgetRunsOut
  <2> QED  BY <2>1
<1>26. CASE JobWrites  BY <1>26 DEF JobWrites
<1>27. CASE JobExits  BY <1>27 DEF JobExits
<1>28. CASE UNCHANGED vars  BY <1>28 DEF vars
<1> QED
  BY <1>1, <1>2, <1>3, <1>4, <1>5, <1>6, <1>7, <1>8, <1>9, <1>10, <1>11, <1>12, <1>13, <1>14,
     <1>15, <1>16, <1>17, <1>18, <1>19, <1>20, <1>21, <1>22, <1>23, <1>24, <1>25, <1>26, <1>27, <1>28
  DEF Next, Controller, SessionStep, IterStep, ToolStep, Faults, Finished

\* Every variable keeps its type: the rows, counters and program counter of
\* the controller never leave the sets the code draws them from.
THEOREM TypeCorrect == Spec => []TypeOK
<1>1. Init => TypeOK
  <2>1. Init => DataOK
    BY NumGoalsAssumption DEF Init, DataOK, Goals, TagIds, PCs, InGoal, RowState
  <2>2. Init => FlagsOK
    BY DEF Init, FlagsOK
  <2> QED  BY <2>1, <2>2 DEF TypeOK
<1>2. TypeOK /\ [Next]_vars => TypeOK'
  BY FlagsStep, DataStep DEF TypeOK
<1> QED  BY <1>1, <1>2, PTL DEF Spec

\* The inductive invariant behind the theorems that follow.
THEOREM SessionInvariant == Spec => [](TypeOK /\ SessionInv)
<1>1. Init => SessionInv
  <2> SUFFICES ASSUME Init PROVE SessionInv
    OBVIOUS
  <2>1. \A g \in Goals : row[g] = "absent" /\ rowIters[g] = 0 /\ verdicts[g] = <<>>
    BY DEF Init
  <2>2. PcInv /\ OrderInv /\ VerdictInv
    BY <2>1 DEF Init, PcInv, OrderInv, VerdictInv, Running, InGoal
  <2>3. LedgerAgrees
    BY <2>1 DEF LedgerAgrees, RowAgrees
  <2>4. TagInv /\ LimitInv
    BY <2>1 DEF Init, TagInv, LimitInv, InGoal
  <2>5. GoodIsLatest /\ RowsFollowOrder /\ ScopeInv
    BY <2>1 DEF Init, GoodIsLatest, RowsFollowOrder, ScopeInv, InGoal
  <2>6. StrategyInv
    BY DEF Init, StrategyInv
  <2> QED  BY <2>2, <2>3, <2>4, <2>5, <2>6 DEF SessionInv, LedgerInv
<1>2. TypeOK /\ SessionInv /\ [Next]_vars => SessionInv'
  <2> SUFFICES ASSUME TypeOK, SessionInv, [Next]_vars PROVE SessionInv'
    OBVIOUS
  <2>1. LedgerInv'
    BY PcStep, OrderStep, VerdictStep, LedgerStep DEF TypeOK, SessionInv, LedgerInv
  <2>2. TagInv' /\ LimitInv' /\ GoodIsLatest'
    BY TagStep, LimitStep, GoodStep DEF TypeOK, SessionInv, LedgerInv
  <2>3. RowsFollowOrder' /\ ScopeInv'
    BY SkipStep, ScopeStep DEF TypeOK, SessionInv, LedgerInv
  <2>4. StrategyInv'
    BY StrategyStep DEF TypeOK, SessionInv
  <2> QED  BY <2>1, <2>2, <2>3, <2>4 DEF SessionInv
<1> QED  BY <1>1, <1>2, TypeCorrect, PTL DEF Spec

\* The goals table and the iterations table tell the same story.
THEOREM LedgerAgreement == Spec => []LedgerAgrees
<1>1. SessionInv => LedgerAgrees  BY DEF SessionInv, LedgerInv
<1> QED  BY <1>1, SessionInvariant, PTL

\* The tag of every goal recorded as passed exists, and satisfies that goal if
\* it was verified with no job running and nothing around that git ignores.
THEOREM PassedTagCorrect == Spec => []PassedTagIsGood
<1>1. SessionInv => PassedTagIsGood
  BY DEF SessionInv, TagInv, PassedTagIsGood
<1> QED  BY <1>1, SessionInvariant, PTL

\* A rollback aims at the most recent success.
THEOREM RollbackTarget == Spec => []GoodIsLatest
<1>1. SessionInv => GoodIsLatest  BY DEF SessionInv
<1> QED  BY <1>1, SessionInvariant, PTL

\* Goals run one at a time, in order, and none is tried after a skipped one.
THEOREM RowsInOrder == Spec => []RowsFollowOrder
<1>1. SessionInv => RowsFollowOrder  BY DEF SessionInv
<1> QED  BY <1>1, SessionInvariant, PTL

\* An orderly end accounts for every goal.
THEOREM OrderlyEnd == Spec => []ClosedIsComplete
<1>1. TypeOK /\ SessionInv => ClosedIsComplete
  <2> SUFFICES ASSUME TypeOK, SessionInv, session \in {"completed", "stopped"}
               PROVE ClosedIsComplete
    BY DEF ClosedIsComplete
  <2>1. pc = "closed"
    BY DEF TypeOK, DataOK, PCs, Running, Final, SessionInv, LedgerInv, PcInv
  <2>2. cur = last + 1
    BY <2>1 DEF TypeOK, DataOK, SessionInv, LedgerInv, PcInv, ScopeInv
  <2>3. \A g \in Goals : row[g] # "running"
    BY <2>1 DEF SessionInv, LedgerInv, PcInv
  <2>4. last > 0 => row[last] \in Terminal
    <3> SUFFICES ASSUME last > 0 PROVE row[last] \in Terminal
      OBVIOUS
    <3>1. last \in Goals  BY NumGoalsAssumption DEF TypeOK, DataOK, Goals
    <3>2. row[last] # "absent"
      BY <2>2 DEF SessionInv, ScopeInv, TypeOK, DataOK
    <3> QED  BY <2>3, <3>1, <3>2 DEF TypeOK, DataOK, RowState, Terminal
  <2>5. \A g, h \in Goals : g < h /\ h <= last /\ row[g] # "absent" => row[h] # "absent"
    BY <2>2 DEF SessionInv, ScopeInv, Goals, TypeOK, DataOK
  <2>6. session = "completed" =>
          \A g \in Goals : row[g] # "stopped" /\ (row[g] = "skipped" => over)
    BY DEF SessionInv, LimitInv
  <2> QED  BY <2>2, <2>3, <2>4, <2>5, <2>6 DEF ClosedIsComplete
<1> QED  BY <1>1, SessionInvariant, PTL

\* A step touches the rows of the current goal only, and only while it is open.
LEMMA FrozenStep == DataOK /\ PcInv /\ OrderInv /\ [Next]_vars => RowsFrozen
<1> SUFFICES ASSUME DataOK, PcInv, OrderInv, [Next]_vars PROVE RowsFrozen
  OBVIOUS
<1> USE NumGoalsAssumption
    DEF DataOK, Goals, TagIds, InGoal, Running, RowsFrozen, Terminal, PcInv, OrderInv,
        db, repo, ws, world, local
<1>1. CASE StartSession  BY <1>1 DEF StartSession
<1>2. CASE PrepareWorkspace  BY <1>2 DEF PrepareWorkspace, TakeSnapshot, TagHolds
<1>3. CASE BeginGoal  BY <1>3 DEF BeginGoal
<1>4. CASE BeginSkip  BY <1>4 DEF BeginSkip
<1>5. CASE EndSkip  BY <1>5 DEF EndSkip, EndGoal
<1>6. CASE LeaveLoop  BY <1>6 DEF LeaveLoop
<1>7. CASE CloseSession  BY <1>7 DEF CloseSession
<1>8. CASE GiveUp  BY <1>8 DEF GiveUp, EndGoal
<1>9. CASE BeginIteration  BY <1>9 DEF BeginIteration
<1>10. CASE Chat  BY <1>10 DEF Chat
<1>11. CASE ToolObserves  BY <1>11 DEF ToolObserves, NextCall
<1>12. CASE ToolWrites  BY <1>12 DEF ToolWrites, NextCall
<1>13. CASE ToolStartsJob  BY <1>13 DEF ToolStartsJob, NextCall
<1>14. CASE ToolKillsJob  BY <1>14 DEF ToolKillsJob, NextCall, KillJob
<1>15. CASE ToolsDone  BY <1>15 DEF ToolsDone
<1>16. CASE Verify  BY <1>16 DEF Verify, RecordIteration, Outcomes
<1>17. CASE SnapshotGoal  BY <1>17 DEF SnapshotGoal, TakeSnapshot, TagHolds
<1>18. CASE EndPassed  BY <1>18 DEF EndPassed, EndGoal
<1>19. CASE ReapJobs  BY <1>19 DEF ReapJobs, KillJob
<1>20. CASE Rollback  BY <1>20 DEF Rollback, HardReset
<1>21. CASE CountFailure  BY <1>21 DEF CountFailure
<1>22. CASE Abort  BY <1>22 DEF Abort
<1>23. CASE Crash  BY <1>23 DEF Crash
<1>24. CASE RequestStop  BY <1>24 DEF RequestStop
<1>25. CASE BudgetRunsOut  BY <1>25 DEF BudgetRunsOut
<1>26. CASE JobWrites  BY <1>26 DEF JobWrites
<1>27. CASE JobExits  BY <1>27 DEF JobExits
<1>28. CASE UNCHANGED vars  BY <1>28 DEF vars
<1> QED
  BY <1>1, <1>2, <1>3, <1>4, <1>5, <1>6, <1>7, <1>8, <1>9, <1>10, <1>11, <1>12, <1>13, <1>14,
     <1>15, <1>16, <1>17, <1>18, <1>19, <1>20, <1>21, <1>22, <1>23, <1>24, <1>25, <1>26, <1>27, <1>28
  DEF Next, Controller, SessionStep, IterStep, ToolStep, Faults, Finished

\* What was recorded about a goal that has ended is never rewritten.
THEOREM RowsStayFrozen == Spec => TerminalRowsFrozen
<1>1. TypeOK /\ SessionInv /\ [Next]_vars => [RowsFrozen]_vars
  BY FrozenStep DEF TypeOK, SessionInv, LedgerInv
<1> QED  BY <1>1, SessionInvariant, PTL DEF Spec, TerminalRowsFrozen

\* No iteration starts with a rollback or an advice that is overdue
\* (rollback_after and strategy_change_after of decide()).
THEOREM StrategyIsApplied == Spec => []StrategyApplied
<1>1. SessionInv => StrategyApplied
  BY DEF SessionInv, StrategyInv, StrategyApplied
<1> QED  BY <1>1, SessionInvariant, PTL

\* Only Rollback clears the count, and then the tag is that of a passed goal.
LEMMA RollbackStep ==
  ASSUME TypeOK, SessionInv, [Next]_vars
  PROVE  RollbackIsGood
<1> SUFFICES ASSUME pc = "decide", pc' = "iterHead", fails' = 0
             PROVE  /\ good \in tagged
                    /\ row[good] = "passed"
                    /\ good \in exact /\ ~untracked /\ ~ignored => good \in met'
  BY DEF RollbackIsGood
<1>1. Rollback
  <2>1. ~CountFailure
    BY DEF CountFailure, TypeOK, DataOK
  <2>2. pc' # pc
    OBVIOUS
  <2>3. Rollback \/ CountFailure \/ Abort \/ Crash \/ RequestStop \/ BudgetRunsOut \/ JobWrites
          \/ JobExits \/ UNCHANGED vars
    BY DEF Next, Controller, SessionStep, IterStep, ToolStep, Faults, Finished, StartSession,
           PrepareWorkspace, BeginGoal, BeginSkip, EndSkip, LeaveLoop, CloseSession, GiveUp,
           BeginIteration, Chat, ToolObserves, ToolWrites, ToolStartsJob, ToolKillsJob, NextCall,
           ToolsDone, Verify, SnapshotGoal, EndPassed, ReapJobs
  <2> QED  BY <2>1, <2>2, <2>3 DEF Abort, Crash, RequestStop, BudgetRunsOut, JobWrites, JobExits, vars
<1>2. good # 0 /\ good \in Goals
  BY <1>1 DEF Rollback, RollbackDue, TypeOK, DataOK, TagIds, Goals
<1>3. row[good] = "passed"
  BY <1>1, <1>2 DEF SessionInv, GoodIsLatest, IsLastPassed, InGoal, Rollback
<1>4. good \in tagged /\ (good \in exact => good \in tagMet[good])
  BY <1>2, <1>3 DEF SessionInv, TagInv
<1>5. ~untracked /\ ~ignored => met' = tagMet[good]
  BY <1>1 DEF Rollback, HardReset
<1> QED  BY <1>3, <1>4, <1>5

\* A rollback goes to the tag of a goal on record as passed, and the workspace
\* then satisfies that goal ("we can revert to a known-good state",
\* snapshot.py:5) unless something escaped git, at the verification or since.
THEOREM RollbacksRestore == Spec => RollbackRestores
<1>1. TypeOK /\ SessionInv /\ [Next]_vars => [RollbackIsGood]_vars
  BY RollbackStep
<1> QED  BY <1>1, SessionInvariant, PTL DEF Spec, RollbackRestores

\* Every step of the loop is a step of the ledger, or leaves the ledger alone.
LEMMA LedgerNextStep == DataOK /\ FlagsOK /\ PcInv /\ OrderInv /\ LimitInv /\ [Next]_vars => [Ledger!Next]_(Ledger!ledger)
<1> SUFFICES ASSUME DataOK, FlagsOK, PcInv, OrderInv, LimitInv, [Next]_vars PROVE [Ledger!Next]_(Ledger!ledger)
  OBVIOUS
<1> USE NumGoalsAssumption
    DEF DataOK, Goals, Ledger!Goals, Ledger!ledger, Ledger!Next, db
<1>1. CASE StartSession
  BY <1>1 DEF StartSession, Ledger!Open, PcInv
<1>2. CASE PrepareWorkspace  BY <1>2 DEF PrepareWorkspace, TakeSnapshot, TagHolds
<1>3. CASE BeginGoal
  <2>1. Ledger!Begin(cur) /\ cur \in Goals
    BY <1>3 DEF BeginGoal, Ledger!Begin, PcInv, Running
  <2> QED  BY <2>1
<1>4. CASE BeginSkip
  <2>1. Ledger!Begin(cur) /\ cur \in Goals
    BY <1>4 DEF BeginSkip, Ledger!Begin, PcInv, Running
  <2> QED  BY <2>1
<1>5. CASE EndSkip
  <2>1. Ledger!Skip(cur) /\ cur \in Goals
    BY <1>5 DEF EndSkip, EndGoal, Ledger!Skip, PcInv, InGoal, Running
  <2> QED  BY <2>1
<1>6. CASE LeaveLoop  BY <1>6 DEF LeaveLoop
<1>7. CASE CloseSession
  <2>1. Ledger!Close
    BY <1>7 DEF CloseSession, Ledger!Close, PcInv, LimitInv, Running, FlagsOK
  <2> QED  BY <2>1
<1>8. CASE GiveUp
  <2>1. Ledger!Conclude(cur) /\ cur \in Goals
    <3>1. row' = [row EXCEPT ![cur] = "stopped"] \/ row' = [row EXCEPT ![cur] = "failed"]
      BY <1>8 DEF GiveUp, EndGoal
    <3>2. pc \in InGoal /\ session' = session /\ session = "running"
      BY <1>8 DEF GiveUp, EndGoal, InGoal, Running, PcInv
    <3> QED  BY <3>1, <3>2 DEF Ledger!Conclude, Ledger!Attempted, PcInv, LimitInv
  <2> QED  BY <2>1
<1>9. CASE BeginIteration  BY <1>9 DEF BeginIteration
<1>10. CASE Chat  BY <1>10 DEF Chat
<1>11. CASE ToolObserves  BY <1>11 DEF ToolObserves, NextCall
<1>12. CASE ToolWrites  BY <1>12 DEF ToolWrites, NextCall
<1>13. CASE ToolStartsJob  BY <1>13 DEF ToolStartsJob, NextCall
<1>14. CASE ToolKillsJob  BY <1>14 DEF ToolKillsJob, NextCall, KillJob
<1>15. CASE ToolsDone  BY <1>15 DEF ToolsDone
<1>16. CASE Verify  BY <1>16 DEF Verify, RecordIteration, Outcomes
<1>17. CASE SnapshotGoal  BY <1>17 DEF SnapshotGoal, TakeSnapshot, TagHolds
<1>18. CASE EndPassed
  <2>1. Ledger!Conclude(cur) /\ cur \in Goals
    BY <1>18 DEF EndPassed, EndGoal, Ledger!Conclude, Ledger!Attempted,
                PcInv, LimitInv, InGoal, Running
  <2> QED  BY <2>1
<1>19. CASE ReapJobs  BY <1>19 DEF ReapJobs, KillJob
<1>20. CASE Rollback  BY <1>20 DEF Rollback, HardReset
<1>21. CASE CountFailure  BY <1>21 DEF CountFailure
<1>22. CASE Abort
  BY <1>22 DEF Abort, Ledger!Break, PcInv
<1>23. CASE Crash  BY <1>23 DEF Crash
<1>24. CASE RequestStop  BY <1>24 DEF RequestStop
<1>25. CASE BudgetRunsOut  BY <1>25 DEF BudgetRunsOut
<1>26. CASE JobWrites  BY <1>26 DEF JobWrites
<1>27. CASE JobExits  BY <1>27 DEF JobExits
<1>28. CASE UNCHANGED vars  BY <1>28 DEF vars
<1> QED
  BY <1>1, <1>2, <1>3, <1>4, <1>5, <1>6, <1>7, <1>8, <1>9, <1>10, <1>11, <1>12, <1>13, <1>14,
     <1>15, <1>16, <1>17, <1>18, <1>19, <1>20, <1>21, <1>22, <1>23, <1>24, <1>25, <1>26, <1>27, <1>28
  DEF Next, Controller, SessionStep, IterStep, ToolStep, Faults, Finished

\* LoopController implements GoalLedger.
THEOREM LoopImplementsLedger == Spec => LedgerSpec
<1>1. Init => Ledger!Init
  BY DEF Init, Ledger!Init, Goals, Ledger!Goals
<1>2. TypeOK /\ SessionInv /\ [Next]_vars => [Ledger!Next]_(Ledger!ledger)
  <2>1. TypeOK => DataOK /\ FlagsOK  BY DEF TypeOK
  <2>2. SessionInv => PcInv /\ OrderInv /\ LimitInv  BY DEF SessionInv, LedgerInv
  <2> QED  BY <2>1, <2>2, LedgerNextStep
<1> QED  BY <1>1, <1>2, SessionInvariant, PTL DEF Spec, LedgerSpec, Ledger!Spec

=============================================================================
