------------------------- MODULE BackgroundJobsProofs -------------------------
(***************************************************************************)
(* Theorems about BackgroundJobs, for any output of a job, any children it *)
(* leaves behind and any sizes of pipe, read and result.                   *)
(***************************************************************************)
EXTENDS BackgroundJobs, TLAPS

\* Every unit a process wrote is in the pipe, in the read under way or stored.
Flow == \A s \in Streams : buffer[s] + acc[s] + pipe[s] = wrote[s]

\* What the reader thread knows of the pipes; the end of a file is for good.
DrainInv ==
  /\ dpc \in {"err", "store"} => acc["out"] = Chunk \/ EOF("out")
  /\ dpc = "store" => acc["err"] = Chunk \/ EOF("err")
  /\ dpc \in {"poll", "finish", "done"} => acc = Zero /\ EOF("out") /\ EOF("err")
  /\ dpc \in {"finish", "done"} => leader = "reaped"
  /\ finished <=> dpc = "done"

\* What the tool has read is behind what is stored, and no longer so once it
\* has seen the job finished.
ReadInv ==
  /\ offset <= seen["out"] /\ seen["out"] <= buffer["out"]
  /\ early => finished /\ seen = buffer
  /\ early /\ tool # "compose" => result.to = offset /\ result.total = seen["out"]

JobsInv == Flow /\ DrainInv /\ ReadInv

\* The first state.
LEMMA JobsInit == Init => TypeOK /\ JobsInv
<1> SUFFICES ASSUME Init PROVE TypeOK /\ JobsInv
  OBVIOUS
<1> USE JobsAssumption
<1>1. Zero \in [Streams -> Nat] /\ Zero \in [Streams -> 0..PipeCap] /\ Zero \in [Streams -> 0..Chunk]
  BY DEF Zero
<1>2. NoResult \in [from : Nat, to : Nat, err : BOOLEAN, finished : BOOLEAN, total : Nat]
  BY DEF NoResult
<1>3. todo \in Seq(Streams) /\ child \in {"none", "obeys", "ignores"} /\ reads \in 0..MaxReads
  BY DEF Init
<1>4. TypeOK  BY <1>1, <1>2, <1>3 DEF Init, TypeOK
<1>5. Flow  BY DEF Init, Flow, Zero
<1>6. DrainInv /\ ReadInv  BY DEF Init, DrainInv, ReadInv, Zero, Streams
<1> QED  BY <1>4, <1>5, <1>6 DEF JobsInv

\* A write fills a pipe that is not at its end.
LEMMA WriteStep ==
  ASSUME TypeOK, JobsInv, Write
  PROVE  TypeOK' /\ JobsInv'
<1> USE DEF TypeOK, JobsInv
<1>1. PICK h \in Streams :
        /\ leader = "alive" /\ pipe[h] < PipeCap
        /\ pipe' = [pipe EXCEPT ![h] = @ + 1] /\ wrote' = [wrote EXCEPT ![h] = @ + 1]
        /\ todo' \in Seq(Streams)
        /\ UNCHANGED <<leader, child, drain, control>>
  <2>1. Head(todo) \in Streams /\ Tail(todo) \in Seq(Streams)  BY DEF Write
  <2> QED  BY <2>1 DEF Write
<1>2. \A t \in Streams : pipe[t] \in 0..PipeCap /\ wrote[t] \in Nat /\ pipe[t] \in Nat
                        /\ buffer[t] \in Nat /\ acc[t] \in Nat
  BY JobsAssumption
<1>3. pipe[h] + 1 \in 0..PipeCap /\ wrote[h] + 1 \in Nat  BY <1>1, <1>2, JobsAssumption
<1>4. TypeOK'  BY <1>1, <1>3 DEF drain, control
<1>5. Flow'
  <2> SUFFICES ASSUME NEW t \in Streams PROVE (buffer[t] + acc[t] + pipe[t] = wrote[t])'
    BY DEF Flow
  <2>1. pipe'[t] = (IF t = h THEN pipe[t] + 1 ELSE pipe[t])  BY <1>1
  <2>2. wrote'[t] = (IF t = h THEN wrote[t] + 1 ELSE wrote[t])  BY <1>1
  <2>3. buffer' = buffer /\ acc' = acc  BY <1>1 DEF drain
  <2>4. /\ buffer[t] \in Nat /\ acc[t] \in Nat /\ pipe[t] \in Nat /\ wrote[t] \in Nat
        /\ buffer[t] + acc[t] + pipe[t] = wrote[t]
    BY <1>2 DEF Flow
  <2> HIDE DEF TypeOK, JobsInv
  <2> QED  BY <2>1, <2>2, <2>3, <2>4
<1>6. DrainInv'  BY <1>1 DEF drain, DrainInv, EOF
<1>7. ReadInv'  BY <1>1 DEF drain, control, ReadInv
<1> QED  BY <1>4, <1>5, <1>6, <1>7

\* Processes that end leave the output alone, and keep a file at its end.
LEMMA ExitStep ==
  ASSUME TypeOK, JobsInv, LeaderExits \/ ChildExits
  PROVE  TypeOK' /\ JobsInv'
<1> USE DEF TypeOK, JobsInv, LeaderExits, ChildExits, drain, control
<1>1. TypeOK'  OBVIOUS
<1>2. Flow'  BY DEF Flow
<1>3. DrainInv'  BY DEF DrainInv, EOF
<1>4. ReadInv'  BY DEF ReadInv
<1> QED  BY <1>1, <1>2, <1>3, <1>4

\* The reader thread: a read that comes back empty has seen the end of the file.
LEMMA DrainStep ==
  ASSUME TypeOK, JobsInv, Drain
  PROVE  TypeOK' /\ JobsInv'
<1> USE JobsAssumption DEF TypeOK, JobsInv, group, control
<1>0. "out" \in Streams /\ "err" \in Streams /\ \A s \in Streams : s \in {"out", "err"}
  BY DEF Streams
<1>1. ASSUME NEW s \in Streams, Fill(s) PROVE TypeOK' /\ JobsInv'
  <2>1. /\ acc[s] \in 0..Chunk /\ acc[s] + 1 \in 0..Chunk
        /\ pipe[s] \in 0..PipeCap /\ pipe[s] - 1 \in 0..PipeCap
    BY <1>1 DEF Fill
  <2>2. acc' \in [Streams -> 0..Chunk] /\ pipe' \in [Streams -> 0..PipeCap]
    BY <1>1, <2>1 DEF Fill
  <2>3. TypeOK'  BY <1>1, <2>2 DEF Fill
  <2>4. Flow'
    <3> SUFFICES ASSUME NEW t \in Streams PROVE (buffer[t] + acc[t] + pipe[t] = wrote[t])'
      BY DEF Flow
    <3>1. buffer[t] \in Nat /\ acc[t] \in Nat /\ pipe[t] \in Nat /\ wrote[t] \in Nat
      OBVIOUS
    <3>2. acc'[t] = (IF t = s THEN acc[t] + 1 ELSE acc[t])  BY <1>1 DEF Fill
    <3>3. pipe'[t] = (IF t = s THEN pipe[t] - 1 ELSE pipe[t])  BY <1>1 DEF Fill
    <3>4. buffer' = buffer /\ wrote' = wrote  BY <1>1 DEF Fill
    <3>5. buffer[t] + acc[t] + pipe[t] = wrote[t]  BY DEF Flow
    <3> HIDE DEF TypeOK, JobsInv
    <3> QED  BY <3>1, <3>2, <3>3, <3>4, <3>5
  <2>5. DrainInv'  BY <1>0, <1>1 DEF Fill, Reading, DrainInv, EOF
  <2>6. ReadInv'  BY <1>0, <1>1 DEF Fill, ReadInv
  <2> QED  BY <2>3, <2>4, <2>5, <2>6
<1>2. ASSUME NEW s \in Streams, ReadReturns(s) PROVE TypeOK' /\ JobsInv'
  <2>1. TypeOK'  BY <1>2 DEF ReadReturns
  <2>2. Flow' /\ ReadInv'  BY <1>2 DEF ReadReturns, Flow, ReadInv
  <2>3. DrainInv'  BY <1>0, <1>2 DEF ReadReturns, Reading, DrainInv, EOF
  <2> QED  BY <2>1, <2>2, <2>3
<1>3. CASE Store
  <2>1. TypeOK' /\ Flow'
    <3>1. /\ buffer' = [s \in Streams |-> buffer[s] + acc[s]] /\ acc' = [s \in Streams |-> 0]
          /\ UNCHANGED <<pipe, wrote>>
      BY <1>3 DEF Store, Zero
    <3>2. \A s \in Streams : /\ acc[s] \in Nat /\ buffer[s] \in Nat /\ pipe[s] \in Nat
                             /\ buffer[s] + acc[s] \in Nat
      OBVIOUS
    <3>3. buffer' \in [Streams -> Nat] /\ acc' \in [Streams -> 0..Chunk]
      BY <3>1, <3>2
    <3>4. TypeOK'  BY <1>3, <3>3 DEF Store
    <3>5. Flow'  BY <3>1, <3>2 DEF Flow
    <3> QED  BY <3>4, <3>5
  <2>2. acc = Zero => acc["out"] = 0 /\ acc["err"] = 0  BY <1>0 DEF Zero
  <2>3. DrainInv'  BY <1>0, <1>3, <2>2 DEF Store, DrainInv, EOF
  <2>4. ReadInv'
    <3>1. UNCHANGED <<seen, early, tool, offset, result, finished>>  BY <1>3 DEF Store
    <3>2. buffer'["out"] = buffer["out"] + acc["out"]  BY <1>0, <1>3 DEF Store
    <3>3. /\ buffer["out"] \in Nat /\ acc["out"] \in Nat
          /\ seen["out"] \in Nat /\ offset \in Nat
      BY <1>0
    <3>4. ReadInv /\ ~finished  BY <1>3 DEF Store, DrainInv
    <3> HIDE DEF TypeOK, JobsInv
    <3> QED  BY <3>1, <3>2, <3>3, <3>4 DEF ReadInv
  <2> QED  BY <2>1, <2>3, <2>4
<1>4. CASE Poll
  <2>1. TypeOK'  BY <1>4 DEF Poll
  <2>2. Flow'
    <3>1. Flow /\ UNCHANGED <<buffer, acc, pipe, wrote>>  BY <1>4 DEF Poll
    <3> QED  BY <3>1 DEF Flow
  <2>3. ReadInv'
    <3>1. ReadInv /\ UNCHANGED <<seen, buffer, early, tool, offset, result>>  BY <1>4 DEF Poll
    <3>2. finished => finished'  BY <1>4 DEF Poll
    <3> QED  BY <3>1, <3>2 DEF ReadInv
  <2>4. DrainInv'  BY <1>4 DEF Poll, DrainInv, EOF
  <2> QED  BY <2>1, <2>2, <2>3, <2>4
<1>5. CASE Finish
  <2>1. TypeOK'  BY <1>5 DEF Finish
  <2>2. Flow'
    <3>1. Flow /\ UNCHANGED <<buffer, acc, pipe, wrote>>  BY <1>5 DEF Finish
    <3> QED  BY <3>1 DEF Flow
  <2>3. ReadInv'
    <3>1. ReadInv /\ UNCHANGED <<seen, buffer, early, tool, offset, result>>  BY <1>5 DEF Finish
    <3>2. finished => finished'  BY <1>5 DEF Finish
    <3> QED  BY <3>1, <3>2 DEF ReadInv
  <2>4. DrainInv'  BY <1>5 DEF Finish, DrainInv, EOF
  <2> QED  BY <2>1, <2>2, <2>3, <2>4
<1> QED  BY <1>1, <1>2, <1>3, <1>4, <1>5 DEF Drain

\* The tools: a read moves the offset to the end of what it returns.
LEMMA ToolStepKeeps ==
  ASSUME TypeOK, JobsInv, Tool
  PROVE  TypeOK' /\ JobsInv'
<1> USE JobsAssumption DEF TypeOK, JobsInv, group, drain, Streams
<1>1. CASE ReadSnapshot
  <2>1. TypeOK' /\ Flow'  BY <1>1 DEF ReadSnapshot, Flow
  <2>2. DrainInv'  BY <1>1 DEF ReadSnapshot, DrainInv, EOF
  <2>3. ReadInv'  BY <1>1 DEF ReadSnapshot, ReadInv
  <2> QED  BY <2>1, <2>2, <2>3
<1>2. CASE ReadCompose
  <2> DEFINE start == Least(offset, seen["out"])
  <2> DEFINE end == Least(offset + MaxBytes, seen["out"])
  <2>1. Flow'  BY <1>2 DEF ReadCompose, Flow
  <2>2. DrainInv'  BY <1>2 DEF ReadCompose, DrainInv, EOF
  <2>3. /\ start = offset /\ end \in Nat /\ end <= seen["out"]
        /\ NextOffset(start, end) = end
    <3>1. /\ offset \in Nat /\ seen["out"] \in Nat /\ MaxBytes \in Nat
          /\ offset <= seen["out"]
      BY DEF ReadInv
    <3> HIDE DEF TypeOK, JobsInv
    <3> QED  BY <3>1 DEF Least, NextOffset
  <2>4. PICK first, second \in {early, finished} :
          IF offset >= seen["out"] + seen["err"] /\ ~first
            THEN result' = [NoResult EXCEPT !.from = offset, !.to = offset] /\ offset' = offset
            ELSE /\ result' = [from |-> start, to |-> end, err |-> second /\ seen["err"] > 0,
                               finished |-> finished, total |-> seen["out"]]
                 /\ offset' = NextOffset(start, end)
    BY <1>2 DEF ReadCompose
  <2>5. early => first  BY DEF ReadInv
  <2> HIDE DEF start, end
  <2>6. CASE offset >= seen["out"] + seen["err"] /\ ~first
    <3>1. result' = [NoResult EXCEPT !.from = offset, !.to = offset] /\ offset' = offset
      BY <2>4, <2>6
    <3>2. TypeOK'  BY <1>2, <3>1 DEF ReadCompose, NoResult
    <3>3. ReadInv'  BY <1>2, <2>5, <2>6, <3>1 DEF ReadCompose, ReadInv
    <3> QED  BY <2>1, <2>2, <3>2, <3>3
  <2>7. CASE ~(offset >= seen["out"] + seen["err"] /\ ~first)
    <3>1. /\ result' = [from |-> start, to |-> end, err |-> second /\ seen["err"] > 0,
                        finished |-> finished, total |-> seen["out"]]
          /\ offset' = end
      BY <2>3, <2>4, <2>7
    <3>2. TypeOK'  BY <1>2, <2>3, <3>1 DEF ReadCompose
    <3>3. ReadInv'  BY <1>2, <2>3, <3>1 DEF ReadCompose, ReadInv
    <3> QED  BY <2>1, <2>2, <3>2, <3>3
  <2> QED  BY <2>6, <2>7
<1>3. CASE KillTerm \/ KillWaited \/ KillHard
  <2>1. TypeOK' /\ Flow'  BY <1>3 DEF KillTerm, KillWaited, KillHard, Flow
  <2>2. DrainInv'
    <3>1. UNCHANGED <<dpc, acc, finished, pipe>>  BY <1>3 DEF KillTerm, KillWaited, KillHard
    <3>2. leader # "alive" => leader' # "alive"  BY <1>3 DEF KillTerm, KillWaited, KillHard
    <3>3. leader = "reaped" => leader' = "reaped"  BY <1>3 DEF KillTerm, KillWaited, KillHard
    <3>4. child = "none" => child' = "none"  BY <1>3 DEF KillTerm, KillWaited, KillHard
    <3> QED  BY <3>1, <3>2, <3>3, <3>4 DEF DrainInv, EOF
  <2>3. ReadInv'
    <3>1. /\ UNCHANGED <<seen, buffer, early, offset, result, finished>>
          /\ tool # "compose"
      BY <1>3 DEF KillTerm, KillWaited, KillHard
    <3>2. ReadInv  OBVIOUS
    <3> QED  BY <3>1, <3>2 DEF ReadInv
  <2> QED  BY <2>1, <2>2, <2>3
<1> QED  BY <1>1, <1>2, <1>3 DEF Tool

\* The types, and the inductive invariant of processes, pipes and threads.
THEOREM JobsInvariant == Spec => [](TypeOK /\ JobsInv)
<1>1. TypeOK /\ JobsInv /\ [Next]_vars => TypeOK' /\ JobsInv'
  <2>1. TypeOK /\ JobsInv /\ UNCHANGED vars => TypeOK' /\ JobsInv'
    <3> SUFFICES ASSUME TypeOK, JobsInv, UNCHANGED vars PROVE TypeOK' /\ JobsInv'
      OBVIOUS
    <3> USE DEF vars, group, drain, control
    <3>1. TypeOK'  BY DEF TypeOK
    <3>2. Flow' /\ ReadInv'  BY DEF JobsInv, Flow, ReadInv
    <3>3. DrainInv'  BY DEF JobsInv, DrainInv, EOF
    <3> QED  BY <3>1, <3>2, <3>3 DEF JobsInv
  <2> QED  BY <2>1, WriteStep, ExitStep, DrainStep, ToolStepKeeps DEF Next, Process
<1> QED  BY <1>1, JobsInit, PTL DEF Spec

\* Every variable of the background jobs keeps its type.
THEOREM JobsTypes == Spec => []TypeOK
  BY JobsInvariant, PTL

\* A finished job has ended, and everything it wrote is in the buffers.
THEOREM FinishedComplete == Spec => []FinishedIsComplete
<1>1. TypeOK /\ JobsInv => FinishedIsComplete
  <2> SUFFICES ASSUME TypeOK, JobsInv PROVE FinishedIsComplete
    OBVIOUS
  <2>1. ASSUME finished PROVE leader = "reaped" /\ child = "none" /\ buffer = wrote
    <3>1. leader = "reaped" /\ acc = Zero /\ EOF("out") /\ EOF("err")
      BY <2>1 DEF JobsInv, DrainInv
    <3>2. \A s \in Streams : buffer[s] = wrote[s]
      BY <3>1 DEF JobsInv, Flow, TypeOK, EOF, Zero, Streams
    <3>3. buffer = wrote  BY <3>2 DEF TypeOK
    <3> QED  BY <3>1, <3>3 DEF EOF
  <2> QED  BY <2>1 DEF FinishedIsComplete, JobsInv, Flow
<1> QED  BY <1>1, JobsInvariant, PTL

\* The last result of a job seen finished has given the whole of its output.
THEOREM FinalReadWhole == Spec => []FinalReadIsWhole
<1>1. JobsInv /\ FinishedIsComplete => FinalReadIsWhole
  BY DEF JobsInv, ReadInv, FinishedIsComplete, FinalReadIsWhole
<1> QED  BY <1>1, JobsInvariant, FinishedComplete, PTL
=============================================================================
