--------------------------- MODULE BackgroundJobs ---------------------------
(***************************************************************************)
(* BackgroundJobManager of tools/shell.py: one job, that is a process group*)
(* (the leader the shell runs in, and possibly a child that outlives it),  *)
(* the two pipes, the reader thread that drains them, and the controller   *)
(* thread that reads output and kills.                                     *)
(*                                                                         *)
(* Output is counted in units of half a read: a pipe holds PipeCap units,  *)
(* read(4096) returns Chunk units, or fewer at the end of the file only.   *)
(* A job's script says to which pipe each of its writes goes.              *)
(***************************************************************************)
EXTENDS Naturals, Sequences

CONSTANTS
  Scripts,      \* the writes a job may make, a set of sequences of Streams
  PipeCap,      \* capacity of a pipe
  Chunk,        \* units read(4096) waits for
  MaxBytes,     \* max_bytes of read_background_output
  Children,     \* what the leader may leave behind: subset of none, obeys, ignores
  MayKill,      \* the model may call kill_background_job
  MaxReads      \* bound: calls of read_background_output

Streams == {"out", "err"}

ASSUME JobsAssumption ==
  /\ Scripts \subseteq Seq(Streams)
  /\ PipeCap \in Nat \ {0} /\ Chunk \in Nat \ {0} /\ MaxBytes \in Nat \ {0}
  /\ Children \subseteq {"none", "obeys", "ignores"}
  /\ MayKill \in BOOLEAN /\ MaxReads \in Nat

VARIABLES
  todo,      \* what the leader has still to write
  leader,    \* alive, exited (not waited for), reaped
  child,     \* none, obeys, ignores: a live child that holds the pipes
  wrote,     \* units written to each pipe
  pipe,      \* units each pipe holds
  dpc,       \* the reader thread: out, err, store, poll, finish, done
  acc,       \* units of the read under way
  buffer,    \* job.stdout, job.stderr
  finished,  \* job.finished
  tool,      \* the controller thread: idle, compose, wait
  seen,      \* the buffers as read under the lock
  early,     \* job.finished when they were read
  offset,    \* next_offset of the latest result, passed as since_offset
  result,    \* the latest result of read_background_output
  killed,    \* kill() was called
  reads      \* calls of read_background_output so far

group   == <<todo, leader, child, wrote>>
drain   == <<dpc, acc, buffer, finished>>
control == <<tool, seen, early, offset, result, killed, reads>>
vars    == <<group, pipe, drain, control>>

NoResult == [from |-> 0, to |-> 0, err |-> FALSE, finished |-> FALSE, total |-> 0]

TypeOK ==
  /\ todo \in Seq(Streams)
  /\ leader \in {"alive", "exited", "reaped"}
  /\ child \in {"none", "obeys", "ignores"}
  /\ wrote \in [Streams -> Nat]
  /\ pipe \in [Streams -> 0..PipeCap]
  /\ dpc \in {"out", "err", "store", "poll", "finish", "done"}
  /\ acc \in [Streams -> 0..Chunk]
  /\ buffer \in [Streams -> Nat]
  /\ finished \in BOOLEAN
  /\ tool \in {"idle", "compose", "wait"}
  /\ seen \in [Streams -> Nat]
  /\ early \in BOOLEAN
  /\ offset \in Nat
  /\ result \in [from : Nat, to : Nat, err : BOOLEAN, finished : BOOLEAN, total : Nat]
  /\ killed \in BOOLEAN
  /\ reads \in 0..MaxReads

Zero == [s \in Streams |-> 0]

Init ==
  /\ todo \in Scripts
  /\ leader = "alive"
  /\ child \in Children
  /\ wrote = Zero /\ pipe = Zero
  /\ dpc = "out" /\ acc = Zero /\ buffer = Zero /\ finished = FALSE
  /\ tool = "idle" /\ seen = Zero /\ early = FALSE /\ offset = 0 /\ result = NoResult
  /\ killed = FALSE /\ reads = 0

-----------------------------------------------------------------------------
(* The processes of the job.                                               *)

\* A write to a full pipe waits.
Write ==
  /\ leader = "alive"
  /\ todo # <<>>
  /\ pipe[Head(todo)] < PipeCap
  /\ pipe' = [pipe EXCEPT ![Head(todo)] = @ + 1]
  /\ wrote' = [wrote EXCEPT ![Head(todo)] = @ + 1]
  /\ todo' = Tail(todo)
  /\ UNCHANGED <<leader, child, drain, control>>

LeaderExits ==
  /\ leader = "alive"
  /\ todo = <<>>
  /\ leader' = "exited"
  /\ UNCHANGED <<todo, child, wrote, pipe, drain, control>>

ChildExits ==
  /\ child # "none"
  /\ child' = "none"
  /\ UNCHANGED <<todo, leader, wrote, pipe, drain, control>>

\* Mutant: only the leader is looked at.
EOFOfLeader(s) == pipe[s] = 0 /\ leader # "alive"

\* End of file: nothing in the pipe, and nobody left who could write to it.
EOF(s) == pipe[s] = 0 /\ leader # "alive" /\ child = "none"

-----------------------------------------------------------------------------
(* _drain, on the reader thread.                                           *)

Reading(s) == dpc = s

\* Mutant: the read does not stop at its size.
FillOn(s) ==
  /\ Reading(s)
  /\ pipe[s] > 0
  /\ acc' = [acc EXCEPT ![s] = @ + 1]
  /\ pipe' = [pipe EXCEPT ![s] = @ - 1]
  /\ UNCHANGED <<group, dpc, buffer, finished, control>>

\* read(4096) takes what comes until it has enough.
Fill(s) ==
  /\ Reading(s)
  /\ acc[s] < Chunk
  /\ pipe[s] > 0
  /\ acc' = [acc EXCEPT ![s] = @ + 1]
  /\ pipe' = [pipe EXCEPT ![s] = @ - 1]
  /\ UNCHANGED <<group, dpc, buffer, finished, control>>

ReadReturns(s) ==
  /\ Reading(s)
  /\ acc[s] = Chunk \/ EOF(s)
  /\ dpc' = IF s = "out" THEN "err" ELSE "store"
  /\ UNCHANGED <<group, pipe, acc, buffer, finished, control>>

\* Mutant: the buffer holds the latest piece only.
StoreLatest ==
  /\ dpc = "store"
  /\ buffer' = acc
  /\ acc' = Zero
  /\ dpc' = IF acc = Zero THEN "poll" ELSE "out"
  /\ UNCHANGED <<group, pipe, finished, control>>

\* Mutant: the leader is looked at after every read, not at the end of file.
StoreThenPoll ==
  /\ dpc = "store"
  /\ buffer' = [s \in Streams |-> buffer[s] + acc[s]]
  /\ acc' = Zero
  /\ dpc' = "poll"
  /\ UNCHANGED <<group, pipe, finished, control>>

Store ==
  /\ dpc = "store"
  /\ buffer' = [s \in Streams |-> buffer[s] + acc[s]]
  /\ acc' = Zero
  /\ dpc' = IF acc = Zero THEN "poll" ELSE "out"
  /\ UNCHANGED <<group, pipe, finished, control>>

\* poll() reaps the leader; both pipes are at their end, so the two reads of
\* what remains find nothing.
Poll ==
  /\ dpc = "poll"
  /\ IF leader = "alive"
       THEN dpc' = "out" /\ UNCHANGED leader
       ELSE dpc' = "finish" /\ leader' = "reaped"
  /\ UNCHANGED <<todo, child, wrote, pipe, acc, buffer, finished, control>>

Finish ==
  /\ dpc = "finish"
  /\ finished' = TRUE
  /\ dpc' = "done"
  /\ UNCHANGED <<group, pipe, acc, buffer, control>>

-----------------------------------------------------------------------------
(* The tools, on the controller thread.                                    *)

\* read_background_output: the buffers are copied under the lock, job.finished
\* is read afterwards without it.
ReadSnapshot ==
  /\ tool = "idle"
  /\ reads < MaxReads
  /\ reads' = reads + 1
  /\ seen' = buffer
  /\ early' = finished
  /\ tool' = "compose"
  /\ UNCHANGED <<group, pipe, drain, offset, result, killed>>

Least(a, b) == IF a < b THEN a ELSE b

NextOffset(start, end) == offset + (end - start)

\* The lines that follow test job.finished for the early answer, for stderr
\* and for the result, in this order and at moments of their own.
ReadCompose ==
  /\ tool = "compose"
  /\ \E first, second \in {early, finished} :
       /\ first => second
       /\ IF offset >= seen["out"] + seen["err"] /\ ~first
            THEN /\ result' = [NoResult EXCEPT !.from = offset, !.to = offset]
                 /\ UNCHANGED offset
            ELSE LET start == Least(offset, seen["out"])
                     end   == Least(offset + MaxBytes, seen["out"]) IN
                 /\ result' = [from |-> start, to |-> end, err |-> second /\ seen["err"] > 0,
                               finished |-> finished, total |-> seen["out"]]
                 /\ offset' = NextOffset(start, end)
  /\ tool' = "idle"
  /\ UNCHANGED <<group, pipe, drain, seen, early, killed, reads>>

\* kill: SIGTERM to the group while its leader has not been waited for.
KillTerm ==
  /\ MayKill
  /\ tool = "idle"
  /\ ~finished
  /\ killed' = TRUE
  /\ tool' = "wait"
  /\ IF leader = "reaped"
       THEN UNCHANGED <<leader, child>>
       ELSE /\ child' = IF child = "obeys" THEN "none" ELSE child
            /\ leader' \in {leader, "exited"}     \* the leader may ignore it
  /\ UNCHANGED <<todo, wrote, pipe, drain, seen, early, offset, result, reads>>

\* proc.wait(timeout=2): reaps a leader that has ended.
KillWaited ==
  /\ tool = "wait"
  /\ leader # "alive"
  /\ leader' = "reaped"
  /\ tool' = "idle"
  /\ UNCHANGED <<todo, child, wrote, pipe, drain, seen, early, offset, result, killed, reads>>

\* Mutant: no SIGKILL follows.
KillHardNot ==
  /\ tool = "wait"
  /\ leader = "alive"
  /\ tool' = "idle"
  /\ UNCHANGED <<group, pipe, drain, seen, early, offset, result, killed, reads>>

\* The wait times out: SIGKILL to the group.
KillHard ==
  /\ tool = "wait"
  /\ leader = "alive"
  /\ leader' = "exited"
  /\ child' = "none"
  /\ tool' = "idle"
  /\ UNCHANGED <<todo, wrote, pipe, drain, seen, early, offset, result, killed, reads>>

-----------------------------------------------------------------------------
Process == Write \/ LeaderExits
Drain   == (\E s \in Streams : Fill(s) \/ ReadReturns(s)) \/ Store \/ Poll \/ Finish
Tool    == ReadSnapshot \/ ReadCompose \/ KillTerm \/ KillWaited \/ KillHard

Next == Process \/ ChildExits \/ Drain \/ Tool

Spec == Init /\ [][Next]_vars

\* The reader thread and the controller thread are scheduled.  Nothing is
\* assumed of the job: what it does next, and when it ends, is its own affair,
\* and a child that was left behind may stay for good.
FairSpec ==
  /\ Spec
  /\ WF_vars(Drain)
  /\ WF_vars(ReadCompose \/ KillWaited \/ KillHard)

\* A job that ends once it has written what it has to write.
EndingSpec == FairSpec /\ WF_vars(Process)

-----------------------------------------------------------------------------
(* Properties.                                                             *)

\* A job that is reported finished has ended, its exit code is known, and
\* every byte it ever wrote is in the buffers the tool reads from; on the way
\* from the process to the buffers no byte is lost or made up.
FinishedIsComplete ==
  /\ finished => leader = "reaped" /\ child = "none" /\ buffer = wrote
  /\ \A s \in Streams : buffer[s] + acc[s] + pipe[s] = wrote[s]

\* A job that was killed comes to its end, stuck on a full pipe or not and
\* whatever it does about SIGTERM, unless a child of it that ignores SIGTERM
\* keeps the pipes for good: kill() sends SIGKILL, to the group, only when the
\* leader outlives the wait (shell.py:209-213).
KilledJobFinishes == (killed ~> finished) \/ <>[](child = "ignores")

\* "a dedicated reader thread that drains stdout/stderr" (shell.py:137-138): a
\* job that would end by itself is not held up by the pipes.
JobFinishes == <>finished

\* Once a job has been seen finished, a result that says so and leaves nothing
\* of what it saw unread has given the whole of stdout, to its end and not
\* beyond, however the output grew and was cut before (test_shell_bg.py:61-68
\* polls until "finished" and then looks for the output of the whole job).
FinalReadIsWhole ==
  tool = "idle" /\ early /\ result.finished /\ result.to = result.total =>
    result.to = wrote["out"] /\ offset = wrote["out"]
=============================================================================
