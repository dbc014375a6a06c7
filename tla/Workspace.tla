------------------------------ MODULE Workspace ------------------------------
(***************************************************************************)
(* What one session does to the files of its workspace: the file tools     *)
(* (tools/fs.py) with the hooks the registry runs around them              *)
(* (tools/hooks.py, tools/registry.py), the git snapshots of               *)
(* state/snapshot.py, the revert tool (tools/git.py) and the loop          *)
(* controller's rollback.                                                  *)
(*                                                                         *)
(* A file has a version; 0 stands for a file that is not there, and a git  *)
(* tree or the index is a function of the same kind.  A tool call that is  *)
(* rejected, vetoed by a hook or fails changes nothing and is not modelled *)
(* as a step.                                                              *)
(***************************************************************************)
EXTENDS Naturals

CONSTANTS
  Files,          \* files of the workspace
  Ignored,        \* the files .gitignore names
  NumVersions,    \* bound: versions of a file
  NumGoals,       \* goals the session runs
  ToolSets        \* the optional tools a session may use, besides the file tools,
                  \* and "git_busy" where others use git in the workspace

ASSUME IgnoredAssumption == Ignored \subseteq Files
ASSUME ToolSetsAssumption ==
  ToolSets \subseteq SUBSET
    {"apply_patch", "run_shell", "run_tests", "revert_to_snapshot", "spawn_agent", "git_busy"}
ASSUME SizesAssumption == NumVersions \in Nat /\ NumGoals \in Nat

Absent   == 0
Versions == 1..NumVersions
Tree     == [Files -> {Absent} \cup Versions]
TagIds   == 0..NumGoals            \* 0 is the "initial" tag
NoBase  == NumVersions + 1

VARIABLES
  uses,     \* the optional tools the model calls in this session
  stage,    \* "opening", "ready" once the initial snapshot is taken
  content,  \* the files as they are on disk
  index,    \* the git index
  tags,     \* the tree of every tag that exists
  goal,     \* the goal at hand
  good,     \* the last goal that passed, 0 when none did
  read,     \* ctx.read_files, the normalised entries
  written,  \* ctx.written_files
  base,     \* the version a file had when the conversation last read of it, or
            \* wrote it; how much of the file a read has shown is not kept
  call      \* the tool the conversation called last

git  == <<index, tags>>
ctx  == <<read, written>>
vars == <<uses, stage, content, git, goal, good, ctx, base, call>>

Tools  == {"none", "read_file", "read_files", "write_file", "edit_file", "apply_patch",
           "run_shell", "run_tests", "revert_to_snapshot", "spawn_agent"}
NoCall == "none"
NoBases == [f \in Files |-> NoBase]

TypeOK ==
  /\ uses \in ToolSets
  /\ stage \in {"opening", "ready"}
  /\ content \in Tree
  /\ index \in Tree
  /\ DOMAIN tags \subseteq TagIds
  /\ \A t \in DOMAIN tags : tags[t] \in Tree
  /\ goal \in 1..(NumGoals + 1)
  /\ good \in 0..NumGoals
  /\ good < goal
  /\ read \subseteq Files
  /\ written \subseteq Files
  /\ base \in [Files -> 0..NoBase]
  /\ call \in Tools

-----------------------------------------------------------------------------
(* git.                                                                    *)

\* `git add -A': every change to a tracked file, and the untracked files
\* .gitignore does not name.
AddAll(tree) ==
  [f \in Files |-> IF f \in Ignored /\ index[f] = Absent THEN Absent ELSE tree[f]]

\* Mutant: only what .gitignore allows is staged.
AddOneUnforced(f, v) == IF f \in Ignored /\ index[f] = Absent THEN index ELSE [index EXCEPT ![f] = v]

\* IndexFile.add of GitPython: the one path, ignored or not.
AddOne(f, v) == [index EXCEPT ![f] = v]

\* SnapshotManager.snapshot: stage, commit when dirty, move the tag.
TakeSnapshot(t) ==
  /\ index' = AddAll(content)
  /\ tags' = [u \in DOMAIN tags \cup {t} |-> IF u = t THEN index' ELSE tags[u]]

\* Mutant: `git checkout TAG -- .', which removes nothing.
CheckoutTag(t) ==
  /\ content' = [f \in Files |-> IF tags[t][f] = Absent THEN content[f] ELSE tags[t][f]]
  /\ index' = [f \in Files |-> IF tags[t][f] = Absent THEN index[f] ELSE tags[t][f]]
  /\ UNCHANGED tags

\* `git reset --hard': the tag's files are restored, other tracked files
\* removed, and untracked files stay.
ResetHard(t) ==
  /\ content' = [f \in Files |->
       IF tags[t][f] = Absent /\ index[f] = Absent THEN content[f] ELSE tags[t][f]]
  /\ index' = tags[t]
  /\ UNCHANGED tags

-----------------------------------------------------------------------------
(* The session.                                                            *)

\* A user's workspace: a repository in which anything may be staged, as the
\* user left it or as _open_or_init has just made it (`git add -A').
Init ==
  /\ uses \in ToolSets
  /\ stage = "opening"
  /\ content \in Tree
  /\ index \in Tree
  /\ tags = <<>>
  /\ goal = 1
  /\ good = 0
  /\ read = {}
  /\ written = {}
  /\ base = NoBases
  /\ call = NoCall

Prepare ==
  /\ stage = "opening"
  /\ TakeSnapshot(0)
  /\ stage' = "ready"
  /\ UNCHANGED <<uses, content, goal, good, ctx, base, call>>

Working == stage = "ready" /\ goal <= NumGoals

\* Mutant: the goal is taken again.
NextGoalAgain ==
  /\ goal' = goal
  /\ read' = {}
  /\ written' = {}
  /\ base' = NoBases
  /\ call' = NoCall

\* _run_goal makes a new ToolContext and a new conversation.
NextGoal ==
  /\ goal' = goal + 1
  /\ read' = {}
  /\ written' = {}
  /\ base' = NoBases
  /\ call' = NoCall

PassGoal ==
  /\ Working
  /\ TakeSnapshot(goal)
  /\ good' = goal
  /\ NextGoal
  /\ UNCHANGED <<uses, stage, content>>

FailGoal ==
  /\ Working
  /\ NextGoal
  /\ UNCHANGED <<uses, stage, content, git, good>>

\* The controller's answer to repeated failures: reset, and both the
\* conversation and the tracking sets start afresh.
Rollback ==
  /\ Working
  /\ good # 0
  /\ ResetHard(good)
  /\ read' = {}
  /\ written' = {}
  /\ base' = NoBases
  /\ call' = NoCall
  /\ UNCHANGED <<uses, stage, goal, good>>

-----------------------------------------------------------------------------
(* The tool calls that succeed, with their pre- and post-hooks.            *)

Called(tool)  == call' = tool
BasedOn(f, v) == base' = [base EXCEPT ![f] = v]

\* Post-hook record_read.
RecordRead(f) == read' = read \cup {f}

\* Whatever it shows: the file, the lines offset and limit select, what of
\* them fits in max_bytes, or nothing when the offset is past the end.
ReadFile(f) ==
  /\ Working
  /\ content[f] # Absent
  /\ RecordRead(f)
  /\ BasedOn(f, content[f])
  /\ Called("read_file")
  /\ UNCHANGED <<uses, stage, content, git, goal, good, written>>

\* The first limit_per_file lines.  The path is added as the model spelt it; require_read_before_write
\* looks for the normalised one, and record_read finds no "path" to add.
ReadFiles(f, raw) ==
  /\ Working
  /\ content[f] # Absent
  /\ read' = IF raw THEN read ELSE read \cup {f}
  /\ BasedOn(f, content[f])
  /\ Called("read_files")
  /\ UNCHANGED <<uses, stage, content, git, goal, good, written>>

\* Mutant: the hook is not registered.
MayWriteUnread(f) == TRUE

\* A sub-agent reads with the ToolContext of its parent, whose conversation
\* gets to see nothing but the final answer.
SubAgentReads(f) ==
  /\ Working
  /\ "spawn_agent" \in uses
  /\ content[f] # Absent
  /\ RecordRead(f)
  /\ Called("spawn_agent")
  /\ UNCHANGED <<uses, stage, content, git, goal, good, written, base>>

\* Pre-hook: an existing file must have been read.
MayWrite(f) == content[f] = Absent \/ f \in read

\* The post-hook swallows what git raises: when a git command of a job, or of
\* the user, holds the lock of the index, nothing is staged.
StagingFails == "git_busy" \in uses /\ UNCHANGED index

\* The write itself, and post-hook record_write_and_git_add.
Store(f, v) ==
  /\ content' = [content EXCEPT ![f] = v]
  /\ index' = AddOne(f, v) \/ StagingFails
  /\ written' = written \cup {f}
  /\ UNCHANGED <<uses, stage, tags, goal, good, read>>

WriteFile(f, v) ==
  /\ Working
  /\ MayWrite(f)
  /\ Store(f, v)
  /\ BasedOn(f, v)
  /\ Called("write_file")

EditFile(f, v) ==
  /\ Working
  /\ MayWrite(f)
  /\ content[f] # Absent
  /\ Store(f, v)
  /\ BasedOn(f, v)
  /\ Called("edit_file")

\* The tools a sub-agent is offered are those it was allowed, the tools it may
\* call are all of them.
SubAgentWrites(f, v) ==
  /\ Working
  /\ "spawn_agent" \in uses
  /\ MayWrite(f)
  /\ Store(f, v)
  /\ Called("spawn_agent")
  /\ UNCHANGED base

\* A patch names no "path": no pre-hook asks for a read, and the post-hook
\* stages everything.
ApplyPatch(f, v) ==
  /\ Working
  /\ "apply_patch" \in uses
  /\ content' = [content EXCEPT ![f] = v]
  /\ index' = AddAll(content') \/ StagingFails
  /\ BasedOn(f, v)
  /\ Called("apply_patch")
  /\ UNCHANGED <<uses, stage, tags, goal, good, ctx>>

\* A process the goal starts writes or removes a file; it leaves the
\* repository alone.
Command(tool, f, v) ==
  /\ Working
  /\ tool \in uses
  /\ content' = [content EXCEPT ![f] = v]
  /\ Called(tool)
  /\ UNCHANGED <<uses, stage, git, goal, good, ctx, base>>

\* A shell command, of the tool or of an acceptance check.
Shell(f, v) == Command("run_shell", f, v)

\* The project's test runner, if the workspace has one.
RunTests(f, v) == Command("run_tests", f, v)

RevertToSnapshot(t) ==
  /\ Working
  /\ "revert_to_snapshot" \in uses
  /\ t \in DOMAIN tags
  /\ ResetHard(t)
  /\ Called("revert_to_snapshot")
  /\ UNCHANGED <<uses, stage, goal, good, ctx, base>>

Done == goal > NumGoals /\ UNCHANGED vars

Next ==
  \/ Prepare \/ PassGoal \/ FailGoal \/ Rollback \/ Done
  \/ \E f \in Files :
       \/ ReadFile(f) \/ SubAgentReads(f)
       \/ \E raw \in BOOLEAN : ReadFiles(f, raw)
       \/ \E v \in Versions : WriteFile(f, v) \/ EditFile(f, v) \/ SubAgentWrites(f, v)
       \/ \E v \in Versions \cup {Absent} : ApplyPatch(f, v) \/ Shell(f, v) \/ RunTests(f, v)
  \/ \E t \in TagIds : RevertToSnapshot(t)

Spec == Init /\ [][Next]_vars

-----------------------------------------------------------------------------
(* Properties.                                                             *)

Writes   == {"write_file", "edit_file"}
Unstaged == {"run_shell", "run_tests", "git_busy"}   \* what leaves files git does not know

\* As long as only the file tools and patches touch the workspace, write_file
\* and edit_file never replace a version of an existing file that has come
\* after the conversation last read of the file or wrote it, across edits,
\* rollbacks and goals: nobody's change is lost unread.  That much is left of
\* "This prevents accidental overwrites" (hooks.py:85), for a read opens the
\* guard even if it showed a part of the file, or nothing.
OverwriteIsCurrent ==
  [][uses \subseteq {"apply_patch", "git_busy"} =>
       \A f \in Files :
         content'[f] # content[f] /\ call' \in Writes =>
           content[f] \in {Absent, base[f]}]_vars

\* A rollback brings back the files of the goal that passed last: what failed
\* attempts broke or deleted is back, and what they added is gone
\* (test_e2e_6_rollback.py:6-9).  The one thing that may remain is a new file
\* git was never told of, and only where commands wrote it or the index was
\* locked when it was written.  Files git ignores are nobody's promise.
RollbackIsExact ==
  [][stage = "ready" /\ good # 0 /\ goal' = goal /\ call' = NoCall =>
       \A f \in Files \ Ignored :
         \/ content'[f] = tags[good][f]
         \/ /\ uses \cap Unstaged # {}
            /\ tags[good][f] = Absent /\ index[f] = Absent]_vars

\* The tag of a goal that passed holds every file the goal wrote through the
\* tools, as it was when the goal passed, even if it could not be staged when
\* it was written; and one that .gitignore names as well, as long as none of
\* the optional tools has interfered.
TagHoldsWrites ==
  [][good' # good =>
       \A f \in written :
         f \notin Ignored \/ uses = {} => tags'[good'][f] = content[f]]_vars
=============================================================================
