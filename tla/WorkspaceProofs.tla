--------------------------- MODULE WorkspaceProofs ---------------------------
(***************************************************************************)
(* Theorems about Workspace, for any files, versions, goals and tools: the *)
(* read check of write_file, the rollback and the tag of a passed goal.    *)
(***************************************************************************)
EXTENDS Workspace, TLAPS

\* The tag a rollback goes to exists, and a goal begins with nothing written.
TagsInv ==
  /\ stage = "ready" => {0, good} \subseteq DOMAIN tags
  /\ stage = "opening" => good = 0 /\ read = {} /\ written = {}

\* What is marked as read is as it was when it was last read or written, or gone.
ReadIsBase ==
  uses \subseteq {"apply_patch", "git_busy"} =>
    \A f \in read : content[f] \in {Absent, base[f]}

\* Without commands and busy locks, git knows of every file it may know of.
AllStaged ==
  stage = "ready" /\ uses \cap Unstaged = {} =>
    \A f \in Files \ Ignored : index[f] = Absent => content[f] = Absent

\* With the file tools alone, what was written is in the index.
WrittenStaged == uses = {} => \A f \in written : index[f] # Absent

WorkspaceInv == TagsInv /\ ReadIsBase /\ AllStaged /\ WrittenStaged

-----------------------------------------------------------------------------
(* The operators of git.                                                   *)

\* Staging everything takes each file as it is, but for ignored new ones.
LEMMA AddAllIs ==
  ASSUME NEW tree \in Tree, index \in Tree
  PROVE  /\ AddAll(tree) \in Tree
         /\ \A f \in Files \ Ignored : AddAll(tree)[f] = tree[f]
         /\ \A f \in Files : index[f] # Absent => AddAll(tree)[f] = tree[f]
  BY DEF AddAll, Tree

\* Staging one file takes that file, and leaves the others.
LEMMA AddOneIs ==
  ASSUME NEW f \in Files, NEW v \in Versions \cup {Absent}, index \in Tree
  PROVE  /\ AddOne(f, v) \in Tree
         /\ AddOne(f, v)[f] = v
         /\ \A g \in Files \ {f} : AddOne(f, v)[g] = index[g]
  BY DEF AddOne, Tree

\* A version is there, and is not the mark of a file never read.
LEMMA VersionIs == \A v \in Versions : v # Absent /\ v \in 0..NoBase
  BY SizesAssumption DEF Versions, Absent, NoBase

\* A snapshot adds its tag, which holds every file that is not ignored, and
\* every file the index held, as it is.
LEMMA SnapshotTakes ==
  ASSUME TypeOK, NEW t \in TagIds, TakeSnapshot(t)
  PROVE  /\ index' \in Tree
         /\ DOMAIN tags' = DOMAIN tags \cup {t}
         /\ \A u \in DOMAIN tags' : tags'[u] \in Tree
         /\ tags'[t] = index'
         /\ \A f \in Files \ Ignored : index'[f] = content[f]
         /\ \A f \in Files : index[f] # Absent => index'[f] = content[f]
<1>1. index' = AddAll(content)  BY DEF TakeSnapshot
<1>2. /\ AddAll(content) \in Tree
      /\ \A f \in Files \ Ignored : AddAll(content)[f] = content[f]
      /\ \A f \in Files : index[f] # Absent => AddAll(content)[f] = content[f]
  BY AddAllIs DEF TypeOK
<1>3. tags' = [u \in DOMAIN tags \cup {t} |-> IF u = t THEN index' ELSE tags[u]]
  BY DEF TakeSnapshot
<1> QED  BY <1>1, <1>2, <1>3 DEF TypeOK

\* A reset makes the index the tag and brings every file of the tag, or known
\* to git, to what it is in the tag.
LEMMA ResetRestores ==
  ASSUME TypeOK, NEW t \in DOMAIN tags, ResetHard(t)
  PROVE  /\ content' \in Tree /\ index' \in Tree /\ UNCHANGED tags
         /\ index' = tags[t]
         /\ \A f \in Files : content'[f] = tags[t][f]
                             \/ /\ tags[t][f] = Absent /\ index[f] = Absent
                                /\ content'[f] = content[f]
  BY DEF TypeOK, ResetHard, Tree

-----------------------------------------------------------------------------
(* The inductive invariant.                                                *)

\* Any workspace a user may leave behind.
LEMMA WorkspaceInit == Init => TypeOK /\ WorkspaceInv
<1> SUFFICES ASSUME Init PROVE TypeOK /\ WorkspaceInv
  OBVIOUS
<1> USE DEF Init
<1>1. /\ goal \in 1..(NumGoals + 1) /\ good \in 0..NumGoals /\ good < goal
      /\ base \in [Files -> 0..NoBase]
  BY SizesAssumption DEF NoBases, NoBase
<1>2. DOMAIN tags = {}  OBVIOUS
<1>3. TypeOK  BY <1>1, <1>2 DEF TypeOK, Tools, NoCall
<1>4. WorkspaceInv  BY DEF WorkspaceInv, TagsInv, ReadIsBase, AllStaged, WrittenStaged
<1> QED  BY <1>3, <1>4

\* The snapshot a session begins with.
LEMMA PrepareKeeps ==
  ASSUME TypeOK, WorkspaceInv, Prepare
  PROVE  TypeOK' /\ WorkspaceInv'
<1>1. /\ stage = "opening" /\ stage' = "ready" /\ TakeSnapshot(0)
      /\ UNCHANGED <<uses, content, goal, good, read, written, base, call>>
  BY DEF Prepare, ctx
<1>2. 0 \in TagIds  BY SizesAssumption DEF TagIds
<1>3. /\ index' \in Tree
      /\ DOMAIN tags' = DOMAIN tags \cup {0}
      /\ \A u \in DOMAIN tags' : tags'[u] \in Tree
      /\ \A f \in Files \ Ignored : index'[f] = content[f]
  BY <1>1, <1>2, SnapshotTakes
<1>4. TypeOK'  BY <1>1, <1>2, <1>3 DEF TypeOK
<1>5. TagsInv'  BY <1>1, <1>3 DEF WorkspaceInv, TagsInv
<1>6. ReadIsBase'  BY <1>1 DEF WorkspaceInv, ReadIsBase
<1>7. AllStaged'  BY <1>1, <1>3 DEF AllStaged
<1>8. WrittenStaged'  BY <1>1 DEF WorkspaceInv, TagsInv, WrittenStaged
<1> QED  BY <1>4, <1>5, <1>6, <1>7, <1>8 DEF WorkspaceInv

\* The end of a goal: the tag of one that passed joins those that exist.
LEMMA GoalEndKeeps ==
  ASSUME TypeOK, WorkspaceInv, PassGoal \/ FailGoal
  PROVE  TypeOK' /\ WorkspaceInv'
<1>1. /\ stage = "ready" /\ goal <= NumGoals /\ goal' = goal + 1
      /\ read' = {} /\ written' = {} /\ base' = NoBases /\ call' = NoCall
      /\ UNCHANGED <<uses, stage, content>>
  BY DEF PassGoal, FailGoal, Working, NextGoal
<1>2. /\ goal \in TagIds /\ goal' \in 1..(NumGoals + 1) /\ NoBases \in [Files -> 0..NoBase]
      /\ goal < goal'
  BY <1>1, SizesAssumption DEF TypeOK, TagIds, NoBases, NoBase
<1>3. CASE PassGoal
  <2>1. good' = goal /\ TakeSnapshot(goal)  BY <1>3 DEF PassGoal
  <2>2. /\ index' \in Tree
        /\ DOMAIN tags' = DOMAIN tags \cup {goal}
        /\ \A u \in DOMAIN tags' : tags'[u] \in Tree
        /\ \A f \in Files \ Ignored : index'[f] = content[f]
    BY <1>2, <2>1, SnapshotTakes
  <2>3. good' \in 0..NumGoals /\ good' < goal'
    BY <1>1, <1>2, <2>1, SizesAssumption DEF TypeOK
  <2>4. TypeOK'  BY <1>1, <1>2, <2>2, <2>3 DEF TypeOK, Tools, NoCall
  <2>5. TagsInv'  BY <1>1, <2>1, <2>2 DEF WorkspaceInv, TagsInv
  <2>6. AllStaged'  BY <1>1, <2>2 DEF AllStaged
  <2> QED  BY <1>1, <2>4, <2>5, <2>6 DEF WorkspaceInv, ReadIsBase, WrittenStaged
<1>4. CASE FailGoal
  <2>1. UNCHANGED <<index, tags, good>>  BY <1>4 DEF FailGoal, git
  <2>2. good' \in 0..NumGoals /\ good' < goal'
    BY <1>1, <1>2, <2>1, SizesAssumption DEF TypeOK
  <2>3. TypeOK'  BY <1>1, <1>2, <2>1, <2>2 DEF TypeOK, Tools, NoCall
  <2>4. TagsInv'  BY <1>1, <2>1 DEF WorkspaceInv, TagsInv
  <2>5. AllStaged'  BY <1>1, <2>1 DEF WorkspaceInv, AllStaged
  <2> QED  BY <1>1, <2>3, <2>4, <2>5 DEF WorkspaceInv, ReadIsBase, WrittenStaged
<1> QED  BY <1>3, <1>4

\* A reset leaves no file behind that git would know of and does not.
LEMMA ResetKeepsStaged ==
  ASSUME TypeOK, WorkspaceInv, Working, NEW t \in DOMAIN tags, ResetHard(t),
         UNCHANGED <<uses, stage>>
  PROVE  AllStaged'
<1>1. /\ index' = tags[t]
      /\ \A f \in Files : content'[f] = tags[t][f]
                          \/ /\ tags[t][f] = Absent /\ index[f] = Absent
                             /\ content'[f] = content[f]
  BY ResetRestores
<1>2. AllStaged  BY DEF WorkspaceInv
<1> QED  BY <1>1, <1>2 DEF AllStaged, Working

\* The controller's rollback, which clears the tracking sets.
LEMMA RollbackKeeps ==
  ASSUME TypeOK, WorkspaceInv, Rollback
  PROVE  TypeOK' /\ WorkspaceInv'
<1>1. /\ Working /\ ResetHard(good)
      /\ read' = {} /\ written' = {} /\ base' = NoBases /\ call' = NoCall
      /\ UNCHANGED <<uses, stage, goal, good>>
  BY DEF Rollback
<1>2. good \in DOMAIN tags  BY <1>1 DEF WorkspaceInv, TagsInv, Working
<1>3. content' \in Tree /\ index' \in Tree /\ UNCHANGED tags
  BY <1>1, <1>2, ResetRestores
<1>4. NoBases \in [Files -> 0..NoBase]  BY SizesAssumption DEF NoBases, NoBase
<1>5. TypeOK'  BY <1>1, <1>3, <1>4 DEF TypeOK, Tools, NoCall
<1>6. TagsInv'  BY <1>1, <1>3 DEF WorkspaceInv, TagsInv, Working
<1>7. AllStaged'  BY <1>1, <1>2, ResetKeepsStaged
<1> QED  BY <1>1, <1>5, <1>6, <1>7 DEF WorkspaceInv, ReadIsBase, WrittenStaged

\* The revert tool, which does not; it is not one of the tools the read check
\* is promised with.
LEMMA RevertKeeps ==
  ASSUME TypeOK, WorkspaceInv, NEW t \in TagIds, RevertToSnapshot(t)
  PROVE  TypeOK' /\ WorkspaceInv'
<1>1. /\ Working /\ "revert_to_snapshot" \in uses /\ t \in DOMAIN tags /\ ResetHard(t)
      /\ call' = "revert_to_snapshot"
      /\ UNCHANGED <<uses, stage, goal, good, read, written, base>>
  BY DEF RevertToSnapshot, Called, ctx
<1>2. content' \in Tree /\ index' \in Tree /\ UNCHANGED tags  BY <1>1, ResetRestores
<1>3. TypeOK'  BY <1>1, <1>2 DEF TypeOK, Tools
<1>4. TagsInv'  BY <1>1, <1>2 DEF WorkspaceInv, TagsInv
<1>5. AllStaged'  BY <1>1, ResetKeepsStaged
<1> QED  BY <1>1, <1>3, <1>4, <1>5 DEF WorkspaceInv, ReadIsBase, WrittenStaged

\* Reading marks the file as it is; the conversation does not learn of what a
\* sub-agent reads.
LEMMA ReadKeeps ==
  ASSUME TypeOK, WorkspaceInv, NEW f \in Files, NEW raw \in BOOLEAN,
         ReadFile(f) \/ ReadFiles(f, raw) \/ SubAgentReads(f)
  PROVE  TypeOK' /\ WorkspaceInv'
<1>1. /\ stage = "ready" /\ content[f] # Absent /\ read' \in {read, read \cup {f}}
      /\ \/ base' = [base EXCEPT ![f] = content[f]]
         \/ base' = base /\ "spawn_agent" \in uses
      /\ call' \in Tools
      /\ UNCHANGED <<uses, stage, content, index, tags, goal, good, written>>
  BY DEF ReadFile, ReadFiles, SubAgentReads, RecordRead, BasedOn, Called, Working, Tools, git
<1>2. content[f] \in 0..NoBase
  BY VersionIs, SizesAssumption DEF TypeOK, Tree, NoBase, Absent
<1>3. TypeOK'  BY <1>1, <1>2 DEF TypeOK
<1>4. TagsInv' /\ AllStaged' /\ WrittenStaged'
  BY <1>1 DEF WorkspaceInv, TagsInv, AllStaged, WrittenStaged
<1>5. ReadIsBase'
  <2> SUFFICES ASSUME uses \subseteq {"apply_patch", "git_busy"}, NEW g \in read'
               PROVE  content[g] \in {Absent, base'[g]}
    BY <1>1 DEF ReadIsBase
  <2>1. base' = [base EXCEPT ![f] = content[f]] /\ base \in [Files -> 0..NoBase]
    BY <1>1 DEF TypeOK
  <2>2. CASE g = f  BY <2>1, <2>2
  <2>3. CASE g # f
    <3>1. g \in read /\ g \in Files  BY <1>1, <2>3 DEF TypeOK
    <3> QED  BY <2>1, <2>3, <3>1 DEF WorkspaceInv, ReadIsBase
  <2> QED  BY <2>2, <2>3
<1> QED  BY <1>3, <1>4, <1>5 DEF WorkspaceInv

\* A write changes one file and stages it, unless the index is locked.
LEMMA StoreWrites ==
  ASSUME TypeOK, WorkspaceInv, stage = "ready", NEW f \in Files, NEW v \in Versions, Store(f, v)
  PROVE  /\ content' \in Tree /\ content'[f] = v /\ \A g \in Files \ {f} : content'[g] = content[g]
         /\ index' \in Tree /\ \A g \in Files \ {f} : index'[g] = index[g]
         /\ index'[f] = v \/ "git_busy" \in uses
         /\ written' = written \cup {f} /\ UNCHANGED <<uses, stage, tags, goal, good, read>>
         /\ TagsInv' /\ AllStaged' /\ WrittenStaged'
<1>1. /\ content' = [content EXCEPT ![f] = v]
      /\ index' = AddOne(f, v) \/ ("git_busy" \in uses /\ index' = index)
      /\ written' = written \cup {f} /\ UNCHANGED <<uses, stage, tags, goal, good, read>>
  BY DEF Store, StagingFails
<1>2. /\ AddOne(f, v) \in Tree /\ AddOne(f, v)[f] = v
      /\ \A g \in Files \ {f} : AddOne(f, v)[g] = index[g]
  BY AddOneIs DEF TypeOK
<1>3. content' \in Tree /\ content'[f] = v /\ \A g \in Files \ {f} : content'[g] = content[g]
  BY <1>1 DEF TypeOK, Tree
<1>4. /\ index' \in Tree /\ \A g \in Files \ {f} : index'[g] = index[g]
      /\ index'[f] = v \/ "git_busy" \in uses
  BY <1>1, <1>2 DEF TypeOK
<1>5. TagsInv'  BY <1>1 DEF WorkspaceInv, TagsInv
<1>6. AllStaged'
  BY <1>1, <1>3, <1>4, VersionIs DEF WorkspaceInv, AllStaged, Unstaged
<1>7. WrittenStaged'
  BY <1>1, <1>4, VersionIs DEF WorkspaceInv, WrittenStaged, TypeOK
<1> QED  BY <1>1, <1>3, <1>4, <1>5, <1>6, <1>7

\* What the model writes itself it has base; what a sub-agent writes it has not.
LEMMA WriteKeeps ==
  ASSUME TypeOK, WorkspaceInv, NEW f \in Files, NEW v \in Versions,
         WriteFile(f, v) \/ EditFile(f, v) \/ SubAgentWrites(f, v)
  PROVE  TypeOK' /\ WorkspaceInv'
<1>1. /\ stage = "ready" /\ Store(f, v)
      /\ \/ base' = [base EXCEPT ![f] = v]
         \/ base' = base /\ "spawn_agent" \in uses
      /\ call' \in Tools
  BY DEF WriteFile, EditFile, SubAgentWrites, BasedOn, Called, Working, Tools
<1>2. /\ content' \in Tree /\ content'[f] = v /\ \A g \in Files \ {f} : content'[g] = content[g]
      /\ index' \in Tree
      /\ written' = written \cup {f} /\ UNCHANGED <<uses, stage, tags, goal, good, read>>
      /\ TagsInv' /\ AllStaged' /\ WrittenStaged'
  BY <1>1, StoreWrites
<1>3. base' \in [Files -> 0..NoBase]  BY <1>1, VersionIs DEF TypeOK
<1>4. TypeOK'  BY <1>1, <1>2, <1>3 DEF TypeOK
<1>5. ReadIsBase'
  <2> SUFFICES ASSUME uses \subseteq {"apply_patch", "git_busy"}, NEW g \in read
               PROVE  content'[g] \in {Absent, base'[g]}
    BY <1>2 DEF ReadIsBase
  <2>1. base' = [base EXCEPT ![f] = v] /\ base \in [Files -> 0..NoBase]  BY <1>1 DEF TypeOK
  <2>2. CASE g = f  BY <1>2, <2>1, <2>2
  <2>3. CASE g # f  BY <1>2, <2>1, <2>3 DEF WorkspaceInv, ReadIsBase, TypeOK
  <2> QED  BY <2>2, <2>3
<1> QED  BY <1>2, <1>4, <1>5 DEF WorkspaceInv

\* A patch stages everything, and the model knows what it made of the file.
LEMMA PatchKeeps ==
  ASSUME TypeOK, WorkspaceInv, NEW f \in Files, NEW v \in Versions \cup {Absent}, ApplyPatch(f, v)
  PROVE  TypeOK' /\ WorkspaceInv'
<1>1. /\ stage = "ready" /\ "apply_patch" \in uses
      /\ content' = [content EXCEPT ![f] = v]
      /\ index' = AddAll(content') \/ ("git_busy" \in uses /\ index' = index)
      /\ base' = [base EXCEPT ![f] = v] /\ call' = "apply_patch"
      /\ UNCHANGED <<uses, stage, tags, goal, good, read, written>>
  BY DEF ApplyPatch, Working, StagingFails, BasedOn, Called, ctx
<1>2. v \in 0..NoBase  BY VersionIs, SizesAssumption DEF NoBase, Absent
<1>3. content' \in Tree /\ base' \in [Files -> 0..NoBase]
  BY <1>1, <1>2 DEF TypeOK, Tree
<1>4. /\ AddAll(content') \in Tree
      /\ \A g \in Files \ Ignored : AddAll(content')[g] = content'[g]
  BY <1>3, AddAllIs DEF TypeOK
<1>5. TypeOK'  BY <1>1, <1>3, <1>4 DEF TypeOK, Tools
<1>6. TagsInv' /\ WrittenStaged'  BY <1>1 DEF WorkspaceInv, TagsInv, WrittenStaged
<1>7. AllStaged'  BY <1>1, <1>4 DEF AllStaged, Unstaged
<1>8. ReadIsBase'
  <2> SUFFICES ASSUME uses \subseteq {"apply_patch", "git_busy"}, NEW g \in read
               PROVE  content'[g] \in {Absent, base'[g]}
    BY <1>1 DEF ReadIsBase
  <2>1. g \in Files /\ content[g] \in {Absent, base[g]}
    BY <1>1 DEF WorkspaceInv, ReadIsBase, TypeOK
  <2> QED  BY <1>1, <2>1 DEF TypeOK, Tree
<1> QED  BY <1>5, <1>6, <1>7, <1>8 DEF WorkspaceInv

\* Commands write as they like; nothing is promised of a session that runs them
\* but what a reset restores.
LEMMA CommandKeeps ==
  ASSUME TypeOK, WorkspaceInv, NEW f \in Files, NEW v \in Versions \cup {Absent},
         Shell(f, v) \/ RunTests(f, v)
  PROVE  TypeOK' /\ WorkspaceInv'
<1>1. /\ stage = "ready"
      /\ uses \cap {"run_shell", "run_tests"} # {}
      /\ content' = [content EXCEPT ![f] = v] /\ call' \in Tools
      /\ UNCHANGED <<uses, stage, index, tags, goal, good, read, written, base>>
  BY DEF Shell, RunTests, Command, Called, Working, Tools, git, ctx
<1>2. TypeOK'  BY <1>1 DEF TypeOK, Tree
<1>3. TagsInv' /\ WrittenStaged'  BY <1>1 DEF WorkspaceInv, TagsInv, WrittenStaged
<1>4. AllStaged' /\ ReadIsBase'  BY <1>1 DEF AllStaged, ReadIsBase, Unstaged
<1> QED  BY <1>2, <1>3, <1>4 DEF WorkspaceInv

\* Every step of the session keeps it.
LEMMA WorkspaceStep == TypeOK /\ WorkspaceInv /\ [Next]_vars => TypeOK' /\ WorkspaceInv'
<1> SUFFICES ASSUME TypeOK, WorkspaceInv, [Next]_vars PROVE TypeOK' /\ WorkspaceInv'
  OBVIOUS
<1>1. CASE UNCHANGED vars
  BY <1>1 DEF vars, git, ctx, TypeOK, WorkspaceInv, TagsInv, ReadIsBase, AllStaged, WrittenStaged
<1>2. CASE Done
  BY <1>1, <1>2 DEF Done
<1> QED
  BY <1>1, <1>2, PrepareKeeps, GoalEndKeeps, RollbackKeeps, ReadKeeps, WriteKeeps, PatchKeeps,
     CommandKeeps, RevertKeeps DEF Next

\* The types, and the inductive invariant of files, index, tags and tracking sets.
THEOREM WorkspaceInvariant == Spec => [](TypeOK /\ WorkspaceInv)
<1> QED  BY WorkspaceInit, WorkspaceStep, PTL DEF Spec

\* Every variable of the workspace keeps its type.
THEOREM WorkspaceTypes == Spec => []TypeOK
  BY WorkspaceInvariant, PTL

-----------------------------------------------------------------------------
(* The properties.                                                         *)

\* write_file and edit_file replace nothing that has changed since it was last
\* read or written, as long as only file tools and patches touch the workspace.
THEOREM OverwritesAreCurrent == Spec => OverwriteIsCurrent
<1> DEFINE Current == uses \subseteq {"apply_patch", "git_busy"} =>
                        \A f \in Files :
                          content'[f] # content[f] /\ call' \in Writes =>
                            content[f] \in {Absent, base[f]}
<1>1. TypeOK /\ WorkspaceInv /\ [Next]_vars => [Current]_vars
  <2> SUFFICES ASSUME TypeOK, WorkspaceInv, Next, uses \subseteq {"apply_patch", "git_busy"},
                      NEW f \in Files, content'[f] # content[f], call' \in Writes
               PROVE  content[f] \in {Absent, base[f]}
    OBVIOUS
  <2>1. PICK g \in Files, v \in Versions : WriteFile(g, v) \/ EditFile(g, v)
    <3>1. \A g \in Files, v \in Versions \cup {Absent} :
            ~ApplyPatch(g, v) /\ ~Shell(g, v) /\ ~RunTests(g, v)
      BY DEF ApplyPatch, Shell, RunTests, Command, Called, Writes
    <3>2. \A g \in Files : ~ReadFile(g) /\ ~SubAgentReads(g) /\ \A raw \in BOOLEAN : ~ReadFiles(g, raw)
      BY DEF ReadFile, SubAgentReads, ReadFiles, Called, Writes
    <3>3. \A g \in Files, v \in Versions : ~SubAgentWrites(g, v)
      BY DEF SubAgentWrites, Called, Writes
    <3>4. ~Prepare /\ ~PassGoal /\ ~FailGoal /\ ~Rollback /\ ~Done
      BY DEF Prepare, PassGoal, FailGoal, NextGoal, Rollback, Done, vars, NoCall, Writes
    <3>5. \A t \in TagIds : ~RevertToSnapshot(t)
      BY DEF RevertToSnapshot, Called, Writes
    <3> QED  BY <3>1, <3>2, <3>3, <3>4, <3>5 DEF Next
  <2>2. MayWrite(g) /\ content' = [content EXCEPT ![g] = v]
    BY <2>1 DEF WriteFile, EditFile, Store
  <2>3. f = g  BY <2>2 DEF TypeOK, Tree
  <2> QED  BY <2>2, <2>3 DEF MayWrite, WorkspaceInv, ReadIsBase
<1> QED  BY <1>1, WorkspaceInvariant, PTL DEF Spec, OverwriteIsCurrent

\* A rollback brings back the files of the goal that passed last, whatever the
\* goals after it did to them.
THEOREM RollbacksAreExact == Spec => RollbackIsExact
<1> DEFINE Exact == stage = "ready" /\ good # 0 /\ goal' = goal /\ call' = NoCall =>
                      \A f \in Files \ Ignored :
                        \/ content'[f] = tags[good][f]
                        \/ /\ uses \cap Unstaged # {}
                           /\ tags[good][f] = Absent /\ index[f] = Absent
<1>1. TypeOK /\ WorkspaceInv /\ [Next]_vars => [Exact]_vars
  <2> SUFFICES ASSUME TypeOK, WorkspaceInv, Next, ~UNCHANGED vars, stage = "ready",
                      goal' = goal, call' = NoCall,
                      NEW f \in Files \ Ignored
               PROVE  \/ content'[f] = tags[good][f]
                      \/ /\ uses \cap Unstaged # {}
                         /\ tags[good][f] = Absent /\ index[f] = Absent
    OBVIOUS
  <2>1. Rollback
    <3>1. \A g \in Files, v \in Versions \cup {Absent} :
            ~ApplyPatch(g, v) /\ ~Shell(g, v) /\ ~RunTests(g, v)
      BY DEF ApplyPatch, Shell, RunTests, Command, Called, NoCall
    <3>2. \A g \in Files : ~ReadFile(g) /\ ~SubAgentReads(g) /\ \A raw \in BOOLEAN : ~ReadFiles(g, raw)
      BY DEF ReadFile, SubAgentReads, ReadFiles, Called, NoCall
    <3>3. \A g \in Files, v \in Versions : ~WriteFile(g, v) /\ ~EditFile(g, v) /\ ~SubAgentWrites(g, v)
      BY DEF WriteFile, EditFile, SubAgentWrites, Called, NoCall
    <3>4. ~Prepare /\ ~Done  BY DEF Prepare, Done
    <3>5. ~PassGoal /\ ~FailGoal  BY DEF PassGoal, FailGoal, NextGoal, TypeOK
    <3>6. \A t \in TagIds : ~RevertToSnapshot(t)
      BY DEF RevertToSnapshot, Called, NoCall
    <3> QED  BY <3>1, <3>2, <3>3, <3>4, <3>5, <3>6 DEF Next
  <2>2. good \in DOMAIN tags /\ ResetHard(good)
    BY <2>1 DEF Rollback, WorkspaceInv, TagsInv
  <2>3. \/ content'[f] = tags[good][f]
        \/ /\ tags[good][f] = Absent /\ index[f] = Absent
           /\ content'[f] = content[f]
    BY <2>2, ResetRestores
  <2> QED  BY <2>3 DEF WorkspaceInv, AllStaged
<1> QED  BY <1>1, WorkspaceInvariant, PTL DEF Spec, RollbackIsExact

\* The tag of a passed goal holds what the goal wrote through the tools.
THEOREM TagsHoldWrites == Spec => TagHoldsWrites
<1> DEFINE Holds == good' # good =>
                      \A f \in written :
                        f \notin Ignored \/ uses = {} => tags'[good'][f] = content[f]
<1>1. TypeOK /\ WorkspaceInv /\ [Next]_vars => [Holds]_vars
  <2> SUFFICES ASSUME TypeOK, WorkspaceInv, Next, good' # good, NEW f \in written,
                      f \notin Ignored \/ uses = {}
               PROVE  tags'[good'][f] = content[f]
    OBVIOUS
  <2>1. PassGoal
    <3>1. \A g \in Files, v \in Versions \cup {Absent} :
            ~ApplyPatch(g, v) /\ ~Shell(g, v) /\ ~RunTests(g, v)
      BY DEF ApplyPatch, Shell, RunTests, Command
    <3>2. \A g \in Files : ~ReadFile(g) /\ ~SubAgentReads(g) /\ \A raw \in BOOLEAN : ~ReadFiles(g, raw)
      BY DEF ReadFile, SubAgentReads, ReadFiles
    <3>3. \A g \in Files, v \in Versions : ~WriteFile(g, v) /\ ~EditFile(g, v) /\ ~SubAgentWrites(g, v)
      BY DEF WriteFile, EditFile, SubAgentWrites, Store
    <3>4. ~Prepare /\ ~Done /\ ~FailGoal /\ ~Rollback
      BY DEF Prepare, Done, vars, FailGoal, Rollback
    <3>5. \A t \in TagIds : ~RevertToSnapshot(t)
      BY DEF RevertToSnapshot
    <3> QED  BY <3>1, <3>2, <3>3, <3>4, <3>5 DEF Next
  <2>2. Working /\ TakeSnapshot(goal) /\ good' = goal  BY <2>1 DEF PassGoal
  <2>3. goal \in TagIds  BY <2>2, SizesAssumption DEF TypeOK, TagIds, Working
  <2>4. /\ tags'[goal] = index'
        /\ \A g \in Files \ Ignored : index'[g] = content[g]
        /\ \A g \in Files : index[g] # Absent => index'[g] = content[g]
    BY <2>2, <2>3, SnapshotTakes
  <2>5. f \in Files /\ (uses = {} => index[f] # Absent)
    BY DEF TypeOK, WorkspaceInv, WrittenStaged
  <2> QED  BY <2>2, <2>4, <2>5
<1> QED  BY <1>1, WorkspaceInvariant, PTL DEF Spec, TagHoldsWrites
=============================================================================
