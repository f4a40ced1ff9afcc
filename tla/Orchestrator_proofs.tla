-------------------------- MODULE Orchestrator_proofs --------------------------
(***************************************************************************)
(* What holds of every run, for every plan, configuration and provider the *)
(* assumptions of Orchestrator allow.                                      *)
(***************************************************************************)
EXTENDS Orchestrator, TLAPS

USE DEF runVars, threadVars, boardVars, checkVars, plan, Parallel, Interactive

(* The folder operators return folders. *)
LEMMA NothingType == Nothing \in Folder
BY DEF Nothing, Folder, Absent

LEMMA PartType == ASSUME NEW fo \in Folder, NEW fs PROVE Part(fo, fs) \in Folder
BY DEF Part, Folder, Absent

LEMMA MergeType ==
  ASSUME NEW fo \in Folder, NEW new \in Folder PROVE Merge(fo, new) \in Folder
BY DEF Merge, Folder, Has, Absent

(* A torn write leaves one file cut, and it is still there.                *)
LEMMA TornFile ==
  ASSUME NEW fo \in Folder, NEW f \in File, NEW torn, Torn(fo, f, torn)
  PROVE  /\ torn \in Folder
         /\ \A g \in File : torn[g] = fo[g] \/ (g = f /\ torn[g] \in Cuts /\ Has(torn, g))
<1>1. \A text \in Cuts : text \in Nat /\ text # 0
  BY TextsAssumption
<1>2. CASE torn = fo
  BY <1>2
<1>3. ASSUME NEW text \in Cuts, torn = [fo EXCEPT ![f] = text]
      PROVE  /\ torn \in Folder
             /\ \A g \in File : torn[g] = fo[g] \/ (g = f /\ torn[g] \in Cuts /\ Has(torn, g))
  BY <1>1, <1>3 DEF Folder, Has, Absent
<1> QED
  BY <1>2, <1>3 DEF Torn

(* A series of writes that breaks off leaves files old, new or cut.        *)
LEMMA TornMerge ==
  ASSUME NEW old \in Folder, NEW new \in Folder, NEW fs, NEW f \in File, Has(new, f),
         NEW torn, Torn(Merge(old, Part(new, fs)), f, torn)
  PROVE  \A g \in File : torn[g] = old[g] \/ (Has(new, g) /\ torn[g] \in Cuts \cup {new[g]})
<1>1. Merge(old, Part(new, fs)) \in Folder
  BY PartType, MergeType
<1>2. \A g \in File : \/ torn[g] = Merge(old, Part(new, fs))[g]
                      \/ g = f /\ torn[g] \in Cuts
  BY <1>1, TornFile
<1>3. \A g \in File : \/ Merge(old, Part(new, fs))[g] = old[g]
                      \/ Has(new, g) /\ Merge(old, Part(new, fs))[g] = new[g]
  BY DEF Merge, Part, Has
<1> QED
  BY <1>2, <1>3

LEMMA NewOrChangedType ==
  ASSUME NEW fo \in Folder, NEW new \in Folder PROVE NewOrChanged(fo, new) \in Folder
BY DEF NewOrChanged, Folder, Absent

LEMMA OnlyChangesType ==
  ASSUME NEW fo \in Folder, NEW new \in Folder PROVE OnlyChanges(fo, new) \in Folder
BY PartType DEF OnlyChanges

LEMMA FailuresType ==
  ASSUME NEW b, NEW out, NEW hasApi, NEW mode
  PROVE  Failures(b, out, hasApi, mode) \subseteq Check
BY DEF Failures

(* What every request brings along. *)
LEMMA RequestType ==
  ASSUME request \in Request
  PROVE  plan \in Plan /\ bundle \in Folder /\ ChangeMode \in BOOLEAN
BY DEF Request, bundle, ChangeMode

LEMMA PlanIsValid == ASSUME request \in Requests PROVE ValidPlan(plan)
BY RequestsAssumption

(* Every task has a category. *)
LEMMA CatType == ASSUME request \in Request, NEW t \in Id PROVE Cat(t) \in Category
BY RequestType DEF Plan, Id, Cat, LoopCat, LoopTask, Category, PlanCategory

(* What a generator puts on the board and is due to write are folders. *)
LEMMA GeneratesType ==
  ASSUME TypeOK, NEW t \in Id, NEW part \in Folder, Generates(t, part)
  PROVE  board' \in Folder /\ due' \in [Id -> Folder] /\ pc' \in [Id -> PC]
BY MergeType, NewOrChangedType
DEF TypeOK, Generates, Publishes, Raises, Goto, PC, Running, Inside

LEMMA ProposesType ==
  ASSUME TypeOK, NEW t \in Id, Proposes(t)
  PROVE  board' \in Folder /\ due' \in [Id -> Folder] /\ pc' \in [Id -> PC]
<1>1. \A p \in Proposals : OnlyChanges(Repo, p) \in Folder
  BY OnlyChangesType, ProviderAssumption
<1> QED
  BY <1>1, MergeType DEF TypeOK, Proposes, Publishes, Raises, Goto, PC, Running, Inside
-----------------------------------------------------------------------------
(* Type correctness: every variable keeps its type. *)
THEOREM TypeCorrect == Spec => []TypeOK
<1>1. Init => TypeOK
  <2> SUFFICES ASSUME Init PROVE TypeOK
    OBVIOUS
  <2>1. request \in Request /\ request.faults \in [Category -> Nat] /\ request.writeErrors \in Nat
    BY RequestsAssumption DEF Init, Request
  <2>2. pc \in [Id -> PC] /\ tries \in [Id -> 0 .. MaxAttempts] /\ due \in [Id -> Folder]
    BY NothingType, ConfigAssumption DEF Init, PC
  <2>3. faults \in [Category -> Nat] /\ writeErrors \in Nat
    BY <2>1 DEF Init
  <2> QED
    BY <2>1, <2>2, <2>3, NothingType DEF Init, TypeOK
<1>2. TypeOK /\ [Next]_vars => TypeOK'
  <2> SUFFICES ASSUME TypeOK, [Next]_vars PROVE TypeOK'
    OBVIOUS
  <2> USE DEF TypeOK
  <2>1. CASE Bootstrap
    BY <2>1 DEF Bootstrap, End
  <2>2. CASE AskIfBlocked
    BY <2>2 DEF AskIfBlocked, End
  <2>3. CASE ApprovePlan
    BY <2>3, RequestType DEF ApprovePlan, End, Plan, Id
  <2>4. CASE EnterLevel
    BY <2>4, ConfigAssumption DEF EnterLevel, Ready, PC, Running
  <2>5. ASSUME NEW t \in Id, RunNext(t) PROVE TypeOK'
    BY <2>5, ConfigAssumption DEF RunNext, PC, Running
  <2>6. CASE HaltLevel
    BY <2>6 DEF HaltLevel, End
  <2>7. CASE FinishWalk
    BY <2>7 DEF FinishWalk
  <2>8. CASE BeginRepair
    BY <2>8 DEF BeginRepair, RepairRound, Id, PC
  <2>9. CASE SkipRepair
    BY <2>9 DEF SkipRepair
  <2>10. CASE Accept
    BY <2>10 DEF Accept, End
  <2>11. ASSUME NEW t \in Id, Thread(t) PROVE TypeOK'
    <3> USE DEF Goto, PC, Running, Inside, Final, Settled
    <3>0. Cat(t) \in Category
      BY CatType
    <3>1. CASE Attempt(t)
      BY <3>0, <3>1 DEF Attempt
    <3>2. CASE Enter(t)
      <4>1. Fixes \in Folder
        BY DEF Fixes, Folder, Synthesized, Absent
      <4> QED
        BY <3>2, <4>1, NothingType DEF Enter
    <3>3. CASE ActDesign(t)
      BY <3>3 DEF ActDesign
    <3>4. CASE ActImpact(t)
      BY <3>4, RequestType DEF ActImpact
    <3>5. CASE ActCode(t)
      <4>1. Part(bundle, CodeFiles) \in Folder
        BY PartType, RequestType
      <4>2. Generates(t, Part(bundle, CodeFiles)) =>
              board' \in Folder /\ due' \in [Id -> Folder] /\ pc' \in [Id -> PC]
        BY <4>1, GeneratesType
      <4>3. Proposes(t) =>
              board' \in Folder /\ due' \in [Id -> Folder] /\ pc' \in [Id -> PC]
        BY ProposesType
      <4> QED
        BY <3>5, <4>2, <4>3 DEF ActCode
    <3>6. CASE ActTests(t)
      <4>1. Part(bundle, TestFiles) \in Folder
        BY PartType, RequestType
      <4>2. Generates(t, Part(bundle, TestFiles)) =>
              board' \in Folder /\ due' \in [Id -> Folder] /\ pc' \in [Id -> PC]
        BY <4>1, GeneratesType
      <4> QED
        BY <3>6, <4>2 DEF ActTests
    <3>7. CASE ActDocs(t)
      <4>1. Part(bundle, DocFiles) \in Folder
        BY PartType, RequestType
      <4> QED
        BY <3>7, <4>1, MergeType, NewOrChangedType DEF ActDocs, Publishes, Raises
    <3>8. CASE Write(t)
      <4>1. due[t] \in Folder /\ \A fs : Part(due[t], fs) \in Folder
        BY PartType
      <4>2. disk' \in Folder
        <5>1. Merge(disk, due[t]) \in Folder /\ \A fs : Merge(disk, Part(due[t], fs)) \in Folder
          BY <4>1, MergeType
        <5> QED
          BY <3>8, <5>1, TornFile DEF Write
      <4> QED
        BY <3>8, <4>2, NothingType, RequestType DEF Write
    <3>9. CASE Examine(t)
      BY <3>9, FailuresType DEF Examine
    <3>10. CASE PublishReport(t)
      <4>1. report' \in (SUBSET Check) \cup {Unreported}
        BY <3>10 DEF PublishReport
      <4>2. validated' \subseteq Folder
        <5>1. validated' = {} \/ validated' = {board}
          BY <3>10 DEF PublishReport, Fingerprint
        <5> QED
          BY <5>1
      <4>3. pc' \in [Id -> PC]
        BY <3>10 DEF PublishReport
      <4>4. reports' \in Nat
        <5>1. reports' = reports + 1
          BY <3>10 DEF PublishReport
        <5>2. reports \in Nat
          OBVIOUS
        <5> QED
          BY <5>1, <5>2
      <4> QED
        BY <3>10, <4>1, <4>2, <4>3, <4>4 DEF PublishReport
    <3>11. CASE Fix(t)
      <4>1. due[t] \in Folder /\ \A fs : Part(due[t], fs) \in Folder
        BY PartType
      <4>2. \A f : [due[t] EXCEPT ![f] = Absent] \in Folder
        BY <4>1 DEF Folder, Absent
      <4>3. board' \in Folder /\ disk' \in Folder
        <5>1. \A f \in {"api", "readme"} : f \in File
          BY DEF File, CodeFiles, DocFiles
        <5>2. \A fs : Merge(board, Part(due[t], fs)) \in Folder /\ Merge(disk, Part(due[t], fs)) \in Folder
          BY <4>1, MergeType
        <5> QED
          BY <3>11, <5>1, <5>2, TornFile DEF Fix
      <4>4. due' \in [Id -> Folder] /\ writeErrors' \in Nat /\ pc' \in [Id -> PC]
        <5>1. due' \in [Id -> Folder]
          BY <3>11, <4>2, NothingType DEF Fix
        <5>2. writeErrors' \in Nat
          BY <3>11 DEF Fix
        <5>3. pc' \in [Id -> PC]
          BY <3>11 DEF Fix
        <5> QED
          BY <5>1, <5>2, <5>3
      <4> QED
        BY <3>11, <4>3, <4>4 DEF Fix
    <3>12. CASE FilterDocs(t)
      BY <3>12, PartType DEF FilterDocs, OtherDocs
    <3>13. CASE AssignDocs(t)
      <4>1. board' \in Folder
        BY <3>13 DEF AssignDocs, Folder
      <4> QED
        BY <3>13, <4>1, NothingType DEF AssignDocs
    <3>14. CASE MergeSummary(t)
      <4>1. SummaryText \in Folder
        BY DEF SummaryText, Folder, Absent
      <4> QED
        BY <3>14, <4>1, MergeType DEF MergeSummary, Publishes
    <3>15. CASE Handle(t)
      BY <3>15, ConfigAssumption DEF Handle, CanRetry
    <3> QED
      BY <2>11, <3>1, <3>2, <3>3, <3>4, <3>5, <3>6, <3>7, <3>8, <3>9, <3>10, <3>11,
         <3>12, <3>13, <3>14, <3>15 DEF Thread, Act
  <2>12. CASE Returned \/ UNCHANGED vars
    BY <2>12 DEF Returned, vars
  <2> QED
    BY <2>1, <2>2, <2>3, <2>4, <2>5, <2>6, <2>7, <2>8, <2>9, <2>10, <2>11, <2>12
    DEF Next, Main
<1> QED
  BY <1>1, <1>2, PTL DEF Spec
-----------------------------------------------------------------------------
(* Dependencies are tasks. *)
LEMMA DepType == ASSUME request \in Request, NEW t \in Id PROVE Dep(t) \subseteq Id
BY RequestType DEF Plan, Id, Dep, LoopDep, LoopTask

(***************************************************************************)
(* The walk of the task graph.                                             *)
(***************************************************************************)
Early == {"bootstrap", "clarify", "plan"}
Late  == {"repair", "mend", "accept"}

(* Who may run, which tasks are past, and what lies behind a level.        *)
WalkInv ==
  /\ request \in Requests
  /\ outcome # "none" => phase = "ended"
  /\ level \subseteq job
  /\ phase \in Early => job = {} /\ \A t \in Id : pc[t] = "todo"
  /\ phase \in Early \cup {"execute"} => \A t \in LoopTask : pc[t] = "todo"
  /\ phase = "execute" => job = plan.tasks
  /\ phase = "mend" => job = LoopTask
  /\ Walking => \A t \in job \ level : pc[t] \in Settled \cup {"todo"}
  /\ phase \in Late => \A t \in plan.tasks : pc[t] \in Settled
  /\ \A t \in Id : pc[t] \in Running => Walking /\ t \in level
  /\ \A t \in level : \A u \in Dep(t) : pc[u] \in Settled
  /\ DependenciesSettled
  /\ OneAtATime

(* The report behind the tasks that have settled.                          *)
ReportInv ==
  /\ \A t \in Id : pc[t] \in {"write", "assign", "merge"} => Cat(t) # "validate"
  /\ validated # {} => report # Unreported
  /\ \A t \in Id : Cat(t) = "validate" /\ pc[t] = "ok" => report # Unreported
  /\ \A t \in Id : pc[t] = "degraded" => Cat(t) \in Optional
  /\ AutoNeverAcceptsFailing

(* An agent's run lock, and the design task that holds it.                 *)
LockInv ==
  /\ \A t, u \in Id : t # u /\ Cat(t) = Cat(u) /\ pc[t] \in Inside => pc[u] \notin Inside
  /\ \A t \in Id : pc[t] = "act" /\ Cat(t) = "design" => design = 0

(* A thread's step moves that thread alone, from a running state to a      *)
(* running or a final one, and leaves the walk alone.                      *)
LEMMA ThreadStep ==
  ASSUME TypeOK, NEW t \in Id, Thread(t)
  PROVE  /\ UNCHANGED <<request, phase, outcome, job, level, round>>
         /\ pc[t] \in Running
         /\ pc'[t] \in Running \cup Final
         /\ \A u \in Id \ {t} : pc'[u] = pc[u]
<1> USE DEF TypeOK, Goto, Running, Inside, Final, Settled
<1>1. CASE Attempt(t)
  BY <1>1 DEF Attempt
<1>2. CASE Enter(t)
  BY <1>2 DEF Enter
<1>3. CASE ActDesign(t) \/ ActImpact(t)
  BY <1>3 DEF ActDesign, ActImpact, Acting
<1>4. CASE ActCode(t) \/ ActTests(t) \/ ActDocs(t)
  BY <1>4
  DEF ActCode, ActTests, ActDocs, Acting, Generates, Proposes, Publishes, Raises
<1>5. CASE Write(t)
  BY <1>5 DEF Write
<1>6. CASE Examine(t) \/ PublishReport(t)
  BY <1>6 DEF Examine, PublishReport, Acting
<1>7. CASE Fix(t)
  BY <1>7 DEF Fix, Acting
<1>8. CASE FilterDocs(t) \/ AssignDocs(t) \/ MergeSummary(t)
  BY <1>8 DEF FilterDocs, AssignDocs, MergeSummary, Acting, Publishes
<1>9. CASE Handle(t)
  BY <1>9 DEF Handle
<1> QED
  BY <1>1, <1>2, <1>3, <1>4, <1>5, <1>6, <1>7, <1>8, <1>9 DEF Thread, Act

(* A walk that has nothing left to start has settled all of an acyclic job. *)
LEMMA WalkComplete ==
  ASSUME WalkInv, phase = "execute", LevelSettled, Ready = {}
  PROVE  \A t \in plan.tasks : pc[t] \in Settled
<1> DEFINE Left == {t \in job : pc[t] = "todo"}
<1>1. /\ job = plan.tasks /\ plan.tasks \subseteq Task
      /\ \A t \in plan.tasks : plan.dep[t] \subseteq plan.tasks
      /\ Acyclic(plan.tasks, plan.dep)
  BY TasksAssumption, PlanIsValid DEF WalkInv, ValidPlan, Plan
<1>2. \A t \in plan.tasks : Dep(t) = plan.dep[t]
  BY <1>1, TasksAssumption, PlanIsValid DEF Dep
<1>3. ASSUME Left # {} PROVE FALSE
  <2>1. PICK t \in Left : plan.dep[t] \cap Left = {}
    BY <1>1, <1>3 DEF Acyclic
  <2>2. t \in Ready
    BY <1>1, <1>2, <2>1 DEF Ready
  <2> QED
    BY <2>2
<1>4. \A t \in job : pc[t] \in Settled
  BY <1>3 DEF WalkInv, Walking, LevelSettled
<1> QED
  BY <1>1, <1>4

THEOREM WalkHolds == Spec => []WalkInv
<1>1. Init => WalkInv
  <2> SUFFICES ASSUME Init PROVE WalkInv
    OBVIOUS
  <2>1. plan.tasks \subseteq Task
    BY TasksAssumption, PlanIsValid DEF Init, ValidPlan, Plan
  <2> QED
    BY <2>1 DEF Init, WalkInv, Walking, Running, Inside, Early, Late,
                DependenciesSettled, OneAtATime, Id
<1>2. TypeOK /\ WalkInv /\ [Next]_vars => WalkInv'
  <2> SUFFICES ASSUME TypeOK, WalkInv, [Next]_vars PROVE WalkInv'
    OBVIOUS
  <2>0. plan.tasks \subseteq Task /\ \A t \in plan.tasks : plan.dep[t] \subseteq Task
    BY TasksAssumption, PlanIsValid DEF WalkInv, ValidPlan, Plan
  <2>a. plan.tasks \cup LoopTask \subseteq Id /\ \A t \in Id : Dep(t) \subseteq Id
    BY <2>0, DepType DEF TypeOK, Id
  <2>b. Task \cap LoopTask = {}
    BY TasksAssumption
  <2> USE DEF TypeOK, WalkInv, Walking, Early, Late, Settled, Final, Inside, Running, PC
  <2>1. CASE Bootstrap
    BY <2>1 DEF Bootstrap, End, Dep, DependenciesSettled, OneAtATime
  <2>2. CASE AskIfBlocked
    BY <2>2 DEF AskIfBlocked, End, Dep, DependenciesSettled, OneAtATime
  <2>3. CASE ApprovePlan
    BY <2>0, <2>3 DEF ApprovePlan, End, Id, Dep, DependenciesSettled, OneAtATime
  <2>4. CASE EnterLevel
    <3>1. UNCHANGED <<request, phase, outcome, job>> /\ level' = Ready /\ Walking
      BY <2>4 DEF EnterLevel
    <3>2. \A t \in job : pc[t] \in Settled \cup {"todo"}
      BY <2>4 DEF EnterLevel, LevelSettled
    <3>3. \A t \in Id : pc'[t] = pc[t] \/ (t \in Ready /\ pc'[t] = "attempt" /\ Parallel)
      BY <2>4 DEF EnterLevel, Concurrent, Ready
    <3>4. /\ \A t \in job \ Ready : pc'[t] \in Settled \cup {"todo"}
          /\ \A t \in Id : pc[t] \in Settled => pc'[t] = pc[t]
      BY <3>2, <3>3 DEF Ready
    <3>5. \A t \in Ready : \A u \in Dep(t) : pc'[u] \in Settled
      BY <3>2, <3>4 DEF Ready
    <3>6. \A t \in Id : pc[t] \notin Running
      BY <3>2
    <3>7. DependenciesSettled'
      BY <2>a, <3>1, <3>3, <3>4, <3>5 DEF DependenciesSettled, Dep
    <3>8. OneAtATime'
      BY <3>1, <3>3, <3>6 DEF OneAtATime
    <3>9. \A t \in Id : pc'[t] \in Running => t \in Ready
      BY <3>3, <3>6
    <3>10. /\ phase = "execute" => \A t \in LoopTask : pc'[t] = "todo"
           /\ phase = "mend" => \A t \in plan.tasks : pc'[t] \in Settled
      BY <2>0, <2>a, <2>b, <3>3 DEF Ready
    <3>11. \A t \in level' : \A u \in Dep(t)' : pc'[u] \in Settled
      BY <3>1, <3>5 DEF Dep
    <3>12. level' \subseteq job'
      BY <3>1 DEF Ready
    <3> QED
      BY <3>1, <3>4, <3>7, <3>8, <3>9, <3>10, <3>11, <3>12
  <2>5. ASSUME NEW t \in Id, RunNext(t) PROVE WalkInv'
    <3>1. /\ UNCHANGED <<request, phase, outcome, job, level>> /\ Walking
          /\ t \in level /\ pc' = [pc EXCEPT ![t] = "attempt"] /\ pc[t] = "todo"
      BY <2>5 DEF RunNext
    <3>2. \A u \in Id : pc[u] \in Settled => pc'[u] = pc[u]
      BY <3>1
    <3>3. \A u \in Id : pc[u] \notin Running
      BY <2>5, <3>1 DEF RunNext
    <3>4. OneAtATime'
      BY <3>1, <3>3 DEF OneAtATime
    <3>5. DependenciesSettled'
      BY <2>a, <3>1, <3>2 DEF DependenciesSettled, Dep
    <3>6. \A v \in level : \A u \in Dep(v) : pc'[u] \in Settled
      BY <2>a, <3>1, <3>2
    <3>7. /\ phase = "execute" => \A u \in LoopTask : pc'[u] = "todo"
          /\ phase = "mend" => \A u \in plan.tasks : pc'[u] \in Settled
      BY <2>0, <2>a, <2>b, <3>1
    <3>8. \A v \in level' : \A u \in Dep(v)' : pc'[u] \in Settled
      BY <3>1, <3>6 DEF Dep
    <3>9. \A u \in job \ level : pc'[u] \in Settled \cup {"todo"}
      BY <3>1
    <3>10. \A u \in Id : pc'[u] \in Running => u \in level
      BY <3>1
    <3> QED
      BY <3>1, <3>4, <3>5, <3>7, <3>8, <3>9, <3>10
  <2>6. CASE HaltLevel
    BY <2>6 DEF HaltLevel, SiblingsDone, End, Dep, DependenciesSettled, OneAtATime
  <2>7. CASE FinishWalk
    BY <2>7, WalkComplete DEF FinishWalk, LevelSettled, Dep, DependenciesSettled, OneAtATime
  <2>8. CASE BeginRepair
    BY <2>0, <2>8, TasksAssumption, PlanIsValid
    DEF BeginRepair, RepairRound, Dep, LoopDep, LoopTask, DependenciesSettled, OneAtATime, Id
  <2>9. CASE SkipRepair
    BY <2>9 DEF SkipRepair, Dep, DependenciesSettled, OneAtATime
  <2>10. CASE Accept
    BY <2>10 DEF Accept, End, Dep, DependenciesSettled, OneAtATime
  <2>11. ASSUME NEW t \in Id, Thread(t) PROVE WalkInv'
    <3>1. /\ UNCHANGED <<request, phase, outcome, job, level>>
          /\ pc[t] \in Running /\ pc'[t] \in Running \cup Final
          /\ \A u \in Id \ {t} : pc'[u] = pc[u]
      BY <2>11, ThreadStep
    <3>2. t \in level /\ Walking
      BY <3>1
    <3>3. \A u \in Id : pc[u] \in Settled => pc'[u] = pc[u]
      BY <3>1
    <3>4. OneAtATime'
      BY <3>1 DEF OneAtATime
    <3>5. DependenciesSettled'
      BY <2>a, <3>1, <3>2, <3>3 DEF DependenciesSettled, Dep
    <3>6. \A v \in level : \A u \in Dep(v) : pc'[u] \in Settled
      BY <2>a, <3>1, <3>3
    <3>7. /\ phase = "execute" => \A u \in LoopTask : pc'[u] = "todo"
          /\ phase = "mend" => \A u \in plan.tasks : pc'[u] \in Settled
      BY <2>0, <2>a, <2>b, <3>1, <3>2
    <3>8. \A v \in level' : \A u \in Dep(v)' : pc'[u] \in Settled
      BY <3>1, <3>6 DEF Dep
    <3>9. \A u \in job \ level : pc'[u] \in Settled \cup {"todo"}
      BY <3>1, <3>2
    <3>10. \A u \in Id : pc'[u] \in Running => u \in level
      BY <3>1, <3>2
    <3> QED
      BY <3>1, <3>2, <3>4, <3>5, <3>7, <3>8, <3>9, <3>10
  <2>12. CASE Returned \/ UNCHANGED vars
    BY <2>12 DEF Returned, vars, Dep, DependenciesSettled, OneAtATime
  <2> QED
    BY <2>1, <2>2, <2>3, <2>4, <2>5, <2>6, <2>7, <2>8, <2>9, <2>10, <2>11, <2>12
    DEF Next, Main
<1> QED
  BY <1>1, <1>2, TypeCorrect, PTL DEF Spec

(* What a thread's step does to the report and to its own task.            *)
LEMMA ReportStep ==
  ASSUME TypeOK, ReportInv, NEW t \in Id, Thread(t)
  PROVE  /\ pc'[t] \in {"write", "assign", "merge"} => Cat(t) # "validate"
         /\ report' = report \/ report' # Unreported
         /\ validated' # {} => report' # Unreported
         /\ pc'[t] = "ok" /\ Cat(t) = "validate" => report' # Unreported
         /\ pc'[t] = "degraded" => Cat(t) \in Optional
<1> USE DEF TypeOK, ReportInv, Goto
<1>1. CASE Attempt(t)
  BY <1>1 DEF Attempt
<1>2. CASE Enter(t)
  BY <1>2 DEF Enter, Reuses
<1>3. CASE ActDesign(t) \/ ActImpact(t)
  BY <1>3 DEF ActDesign, ActImpact, Acting
<1>4. CASE ActCode(t) \/ ActTests(t) \/ ActDocs(t)
  BY <1>4
  DEF ActCode, ActTests, ActDocs, Acting, Generates, Proposes, Publishes, Raises
<1>5. CASE Write(t)
  BY <1>5 DEF Write
<1>6. CASE Examine(t)
  BY <1>6 DEF Examine, Acting
<1>7. CASE PublishReport(t)
  <2>1. found # Unreported
    BY DEF Check, Unreported
  <2> QED
    BY <1>7, <2>1 DEF PublishReport
<1>8. CASE Fix(t)
  BY <1>8 DEF Fix, Acting
<1>9. CASE FilterDocs(t) \/ AssignDocs(t) \/ MergeSummary(t)
  BY <1>9 DEF FilterDocs, AssignDocs, MergeSummary, Acting, Publishes
<1>10. CASE Handle(t)
  BY <1>10 DEF Handle
<1> QED
  BY <1>1, <1>2, <1>3, <1>4, <1>5, <1>6, <1>7, <1>8, <1>9, <1>10 DEF Thread, Act

(* The gate is reached with a report: the plan's validate task has settled, *)
(* and a task that is not optional settles only by succeeding.             *)
LEMMA ReportAtTheGate ==
  ASSUME WalkInv, ReportInv, phase = "accept"
  PROVE  report # Unreported
<1>1. PICK v \in plan.tasks : plan.cat[v] = "validate"
  BY TasksAssumption, PlanIsValid DEF WalkInv, ValidPlan
<1>2. v \in Id /\ Cat(v) = "validate"
  BY <1>1, TasksAssumption, PlanIsValid DEF WalkInv, ValidPlan, Plan, Id, Cat
<1>3. pc[v] \in Settled
  BY DEF WalkInv, Late
<1> QED
  BY <1>2, <1>3 DEF ReportInv, Settled, Optional

LEMMA ReportHolds == Spec => []ReportInv
<1>1. Init => ReportInv
  BY DEF Init, ReportInv, AutoNeverAcceptsFailing
<1>2. TypeOK /\ WalkInv /\ ReportInv /\ [Next]_vars => ReportInv'
  <2> SUFFICES ASSUME TypeOK, WalkInv, ReportInv, [Next]_vars PROVE ReportInv'
    OBVIOUS
  <2>1. ASSUME NEW t \in Id, Thread(t) PROVE ReportInv'
    <3>1. /\ UNCHANGED <<request, outcome>> /\ outcome # "accepted"
          /\ \A u \in Id \ {t} : pc'[u] = pc[u]
      BY <2>1, ThreadStep DEF WalkInv, Walking
    <3> QED
      BY <2>1, <3>1, ReportStep DEF ReportInv, Cat, AutoNeverAcceptsFailing
  <2>2. CASE Accept
    BY <2>2, ReportAtTheGate
    DEF Accept, MustRefuse, End, ReportInv, Cat, AutoNeverAcceptsFailing
  <2>3. CASE Bootstrap \/ AskIfBlocked \/ ApprovePlan
    BY <2>3 DEF Bootstrap, AskIfBlocked, ApprovePlan, End, ReportInv, Cat,
                AutoNeverAcceptsFailing
  <2>4. CASE EnterLevel \/ (\E t \in Id : RunNext(t))
    BY <2>4 DEF EnterLevel, RunNext, TypeOK, ReportInv, Cat, AutoNeverAcceptsFailing
  <2>5. CASE HaltLevel \/ FinishWalk \/ SkipRepair
    BY <2>5 DEF HaltLevel, FinishWalk, SkipRepair, End, ReportInv, Cat,
                AutoNeverAcceptsFailing
  <2>6. CASE BeginRepair
    BY <2>6 DEF BeginRepair, ReportInv, Cat, AutoNeverAcceptsFailing
  <2>7. CASE Returned \/ UNCHANGED vars
    BY <2>7 DEF Returned, vars, ReportInv, Cat, AutoNeverAcceptsFailing
  <2> QED
    BY <2>1, <2>2, <2>3, <2>4, <2>5, <2>6, <2>7 DEF Next, Main
<1> QED
  BY <1>1, <1>2, TypeCorrect, WalkHolds, PTL DEF Spec

(* A thread comes to hold its agent's lock only when it is free, and a     *)
(* design task only without a design.                                      *)
LEMMA LockStep ==
  ASSUME TypeOK, NEW t \in Id, Thread(t)
  PROVE  /\ pc'[t] \in Inside => pc[t] \in Inside \/ LockFree(t)
         /\ pc'[t] = "act" /\ Cat(t) = "design" => design' = 0
         /\ design' = design \/ (pc[t] = "act" /\ Cat(t) = "design")
<1> USE DEF TypeOK, Goto, Inside
<1>1. CASE Attempt(t)
  BY <1>1 DEF Attempt
<1>2. CASE Enter(t)
  BY <1>2 DEF Enter, Reuses
<1>3. CASE ActDesign(t) \/ ActImpact(t)
  BY <1>3 DEF ActDesign, ActImpact, Acting
<1>4. CASE ActCode(t) \/ ActTests(t) \/ ActDocs(t)
  BY <1>4
  DEF ActCode, ActTests, ActDocs, Acting, Generates, Proposes, Publishes, Raises
<1>5. CASE Write(t)
  BY <1>5 DEF Write
<1>6. CASE Examine(t) \/ PublishReport(t)
  BY <1>6 DEF Examine, PublishReport, Acting
<1>7. CASE Fix(t)
  BY <1>7 DEF Fix, Acting
<1>8. CASE FilterDocs(t) \/ AssignDocs(t) \/ MergeSummary(t)
  BY <1>8 DEF FilterDocs, AssignDocs, MergeSummary, Acting, Publishes
<1>9. CASE Handle(t)
  BY <1>9 DEF Handle
<1> QED
  BY <1>1, <1>2, <1>3, <1>4, <1>5, <1>6, <1>7, <1>8, <1>9 DEF Thread, Act

LEMMA LockHolds == Spec => []LockInv
<1>1. Init => LockInv
  BY DEF Init, LockInv, Inside
<1>2. TypeOK /\ LockInv /\ [Next]_vars => LockInv'
  <2> SUFFICES ASSUME TypeOK, LockInv, [Next]_vars PROVE LockInv'
    OBVIOUS
  <2>1. ASSUME NEW t \in Id, Thread(t) PROVE LockInv'
    <3>1. UNCHANGED request /\ \A u \in Id \ {t} : pc'[u] = pc[u]
      BY <2>1, ThreadStep
    <3>2. \A u \in Id : Cat(u)' = Cat(u)
      BY <3>1 DEF Cat
    <3>3. \A u, v \in Id : u # v /\ Cat(u) = Cat(v) /\ pc'[u] \in Inside => pc'[v] \notin Inside
      BY <2>1, <3>1, LockStep DEF LockInv, LockFree
    <3>4. \A u \in Id : pc'[u] = "act" /\ Cat(u) = "design" => design' = 0
      BY <2>1, <3>1, LockStep DEF LockInv, Inside
    <3> QED
      BY <3>2, <3>3, <3>4 DEF LockInv
  <2>2. CASE Main
    <3>1. /\ UNCHANGED <<request, design>>
          /\ \A u \in Id : pc'[u] = pc[u] \/ pc'[u] \notin Inside
      BY <2>2 DEF Main, Bootstrap, AskIfBlocked, ApprovePlan, EnterLevel, RunNext, HaltLevel,
                  FinishWalk, BeginRepair, SkipRepair, Accept, TypeOK, Inside
    <3> QED
      BY <3>1 DEF LockInv, Cat, Inside
  <2>3. CASE Returned \/ UNCHANGED vars
    BY <2>3 DEF Returned, vars, LockInv, Cat
  <2> QED
    BY <2>1, <2>2, <2>3 DEF Next
<1> QED
  BY <1>1, <1>2, TypeCorrect, PTL DEF Spec
-----------------------------------------------------------------------------
(* Level N+1 starts after level N: no task starts before all it depends on *)
(* has settled, in the plan's walk and in every repair round.              *)
THEOREM DependenciesAlwaysSettled == Spec => []DependenciesSettled
<1>1. WalkInv => DependenciesSettled
  BY DEF WalkInv
<1> QED
  BY <1>1, WalkHolds, PTL

(* Nobody works on the blackboard while a gate, the repair loop's test or  *)
(* the assembly of the result reads it.                                    *)
THEOREM AlwaysQuietOutsideLevels == Spec => []QuietOutsideLevels
<1>1. WalkInv => QuietOutsideLevels
  BY DEF WalkInv, QuietOutsideLevels
<1> QED
  BY <1>1, WalkHolds, PTL

(* A sequential run executes one task at a time.                           *)
THEOREM SequentialIsOneAtATime == Spec => []OneAtATime
<1>1. WalkInv => OneAtATime
  BY DEF WalkInv
<1> QED
  BY <1>1, WalkHolds, PTL

(* No plan, provider, fault or failing write lets an autonomous run be     *)
(* accepted without a report that passes.                                  *)
THEOREM FailingIsNeverAccepted == Spec => []AutoNeverAcceptsFailing
<1>1. ReportInv => AutoNeverAcceptsFailing
  BY DEF ReportInv
<1> QED
  BY <1>1, ReportHolds, PTL

(* The architect's run lock makes the first design final, whatever design  *)
(* tasks a plan has and however their threads are scheduled.               *)
THEOREM DesignIsCommittedOnce == Spec => DesignCommittedOnce
<1>1. TypeOK /\ LockInv /\ [Next]_vars => [design # 0 => design' = design]_vars
  <2> SUFFICES ASSUME TypeOK, LockInv, [Next]_vars, design # 0 PROVE design' = design
    OBVIOUS
  <2>1. ASSUME NEW t \in Id, Thread(t) PROVE design' = design
    BY <2>1, LockStep DEF LockInv
  <2>2. CASE Main
    BY <2>2 DEF Main, Bootstrap, AskIfBlocked, ApprovePlan, EnterLevel, RunNext, HaltLevel,
                FinishWalk, BeginRepair, SkipRepair, Accept
  <2>3. CASE Returned \/ UNCHANGED vars
    BY <2>3 DEF Returned, vars
  <2> QED
    BY <2>1, <2>2, <2>3 DEF Next
<1> QED
  BY <1>1, TypeCorrect, LockHolds, PTL DEF Spec, DesignCommittedOnce
-----------------------------------------------------------------------------
(***************************************************************************)
(* Plans that do their work in order.                                      *)
(***************************************************************************)
Aside == {"validate", "summary"}

(* Design, code, tests, docs and analysis never run beside validation.     *)
Ordered(p) ==
  \A v, u \in p.tasks : p.cat[v] = "validate" /\ p.cat[u] \notin Aside =>
    u \in Ancestors(p.tasks, p.dep, v) \/ v \in Ancestors(p.tasks, p.dep, u)

(* Validation follows all of them, and the summaries follow everything.    *)
Sequenced(p) ==
  /\ \A v, u \in p.tasks : p.cat[v] = "validate" /\ p.cat[u] \notin Aside =>
       u \in Ancestors(p.tasks, p.dep, v)
  /\ \A s, u \in p.tasks : p.cat[s] = "summary" /\ p.cat[u] # "summary" =>
       u \in Ancestors(p.tasks, p.dep, s)
  /\ \E c \in p.tasks : p.cat[c] = "code"
  /\ \E s \in p.tasks : p.cat[s] = "summary"

(* Everything behind a task that has started is settled.                   *)
LEMMA AncestorsSettled ==
  ASSUME WalkInv, NEW t \in plan.tasks, pc[t] # "todo"
  PROVE  \A u \in Ancestors(plan.tasks, plan.dep, t) : pc[u] \in Settled
<1> DEFINE Past == {u \in plan.tasks : pc[u] \in Settled}
<1>1. plan.tasks \cap LoopTask = {}
  BY TasksAssumption, PlanIsValid DEF WalkInv, ValidPlan, Plan
<1>2. \A u \in plan.tasks : pc[u] # "todo" => plan.dep[u] \cap plan.tasks \subseteq Past
  BY <1>1 DEF WalkInv, DependenciesSettled, Dep
<1>3. \A u \in Past : plan.dep[u] \cap plan.tasks \subseteq Past
  BY <1>2 DEF Settled
<1>4. Past \in {S \in SUBSET plan.tasks : /\ plan.dep[t] \cap plan.tasks \subseteq S
                                          /\ \A u \in S : plan.dep[u] \cap plan.tasks \subseteq S}
  BY <1>2, <1>3
<1> QED
  BY <1>4 DEF Ancestors

(* A running task is one of the plan's or, with the plan all done, one of a *)
(* repair round's.                                                         *)
LEMMA Runners ==
  ASSUME WalkInv, NEW t \in Id, pc[t] \in Running
  PROVE  \/ phase = "execute" /\ t \in plan.tasks /\ t \notin LoopTask /\ Cat(t) = plan.cat[t]
         \/ /\ phase = "mend" /\ t \in LoopTask /\ Cat(t) = LoopCat[t]
            /\ \A u \in plan.tasks : pc[u] \in Settled
<1>1. plan.tasks \cap LoopTask = {}
  BY TasksAssumption, PlanIsValid DEF WalkInv, ValidPlan, Plan
<1> QED
  BY <1>1 DEF WalkInv, Walking, Late, Cat

(* The steps of a repair round follow one another.                         *)
LEMMA RoundOrder ==
  ASSUME WalkInv
  PROVE  /\ pc["revalidate"] # "todo" => pc["repair"] \in Settled
         /\ pc["resummary"] # "todo" => pc["revalidate"] \in Settled /\ pc["repair"] \in Settled
BY DEF WalkInv, DependenciesSettled, Dep, LoopDep, LoopTask, Settled

(* What has settled, and who else may run, while a task of each of the     *)
(* later stages does.                                                      *)
LEMMA Validating ==
  ASSUME WalkInv, Sequenced(plan), NEW t \in Id, pc[t] \in Running, Cat(t) = "validate"
  PROVE  /\ \A u \in plan.tasks : Cat(u) \notin Aside => pc[u] \in Settled
         /\ \A s \in plan.tasks : Cat(s) = "summary" /\ phase = "execute" => pc[s] = "todo"
         /\ phase = "mend" => t = "revalidate" /\ pc["resummary"] = "todo"
         /\ \A u \in Id : pc[u] \in Running => Cat(u) = "validate"
<1>0. /\ plan.tasks \subseteq Id /\ \A u \in plan.tasks : Cat(u) = plan.cat[u]
      /\ {"repair", "revalidate", "resummary"} = LoopTask /\ LoopTask \subseteq Id
  BY TasksAssumption, PlanIsValid DEF WalkInv, ValidPlan, Plan, Id, Cat, LoopTask
<1> USE DEF Aside
<1>1. Settled \cap Running = {} /\ "todo" \notin Running \cup Settled
  BY DEF Settled, Running, Inside
<1>2. CASE phase = "execute"
  <2>1. t \in plan.tasks /\ plan.cat[t] = "validate"
    BY <1>2, Runners
  <2>2. \A u \in plan.tasks : plan.cat[u] \notin Aside => pc[u] \in Settled
    BY <2>1, <1>1, AncestorsSettled DEF Sequenced
  <2>3. \A s \in plan.tasks : plan.cat[s] = "summary" => pc[s] = "todo"
    BY <2>1, <1>1, AncestorsSettled DEF Sequenced
  <2>4. ASSUME NEW u \in Id, pc[u] \in Running PROVE Cat(u) = "validate"
    BY <1>0, <1>1, <1>2, <2>2, <2>3, <2>4, Runners
  <2> QED
    BY <1>0, <1>2, <2>2, <2>3, <2>4
<1>3. CASE phase = "mend"
  <2>1. t = "revalidate" /\ \A u \in plan.tasks : pc[u] \in Settled
    BY <1>3, Runners DEF LoopTask, LoopCat
  <2>2. pc["repair"] \in Settled /\ pc["resummary"] = "todo"
    BY <1>1, <2>1, RoundOrder
  <2>3. ASSUME NEW u \in Id, pc[u] \in Running PROVE Cat(u) = "validate"
    BY <1>0, <1>1, <1>3, <2>1, <2>2, <2>3, Runners
  <2> QED
    BY <1>3, <2>1, <2>2, <2>3
<1> QED
  BY <1>2, <1>3, Runners

(* While a summary is written everything but summaries is settled.         *)
LEMMA Summarising ==
  ASSUME WalkInv, Sequenced(plan), NEW t \in Id, pc[t] \in Running, Cat(t) = "summary"
  PROVE  /\ \A u \in plan.tasks : Cat(u) # "summary" => pc[u] \in Settled
         /\ phase = "mend" => t = "resummary" /\ pc["repair"] \in Settled /\ pc["revalidate"] \in Settled
         /\ \A u \in Id : pc[u] \in Running => Cat(u) = "summary"
<1>0. /\ plan.tasks \subseteq Id /\ \A u \in plan.tasks : Cat(u) = plan.cat[u]
      /\ {"repair", "revalidate", "resummary"} = LoopTask
  BY TasksAssumption, PlanIsValid DEF WalkInv, ValidPlan, Plan, Id, Cat, LoopTask
<1>1. Settled \cap Running = {} /\ "todo" \notin Running \cup Settled
  BY DEF Settled, Running, Inside
<1>2. CASE phase = "execute"
  <2>1. t \in plan.tasks /\ plan.cat[t] = "summary"
    BY <1>2, Runners
  <2>2. \A u \in plan.tasks : plan.cat[u] # "summary" => pc[u] \in Settled
    BY <2>1, <1>1, AncestorsSettled DEF Sequenced
  <2>4. ASSUME NEW u \in Id, pc[u] \in Running PROVE Cat(u) = "summary"
    BY <1>0, <1>1, <1>2, <2>2, <2>4, Runners
  <2> QED
    BY <1>0, <1>2, <2>2, <2>4
<1>3. CASE phase = "mend"
  <2>1. t = "resummary" /\ \A u \in plan.tasks : pc[u] \in Settled
    BY <1>3, Runners DEF LoopTask, LoopCat
  <2>2. pc["repair"] \in Settled /\ pc["revalidate"] \in Settled
    BY <1>1, <2>1, RoundOrder
  <2>3. ASSUME NEW u \in Id, pc[u] \in Running PROVE Cat(u) = "summary"
    BY <1>0, <1>1, <1>3, <2>1, <2>2, <2>3, Runners
  <2> QED
    BY <1>3, <2>1, <2>2, <2>3
<1> QED
  BY <1>2, <1>3, Runners

(* The repair agent runs alone, before its round's other tasks.            *)
LEMMA Repairing ==
  ASSUME WalkInv, NEW t \in Id, pc[t] \in Running, Cat(t) = "repair"
  PROVE  /\ t = "repair" /\ phase = "mend"
         /\ pc["revalidate"] = "todo" /\ pc["resummary"] = "todo"
         /\ \A u \in Id : pc[u] \in Running => u = t
<1>1. Settled \cap Running = {} /\ "todo" \notin Running \cup Settled
  BY DEF Settled, Running, Inside
<1>2. ASSUME phase = "execute" PROVE FALSE
  <2>1. plan.cat[t] \in PlanCategory
    BY <1>2, Runners, PlanIsValid DEF WalkInv, ValidPlan, Plan
  <2> QED
    BY <1>2, <2>1, Runners DEF PlanCategory
<1>3. phase = "mend" /\ t = "repair"
  BY <1>2, Runners DEF LoopTask, LoopCat
<1>4. pc["revalidate"] = "todo" /\ pc["resummary"] = "todo"
  BY <1>1, <1>3, RoundOrder
<1> QED
  BY <1>1, <1>3, <1>4, Runners DEF LoopTask

(* Two tasks of different stages that run together: neither repairs, and   *)
(* in a sequenced plan neither validates or summarizes.                    *)
LEMMA Together ==
  ASSUME WalkInv, NEW t \in Id, NEW u \in Id, t # u, pc[t] \in Running, pc[u] \in Running,
         Cat(t) # Cat(u)
  PROVE  /\ Cat(t) # "repair" /\ Cat(u) # "repair"
         /\ Sequenced(plan) => Cat(t) \notin Aside /\ Cat(u) \notin Aside
BY Repairing, Validating, Summarising DEF Aside

(* The main thread moves no running task and touches no artifact.          *)
LEMMA MainStep ==
  ASSUME TypeOK, WalkInv, Main
  PROVE  /\ UNCHANGED <<request, due, faults, writeErrors, boardVars, checkVars, kept>>
         /\ \A t \in Id : pc'[t] = pc[t] \/ pc'[t] \in {"todo", "attempt"}
         /\ \A t \in Id : pc[t] \in Running => pc'[t] = pc[t]
         /\ \A t \in plan.tasks : pc[t] \in Settled => pc'[t] = pc[t]
         /\ phase # "repair" => \A t \in Id : pc[t] # "todo" => pc'[t] = pc[t]
<1>1. plan.tasks \subseteq Id /\ plan.tasks \cap LoopTask = {} /\ "todo" \notin Running \cup Settled
  BY TasksAssumption, PlanIsValid DEF WalkInv, ValidPlan, Plan, Id, Running, Inside, Settled
<1>2. CASE BeginRepair
  BY <1>1, <1>2 DEF BeginRepair, WalkInv, Walking
<1>3. CASE EnterLevel \/ \E t \in Id : RunNext(t)
  BY <1>1, <1>3 DEF EnterLevel, RunNext, TypeOK, Ready, Walking
<1> QED
  BY <1>2, <1>3 DEF Main, Bootstrap, AskIfBlocked, ApprovePlan, HaltLevel, FinishWalk,
                    SkipRepair, Accept
-----------------------------------------------------------------------------
(* What a task depends on lies behind it, with everything behind that.     *)
LEMMA ParentsAndBeyond ==
  ASSUME NEW tasks, NEW dep, NEW t, NEW u \in dep[t] \cap tasks
  PROVE  /\ u \in Ancestors(tasks, dep, t)
         /\ Ancestors(tasks, dep, u) \subseteq Ancestors(tasks, dep, t)
BY DEF Ancestors

(* Every plan the linking leaves alone is ordered: a stage that validation *)
(* reports on is linked before it, unless it lies behind it already.       *)
THEOREM NormalizedIsOrdered ==
  ASSUME NEW p \in Plan, Normalized(p.tasks, p.cat, p.dep)
  PROVE  Ordered(p)
<1> SUFFICES ASSUME NEW v \in p.tasks, NEW u \in p.tasks, p.cat[v] = "validate",
                    p.cat[u] \notin Aside,
                    v \notin Ancestors(p.tasks, p.dep, u)
             PROVE  u \in Ancestors(p.tasks, p.dep, v)
  BY DEF Ordered
<1>1. p.cat[u] \in Links[3].up /\ p.cat[v] \in Links[3].down
  BY DEF Plan, PlanCategory, Aside, Links
<1>2. u \in ToLink(p.tasks, p.cat, p.dep, 3, v)
  BY <1>1 DEF ToLink, Aside
<1>3. u \in p.dep[v]
  BY <1>1, <1>2 DEF Normalized
<1> QED
  BY <1>3, ParentsAndBeyond

(* It is sequenced when nothing was written to follow validation but       *)
(* summaries, and nothing to follow a summary but summaries.               *)
THEOREM NormalizedIsSequenced ==
  ASSUME NEW p \in Plan, Normalized(p.tasks, p.cat, p.dep),
         \A c \in RequiredInPlan : \E t \in p.tasks : p.cat[t] = c,
         \A v, u \in p.tasks : v \in Ancestors(p.tasks, p.dep, u) =>
           /\ p.cat[v] = "validate" => p.cat[u] \in Aside
           /\ p.cat[v] = "summary" => p.cat[u] = "summary"
  PROVE  Sequenced(p)
<1>1. ASSUME NEW v \in p.tasks, NEW u \in p.tasks, p.cat[v] = "validate", p.cat[u] \notin Aside
      PROVE  u \in Ancestors(p.tasks, p.dep, v)
  BY <1>1, NormalizedIsOrdered DEF Ordered
<1>2. ASSUME NEW s \in p.tasks, NEW v \in p.tasks, p.cat[s] = "summary", p.cat[v] = "validate"
      PROVE  v \in p.dep[s]
  <2>1. s \notin Ancestors(p.tasks, p.dep, v) /\ v # s
    BY <1>2
  <2>2. p.cat[v] \in Links[4].up /\ p.cat[s] \in Links[4].down
    BY <1>2 DEF Links
  <2>3. v \in ToLink(p.tasks, p.cat, p.dep, 4, s)
    BY <2>1, <2>2 DEF ToLink
  <2> QED
    BY <2>2, <2>3 DEF Normalized
<1>3. ASSUME NEW s \in p.tasks, NEW u \in p.tasks, p.cat[s] = "summary", p.cat[u] # "summary"
      PROVE  u \in Ancestors(p.tasks, p.dep, s)
  <2>1. PICK v \in p.tasks : p.cat[v] = "validate"
    BY DEF RequiredInPlan
  <2>2. CASE p.cat[u] = "validate"
    BY <1>2, <1>3, <2>2, ParentsAndBeyond
  <2>3. CASE p.cat[u] # "validate"
    <3>1. u \in Ancestors(p.tasks, p.dep, v)
      BY <1>1, <1>3, <2>1, <2>3 DEF Aside
    <3> QED
      BY <1>2, <1>3, <2>1, <3>1, ParentsAndBeyond
  <2> QED
    BY <2>2, <2>3
<1> QED
  BY <1>1, <1>3 DEF Sequenced, RequiredInPlan

(* The built-in plans are.                                                 *)
THEOREM BuiltInPlansAreSequenced ==
  ASSUME NEW brownfield \in BOOLEAN
  PROVE  Sequenced(Decomposed(brownfield)) /\ Ordered(Decomposed(brownfield))
<1> DEFINE T == Decomposed(brownfield).tasks
           D == Decomposed(brownfield).dep
           C == Decomposed(brownfield).cat
<1>0. /\ T = IF brownfield THEN BuiltInTask ELSE BuiltInTask \ {"impact"}
      /\ D = BuiltInDep(brownfield)
      /\ C = [t \in BuiltInTask |-> IF t = "impact" THEN "codebase_impact" ELSE t]
  BY DEF Decomposed
<1>1. /\ D["tests"] = {"code"} /\ D["docs"] = {"design"} /\ "design" \in D["code"]
      /\ brownfield => "impact" \in D["code"]
      /\ D["validate"] = {"tests", "docs"} /\ D["summary"] = {"validate"}
  BY <1>0 DEF BuiltInDep, BuiltInTask
<1>2. {"design", "code", "tests", "docs", "validate", "summary"} \subseteq T
      /\ (brownfield <=> "impact" \in T) /\ T \subseteq BuiltInTask
  BY <1>0 DEF BuiltInTask
<1> HIDE DEF T, D, C
<1>3. {"design", "code", "tests", "docs"} \subseteq Ancestors(T, D, "validate")
      /\ (brownfield => "impact" \in Ancestors(T, D, "validate"))
  <2>1. {"tests", "docs"} \subseteq Ancestors(T, D, "validate")
    BY <1>1, <1>2, ParentsAndBeyond
  <2>2. "code" \in Ancestors(T, D, "tests") /\ "design" \in Ancestors(T, D, "docs")
    BY <1>1, <1>2, ParentsAndBeyond
  <2>3. brownfield => "impact" \in Ancestors(T, D, "code")
    BY <1>1, <1>2, ParentsAndBeyond
  <2>4. Ancestors(T, D, "code") \subseteq Ancestors(T, D, "tests")
    BY <1>1, <1>2, ParentsAndBeyond
  <2>5. Ancestors(T, D, "tests") \cup Ancestors(T, D, "docs") \subseteq Ancestors(T, D, "validate")
    BY <1>1, <1>2, ParentsAndBeyond
  <2> QED
    BY <2>1, <2>2, <2>3, <2>4, <2>5
<1>4. Ancestors(T, D, "validate") \cup {"validate"} \subseteq Ancestors(T, D, "summary")
  BY <1>1, <1>2, ParentsAndBeyond
<1>5. \A t \in T \ {"validate", "summary"} : t \in Ancestors(T, D, "validate")
  BY <1>2, <1>3 DEF BuiltInTask
<1>6. \A t \in T : /\ C[t] = "validate" <=> t = "validate"
                   /\ C[t] = "summary" <=> t = "summary"
                   /\ C[t] = "code" <=> t = "code"
  BY <1>0, <1>2 DEF BuiltInTask
<1>7. /\ \A v, u \in T : C[v] = "validate" /\ C[u] \notin Aside => u \in Ancestors(T, D, v)
      /\ \A s, u \in T : C[s] = "summary" /\ C[u] # "summary" => u \in Ancestors(T, D, s)
      /\ \E c \in T : C[c] = "code"
      /\ \E s \in T : C[s] = "summary"
  BY <1>2, <1>4, <1>5, <1>6 DEF Aside
<1> QED
  BY <1>7 DEF Sequenced, Ordered, T, D, C
-----------------------------------------------------------------------------
(***************************************************************************)
(* The steps an agent may take, by the category of its task.               *)
(***************************************************************************)
(* Which stages have which steps.                                          *)
RoleInv ==
  \A t \in Id :
    /\ pc[t] = "write" => Cat(t) \in {"code", "tests", "docs", "summary"}
    /\ pc[t] \in {"assign", "merge"} => Cat(t) = "summary"
    /\ pc[t] = "publish" => Cat(t) = "validate"
    /\ ChangeMode /\ Cat(t) \in {"tests", "docs"} => pc[t] \notin Inside

(* A step of a thread that holds no lock does nothing to the artifacts and *)
(* the reports; only its own due texts and program counter change.         *)
LEMMA OutsideStep ==
  ASSUME TypeOK, NEW t \in Id, Thread(t), pc[t] \notin Inside
  PROVE  /\ UNCHANGED <<writeErrors, design, board, disk, changeLogged, docsAttempted,
                        checkVars, kept>>
         /\ loaded' = loaded \/ (ChangeMode /\ Cat(t) \in {"code", "tests", "docs"})
         /\ \/ pc[t] = "attempt" /\ Attempt(t)
            \/ pc[t] = "enter" /\ Enter(t)
            \/ pc[t] = "raised" /\ Handle(t)
<1> USE DEF Inside
<1>1. CASE Attempt(t)
  BY <1>1 DEF Attempt
<1>2. CASE Enter(t)
  BY <1>2 DEF Enter, TypeOK
<1>3. CASE Handle(t)
  BY <1>3 DEF Handle
<1>4. ~Act(t)
  BY DEF Act, ActDesign, ActImpact, ActCode, ActTests, ActDocs, Acting, Write, Examine,
         PublishReport, Fix, FilterDocs, AssignDocs, MergeSummary
<1> QED
  BY <1>1, <1>2, <1>3, <1>4 DEF Thread

(* A step of a thread that holds one is a step of its agent's act.         *)
LEMMA InsideStep ==
  ASSUME TypeOK, NEW t \in Id, Thread(t), pc[t] \in Inside
  PROVE  Act(t) /\ UNCHANGED <<tries, faults>>
<1>1. ~Attempt(t) /\ ~Enter(t) /\ ~Handle(t)
  BY DEF Attempt, Enter, Handle, Inside
<1>2. Act(t)
  BY <1>1 DEF Thread
<1>3. CASE ActDesign(t) \/ ActImpact(t) \/ ActCode(t) \/ ActTests(t) \/ ActDocs(t)
  BY <1>2, <1>3 DEF ActDesign, ActImpact, ActCode, ActTests, ActDocs
<1>4. CASE Write(t) \/ Examine(t) \/ PublishReport(t) \/ Fix(t)
  BY <1>2, <1>4 DEF Write, Examine, PublishReport, Fix
<1>5. CASE FilterDocs(t) \/ AssignDocs(t) \/ MergeSummary(t)
  BY <1>2, <1>5 DEF FilterDocs, AssignDocs, MergeSummary
<1> QED
  BY <1>2, <1>3, <1>4, <1>5 DEF Act

(* The category decides what the act is.                                   *)
LEMMA ActsByRole ==
  ASSUME TypeOK, RoleInv, NEW t \in Id, Act(t)
  PROVE  /\ pc[t] \in Inside
         /\ Cat(t) = "design"          => ActDesign(t)
         /\ Cat(t) = "codebase_impact" => ActImpact(t)
         /\ Cat(t) = "code"     => ActCode(t) \/ Write(t)
         /\ Cat(t) = "tests"    => ~ChangeMode /\ (ActTests(t) \/ Write(t))
         /\ Cat(t) = "docs"     => ~ChangeMode /\ (ActDocs(t) \/ Write(t))
         /\ Cat(t) = "validate" => Examine(t) \/ PublishReport(t)
         /\ Cat(t) = "repair"   => Fix(t)
         /\ Cat(t) = "summary"  => FilterDocs(t) \/ AssignDocs(t) \/ MergeSummary(t) \/ Write(t)
<1>1. /\ pc[t] \in Inside
      /\ ActDesign(t) => Cat(t) = "design"
      /\ ActImpact(t) => Cat(t) = "codebase_impact"
      /\ ActCode(t)   => Cat(t) = "code"
      /\ ActTests(t)  => Cat(t) = "tests"
      /\ ActDocs(t)   => Cat(t) = "docs"
      /\ Examine(t)   => Cat(t) = "validate"
      /\ Fix(t)       => Cat(t) = "repair"
      /\ FilterDocs(t) => Cat(t) = "summary"
      /\ Write(t) => pc[t] = "write"
      /\ PublishReport(t) => pc[t] = "publish"
      /\ AssignDocs(t) => pc[t] = "assign"
      /\ MergeSummary(t) => pc[t] = "merge"
  BY DEF Act, ActDesign, ActImpact, ActCode, ActTests, ActDocs, Acting, Write, Examine,
         PublishReport, Fix, FilterDocs, AssignDocs, MergeSummary, Inside
<1> QED
  BY <1>1 DEF Act, RoleInv

(* The invariant of the agents' roles.                                     *)
LEMMA RoleHolds == Spec => []RoleInv
<1>1. Init => RoleInv
  BY DEF Init, RoleInv, Inside
<1>2. TypeOK /\ WalkInv /\ RoleInv /\ [Next]_vars => RoleInv'
  <2> SUFFICES ASSUME TypeOK, WalkInv, RoleInv, [Next]_vars PROVE RoleInv'
    OBVIOUS
  <2>1. ASSUME NEW t \in Id, Thread(t) PROVE RoleInv'
    <3>1. UNCHANGED request /\ \A u \in Id \ {t} : pc'[u] = pc[u]
      BY <2>1, ThreadStep
    <3>2. \A u \in Id : Cat(u)' = Cat(u) /\ ChangeMode' = ChangeMode
      BY <3>1 DEF Cat, ChangeMode
    <3>3. /\ pc'[t] = "write" => Cat(t) \in {"code", "tests", "docs", "summary"}
          /\ pc'[t] \in {"assign", "merge"} => Cat(t) = "summary"
          /\ pc'[t] = "publish" => Cat(t) = "validate"
          /\ ChangeMode /\ Cat(t) \in {"tests", "docs"} => pc'[t] \notin Inside
      <4> USE DEF Goto, TypeOK
      <4>1. CASE pc[t] \notin Inside
        BY <2>1, <4>1, OutsideStep DEF Attempt, Enter, Handle, Reuses, Inside
      <4>2. CASE pc[t] \in Inside
        <5>1. ~(ChangeMode /\ Cat(t) \in {"tests", "docs"})
          BY <4>2 DEF RoleInv
        <5>2. Act(t)
          BY <2>1, <4>2, InsideStep
        <5>3. CASE ActDesign(t) \/ ActImpact(t) \/ ActCode(t) \/ ActTests(t) \/ ActDocs(t)
          BY <5>1, <5>3 DEF ActDesign, ActImpact, ActCode, ActTests, ActDocs, Acting,
                            Generates, Proposes, Publishes, Raises
        <5>4. CASE Write(t) \/ Examine(t) \/ PublishReport(t) \/ Fix(t)
          BY <5>1, <5>4 DEF Write, Examine, PublishReport, Fix, Acting
        <5>5. CASE FilterDocs(t) \/ AssignDocs(t) \/ MergeSummary(t)
          BY <5>1, <5>5 DEF FilterDocs, AssignDocs, MergeSummary, Acting, Publishes, RoleInv
        <5> QED
          BY <5>2, <5>3, <5>4, <5>5 DEF Act
      <4> QED
        BY <4>1, <4>2
    <3> QED
      BY <3>1, <3>2, <3>3 DEF RoleInv
  <2>2. CASE Main
    BY <2>2, MainStep DEF RoleInv, Cat, ChangeMode, Inside
  <2>3. CASE Returned \/ UNCHANGED vars
    BY <2>3 DEF Returned, vars, RoleInv, Cat, ChangeMode
  <2> QED
    BY <2>1, <2>2, <2>3 DEF Next
<1> QED
  BY <1>1, <1>2, TypeCorrect, WalkHolds, PTL DEF Spec
-----------------------------------------------------------------------------
(***************************************************************************)
(* Which agent writes which file.                                          *)
(***************************************************************************)
(* The files a stage may put on the board, apart from the summary agent's  *)
(* reassignment of the whole section.                                      *)
Owned(c) ==
  IF c = "code" THEN (IF ChangeMode THEN Work \cup {"diff"} ELSE CodeFiles)
  ELSE IF c = "tests" THEN (IF ChangeMode THEN {} ELSE TestFiles)
  ELSE IF c = "docs" THEN (IF ChangeMode THEN {} ELSE DocFiles)
  ELSE IF c = "summary" THEN {"summary"}
  ELSE IF c = "repair" THEN {"api", "readme"} ELSE {}

(* The files nobody writes behind another's back.                          *)
Steady == IF Sequenced(plan) THEN File ELSE File \ DocFiles

(* What the threads that hold a lock rely on.                              *)
WriteInv ==
  /\ \A t \in Id : pc[t] = "write" =>
       \A f \in File : Has(due[t], f) =>
         f \in Owned(Cat(t)) /\ (f \in Steady => board[f] = due[t][f])
  /\ Sequenced(plan) => \A t \in Id : pc[t] = "assign" =>
       \A f \in DocFiles : kept[f] = IF f = "summary" THEN Absent ELSE board[f]
  /\ ~ChangeMode => \A t \in Id : pc[t] = "act" =>
       /\ Cat(t) = "code" => ~HasCode
       /\ Cat(t) = "tests" => ~Has(board, "suite")
  /\ ~ChangeMode => \A f \in PyFiles :
       disk[f] \in {Absent, board[f]} \/ (Has(board, f) /\ disk[f] \in Cuts)

(* Tasks of different stages own different files.                          *)
LEMMA OwnedApart ==
  ASSUME NEW c \in Category, NEW d \in Category, c # d, c # "repair", d # "repair",
         Sequenced(plan) => c # "summary" /\ d # "summary"
  PROVE  Owned(c) \cap Owned(d) \cap Steady = {}
BY DEF Owned, Steady, Category, PlanCategory, Work, File, CodeFiles, TestFiles, DocFiles

(* What an agent generates and what it is due to write.                    *)
LEMMA Generated ==
  ASSUME TypeOK, NEW t \in Id, NEW files \in SUBSET File, Generates(t, Part(bundle, files))
  PROVE  /\ \A f \in File \ files : board'[f] = board[f]
         /\ \/ pc' = [pc EXCEPT ![t] = "raised"] /\ board' = board /\ due' = due
            \/ /\ pc' = [pc EXCEPT ![t] = "write"]
               /\ \A u \in Id \ {t} : due'[u] = due[u]
               /\ \A f \in File : Has(due'[t], f) =>
                    f \in files /\ board'[f] = due'[t][f]
               /\ \A f \in files : board'[f] = IF Has(bundle, f) THEN bundle[f] ELSE board[f]
               /\ \A f \in File : board'[f] # board[f] => Has(due'[t], f)
<1>1. CASE Raises(t)
  BY <1>1 DEF TypeOK, Raises, Goto
<1>2. CASE ~Raises(t)
  <2> DEFINE part == Part(bundle, files)
  <2>1. Publishes(t, part, NewOrChanged(board, part))
    BY <1>2 DEF Generates
  <2>2. \A f \in File : part[f] = IF f \in files THEN bundle[f] ELSE Absent
    BY DEF Part
  <2>3. \A f \in File : board'[f] = IF Has(part, f) THEN part[f] ELSE board[f]
    BY <2>1 DEF Publishes, Merge
  <2>4. \A f \in File : NewOrChanged(board, part)[f] =
                          IF part[f] = board[f] THEN Absent ELSE part[f]
    BY DEF NewOrChanged
  <2>5. /\ due' = [due EXCEPT ![t] = NewOrChanged(board, part)]
        /\ pc' = [pc EXCEPT ![t] = "write"]
    BY <2>1 DEF Publishes, Goto
  <2> HIDE DEF part
  <2>6. /\ \A u \in Id \ {t} : due'[u] = due[u]
        /\ due'[t] = NewOrChanged(board, part)
    BY <2>5 DEF TypeOK
  <2> QED
    BY <2>2, <2>3, <2>4, <2>5, <2>6 DEF Has, Absent
<1> QED
  BY <1>1, <1>2

(* What a change set puts on the board and leaves to be written.           *)
LEMMA Proposed ==
  ASSUME TypeOK, NEW t \in Id, Proposes(t)
  PROVE  /\ \A f \in File \ (Work \cup {"diff"}) : board'[f] = board[f]
         /\ \/ pc' = [pc EXCEPT ![t] = "raised"] /\ board' = board /\ due' = due
            \/ /\ pc' = [pc EXCEPT ![t] = "write"]
               /\ \A u \in Id \ {t} : due'[u] = due[u]
               /\ \A f \in File : Has(due'[t], f) =>
                    f \in Work \cup {"diff"} /\ board'[f] = due'[t][f]
               /\ \A f \in File : board'[f] # board[f] => Has(due'[t], f)
               /\ \E p \in Proposals : \A f \in File : Has(due'[t], f) => due'[t][f] = p[f]
<1>1. CASE Raises(t)
  BY <1>1 DEF TypeOK, Raises, Goto
<1>2. CASE ~Raises(t)
  <2>1. PICK p \in Proposals : Publishes(t, OnlyChanges(Repo, p), OnlyChanges(Repo, p))
    BY <1>2 DEF Proposes
  <2>2. \A f \in File : Has(OnlyChanges(Repo, p), f) =>
          f \in Work \cup {"diff"} /\ OnlyChanges(Repo, p)[f] = p[f]
    BY DEF OnlyChanges, Part, Has
  <2> QED
    BY <2>1, <2>2 DEF TypeOK, Publishes, Goto, Merge, Has
<1> QED
  BY <1>1, <1>2

(* Who puts what on the board.                                             *)
LEMMA BoardStep ==
  ASSUME TypeOK, RoleInv, WriteInv, NEW t \in Id, Thread(t)
  PROVE  /\ \A f \in Steady \ Owned(Cat(t)) : board'[f] = board[f]
         /\ \A f \in File \ (Owned(Cat(t)) \cup DocFiles) : board'[f] = board[f]
         /\ board' = board \/ pc[t] \in Inside
<1> USE DEF TypeOK
<1>1. CASE pc[t] \notin Inside
  BY <1>1, OutsideStep
<1>2. CASE pc[t] \in Inside
  <2>1. Act(t)
    BY <1>2, InsideStep
  <2>2. CASE ActDesign(t) \/ ActImpact(t) \/ Write(t) \/ Examine(t) \/ PublishReport(t) \/ FilterDocs(t)
    BY <2>2 DEF ActDesign, ActImpact, Write, Examine, PublishReport, FilterDocs
  <2>3. CASE ActCode(t)
    <3>1. Cat(t) = "code"
      BY <2>3 DEF ActCode, Acting
    <3> QED
      BY <1>2, <2>3, <3>1, Generated, Proposed DEF ActCode, Owned, Steady, CodeFiles, File
  <2>4. CASE ActTests(t)
    <3>1. Cat(t) = "tests" /\ Owned("tests") = TestFiles
      BY <1>2, <2>4 DEF ActTests, Acting, Owned, RoleInv
    <3>2. \A f \in File \ TestFiles : board'[f] = board[f]
      BY <2>4, Generated DEF ActTests, TestFiles, File
    <3> QED
      BY <1>2, <3>1, <3>2 DEF Steady
  <2>5. CASE ActDocs(t)
    <3>1. Cat(t) = "docs" /\ Owned("docs") = DocFiles
      BY <1>2, <2>5, ActsByRole DEF ActDocs, Acting, Owned, RoleInv
    <3>2. \A f \in File \ DocFiles : board'[f] = board[f]
      BY <2>5 DEF ActDocs, Publishes, Raises, Merge, Part, Has
    <3> QED
      BY <1>2, <3>1, <3>2 DEF Steady
  <2>6. CASE Fix(t)
    <3>1. Cat(t) = "repair" /\ Owned("repair") = {"api", "readme"}
      BY <2>6 DEF Fix, Acting, Owned
    <3>2. \A f \in File \ {"api", "readme"} : board'[f] = board[f]
      BY <2>6 DEF Fix, Merge, Part, Has
    <3> QED
      BY <1>2, <3>1, <3>2 DEF Steady
  <2>7. CASE AssignDocs(t)
    <3>1. Cat(t) = "summary" /\ pc[t] = "assign"
      BY <2>7 DEF AssignDocs, RoleInv
    <3>2. \A f \in File : board'[f] = IF f \in DocFiles THEN kept[f] ELSE board[f]
      BY <2>7 DEF AssignDocs
    <3> QED
      BY <1>2, <3>1, <3>2 DEF Steady, Owned, WriteInv
  <2>8. CASE MergeSummary(t)
    <3>1. Cat(t) = "summary"
      BY <2>8 DEF MergeSummary, RoleInv
    <3>2. \A f \in File \ {"summary"} : board'[f] = board[f]
      BY <2>8 DEF MergeSummary, Publishes, Merge, SummaryText, Has
    <3> QED
      BY <1>2, <3>1, <3>2 DEF Steady, Owned
  <2> QED
    BY <2>1, <2>2, <2>3, <2>4, <2>5, <2>6, <2>7, <2>8 DEF Act
<1> QED
  BY <1>1, <1>2

(* Who writes what to the folder.                                          *)
LEMMA DiskStep ==
  ASSUME TypeOK, WalkInv, RoleInv, WriteInv, NEW t \in Id, Thread(t)
  PROVE  \/ disk' = disk
         \/ /\ pc[t] = "write" /\ board' = board
            /\ \A f \in File : disk'[f] = disk[f] \/ (Has(due[t], f) /\ disk'[f] \in Cuts \cup {due[t][f]})
         \/ /\ pc[t] = "act" /\ t = "repair"
            /\ \A f \in File \ {"api", "readme"} : disk'[f] = disk[f]
<1> USE DEF TypeOK
<1>1. CASE pc[t] \notin Inside
  BY <1>1, OutsideStep
<1>2. CASE pc[t] \in Inside
  <2>1. Act(t)
    BY <1>2, InsideStep
  <2>2. CASE ActDesign(t) \/ ActImpact(t) \/ ActCode(t) \/ ActTests(t) \/ ActDocs(t) \/ Examine(t)
             \/ PublishReport(t) \/ FilterDocs(t) \/ AssignDocs(t) \/ MergeSummary(t)
    BY <2>2 DEF ActDesign, ActImpact, ActCode, ActTests, ActDocs, Examine, PublishReport,
                FilterDocs, AssignDocs, MergeSummary
  <2>3. CASE Write(t)
    <3>1. pc[t] = "write" /\ board' = board
      BY <2>3 DEF Write
    <3>3. CASE disk' = Merge(disk, due[t])
      BY <3>1, <3>3 DEF Merge, Has
    <3>4. ASSUME NEW f \in File, NEW fs, Has(due[t], f), Torn(Merge(disk, Part(due[t], fs)), f, disk')
          PROVE  \A g \in File :
                   disk'[g] = disk[g] \/ (Has(due[t], g) /\ disk'[g] \in Cuts \cup {due[t][g]})
      BY <3>4, TornMerge
    <3> QED
      BY <2>3, <3>1, <3>3, <3>4 DEF Write
  <2>4. CASE Fix(t)
    <3>1. pc[t] = "act" /\ t = "repair"
      BY <2>4, Repairing DEF Fix, Acting, Running, Inside
    <3>2. PICK f \in {"api", "readme"} : disk' = Merge(disk, Part(due[t], {f})) \/ Torn(disk, f, disk')
      BY <2>4 DEF Fix
    <3>3. \A g \in File \ {"api", "readme"} : Merge(disk, Part(due[t], {f}))[g] = disk[g]
      BY <3>2 DEF Merge, Part, Has
    <3>4. f \in File
      BY DEF File, CodeFiles, DocFiles
    <3>5. CASE Torn(disk, f, disk')
      <4>1. \A g \in File : disk'[g] = disk[g] \/ g = f
        BY <3>4, <3>5, TornFile
      <4> QED
        BY <3>1, <4>1
    <3>6. CASE disk' = Merge(disk, Part(due[t], {f}))
      BY <3>1, <3>3, <3>6
    <3> QED
      BY <3>2, <3>5, <3>6
  <2> QED
    BY <2>1, <2>2, <2>3, <2>4 DEF Act
<1> QED
  BY <1>1, <1>2
-----------------------------------------------------------------------------
(***************************************************************************)
(* What a thread still has to write is on the board already.               *)
(***************************************************************************)
(* A thread's texts are its own.                                           *)
LEMMA DueStep ==
  ASSUME TypeOK, NEW t \in Id, Thread(t)
  PROVE  \A u \in Id \ {t} : due'[u] = due[u] /\ tries'[u] = tries[u]
<1> USE DEF TypeOK
<1>1. CASE Attempt(t) \/ Enter(t) \/ Handle(t)
  BY <1>1 DEF Attempt, Enter, Handle
<1>2. CASE ActDesign(t) \/ ActImpact(t) \/ Write(t) \/ Examine(t) \/ PublishReport(t) \/ Fix(t)
  BY <1>2 DEF ActDesign, ActImpact, Write, Examine, PublishReport, Fix
<1>3. CASE ActCode(t) \/ ActTests(t) \/ ActDocs(t)
  BY <1>3 DEF ActCode, ActTests, ActDocs, Generates, Proposes, Publishes, Raises
<1>4. CASE FilterDocs(t) \/ AssignDocs(t) \/ MergeSummary(t)
  BY <1>4 DEF FilterDocs, AssignDocs, MergeSummary, Publishes
<1> QED
  BY <1>1, <1>2, <1>3, <1>4 DEF Thread, Act

(* A thread comes to write what it has just put on the board.              *)
LEMMA WriteStep ==
  ASSUME TypeOK, RoleInv, NEW t \in Id, Thread(t), pc'[t] = "write"
  PROVE  /\ \A f \in File : Has(due'[t], f) => f \in Owned(Cat(t)) /\ board'[f] = due'[t][f]
         /\ \A f \in File : board'[f] # board[f] => Has(due'[t], f)
         /\ pc[t] \in {"act", "merge"} /\ disk' = disk
<1> USE DEF TypeOK, Goto
<1>1. CASE pc[t] \notin Inside
  BY <1>1, OutsideStep DEF Attempt, Enter, Handle, Inside
<1>2. CASE pc[t] \in Inside
  <2>1. Act(t)
    BY <1>2, InsideStep
  <2>2. CASE ActDesign(t) \/ ActImpact(t) \/ Write(t) \/ Examine(t) \/ PublishReport(t) \/ Fix(t)
             \/ FilterDocs(t) \/ AssignDocs(t)
    BY <2>2 DEF ActDesign, ActImpact, Write, Examine, PublishReport, Fix, FilterDocs, AssignDocs
  <2>3. CASE ActCode(t)
    <3>1. Cat(t) = "code" /\ pc[t] = "act" /\ disk' = disk
      BY <2>3 DEF ActCode, Acting
    <3>2. CASE ChangeMode
      BY <2>3, <3>1, <3>2, Proposed DEF ActCode, Owned
    <3>3. CASE ~ChangeMode
      <4>1. Generates(t, Part(bundle, CodeFiles))
        BY <2>3, <3>3 DEF ActCode
      <4> QED
        BY <3>1, <3>3, <4>1, Generated DEF Owned, CodeFiles, File
    <3> QED
      BY <3>2, <3>3
  <2>4. CASE ActTests(t)
    <3>1. Cat(t) = "tests" /\ Owned("tests") = TestFiles /\ pc[t] = "act" /\ disk' = disk
      BY <1>2, <2>4 DEF ActTests, Acting, Owned, RoleInv
    <3>2. Generates(t, Part(bundle, TestFiles))
      BY <2>4 DEF ActTests
    <3> QED
      BY <3>1, <3>2, Generated DEF TestFiles, File
  <2>5. CASE ActDocs(t)
    <3>1. Cat(t) = "docs" /\ Owned("docs") = DocFiles /\ pc[t] = "act" /\ disk' = disk
      BY <1>2, <2>5, ActsByRole DEF ActDocs, Acting, Owned, RoleInv
    <3> DEFINE part == Part(bundle, DocFiles)
    <3>2. Publishes(t, part, NewOrChanged(board, part))
      BY <2>5 DEF ActDocs, Raises
    <3>3. \A f \in File : part[f] = IF f \in DocFiles THEN bundle[f] ELSE Absent
      BY DEF Part
    <3>4. \A f \in File : board'[f] = IF Has(part, f) THEN part[f] ELSE board[f]
      BY <3>2 DEF Publishes, Merge
    <3>5. due'[t] = NewOrChanged(board, part)
      BY <3>2 DEF Publishes
    <3>6. \A f \in File : due'[t][f] = IF part[f] = board[f] THEN Absent ELSE part[f]
      BY <3>5 DEF NewOrChanged
    <3> HIDE DEF part
    <3> QED
      BY <3>1, <3>3, <3>4, <3>6 DEF Has
  <2>6. CASE MergeSummary(t)
    <3>1. Cat(t) = "summary" /\ pc[t] = "merge" /\ disk' = disk
      BY <2>6 DEF MergeSummary, RoleInv
    <3>2. due'[t] = SummaryText /\ board' = Merge(board, SummaryText)
      BY <2>6 DEF MergeSummary, Publishes
    <3> QED
      BY <3>1, <3>2 DEF Merge, SummaryText, Has, Owned
  <2> QED
    BY <2>1, <2>2, <2>3, <2>4, <2>5, <2>6 DEF Act
<1> QED
  BY <1>1, <1>2

(* What a thread that holds a lock relies on stays put under the others'   *)
(* steps.                                                                  *)
LEMMA Undisturbed ==
  ASSUME TypeOK, WalkInv, LockInv, RoleInv, WriteInv, NEW t \in Id, Thread(t),
         NEW u \in Id, u # t, pc[u] \in Inside
  PROVE  \A f \in Steady \cap Owned(Cat(u)) : board'[f] = board[f]
<1> SUFFICES ASSUME board' # board PROVE \A f \in Steady \cap Owned(Cat(u)) : board'[f] = board[f]
  OBVIOUS
<1>1. pc[t] \in Inside /\ Cat(t) # Cat(u)
  BY BoardStep DEF LockInv
<1>2. /\ Cat(t) # "repair" /\ Cat(u) # "repair"
      /\ Sequenced(plan) => Cat(t) # "summary" /\ Cat(u) # "summary"
  BY <1>1, Together DEF Running, Aside
<1>3. Owned(Cat(t)) \cap Owned(Cat(u)) \cap Steady = {}
  BY <1>1, <1>2, CatType, OwnedApart DEF TypeOK
<1> QED
  BY <1>3, BoardStep

(* The invariant of the pending writes.                                    *)
LEMMA WriteHolds == Spec => []WriteInv
<1>1. Init => WriteInv
  BY DEF Init, WriteInv, Nothing, File, PyFiles, CodeFiles, TestFiles
<1>2. TypeOK /\ WalkInv /\ LockInv /\ RoleInv /\ WriteInv /\ [Next]_vars => WriteInv'
  <2> SUFFICES ASSUME TypeOK, WalkInv, LockInv, RoleInv, WriteInv, [Next]_vars PROVE WriteInv'
    OBVIOUS
  <2>0. ASSUME request' = request
        PROVE  /\ \A u \in Id : Cat(u)' = Cat(u)
               /\ ChangeMode' = ChangeMode /\ Steady' = Steady
               /\ \A c : Owned(c)' = Owned(c)
    BY <2>0 DEF Cat, ChangeMode, Steady, Owned
  <2>1. ASSUME NEW t \in Id, Thread(t) PROVE WriteInv'
    <3>0. /\ request' = request /\ pc[t] \in Running
          /\ \A u \in Id \ {t} : pc'[u] = pc[u] /\ due'[u] = due[u]
      BY <2>1, ThreadStep, DueStep
    <3>1. ASSUME NEW u \in Id, pc'[u] = "write", NEW f \in File, Has(due'[u], f)
          PROVE  f \in Owned(Cat(u)) /\ (f \in Steady => board'[f] = due'[u][f])
      <4>1. CASE u = t
        BY <2>1, <3>1, <4>1, WriteStep
      <4>2. CASE u # t
        BY <2>1, <3>0, <3>1, <4>2, Undisturbed DEF WriteInv, Inside
      <4> QED
        BY <4>1, <4>2
    <3>2. ASSUME Sequenced(plan), NEW u \in Id, pc'[u] = "assign", NEW f \in DocFiles
          PROVE  kept'[f] = IF f = "summary" THEN Absent ELSE board'[f]
      <4>1. CASE u = t
        <5>1. FilterDocs(t)
          <6>1. CASE pc[t] \notin Inside
            BY <2>1, <3>2, <4>1, <6>1, OutsideStep DEF Attempt, Enter, Handle, Goto, TypeOK
          <6>2. CASE pc[t] \in Inside
            <7>1. Act(t)
              BY <2>1, <6>2, InsideStep
            <7> QED
              BY <3>2, <4>1, <7>1 DEF Act, ActDesign, ActImpact, ActCode, ActTests, ActDocs,
                 Write, Examine,
                 PublishReport, Fix, AssignDocs, MergeSummary, Generates, Proposes, Publishes,
                 Raises, Goto, TypeOK
          <6> QED
            BY <6>1, <6>2
        <5> QED
          BY <5>1 DEF FilterDocs, OtherDocs, Part, DocFiles, File
      <4>2. CASE u # t
        <5>1. pc[u] = "assign" /\ Cat(u) = "summary" /\ pc[u] \in Inside
          BY <3>0, <3>2, <4>2 DEF RoleInv, Inside
        <5>2. pc[t] \notin Inside
          BY <3>0, <3>2, <4>2, <5>1, Summarising DEF LockInv, Running
        <5> QED
          BY <2>1, <3>2, <5>1, <5>2, OutsideStep DEF WriteInv
      <4> QED
        BY <4>1, <4>2
    <3>3. ASSUME ~ChangeMode, NEW u \in Id, pc'[u] = "act"
          PROVE  /\ Cat(u) = "code" => ~HasAny(board', CodeFiles)
                 /\ Cat(u) = "tests" => ~Has(board', "suite")
      <4>1. CASE u = t
        <5>1. CASE pc[t] \notin Inside
          BY <2>1, <3>3, <4>1, <5>1, OutsideStep
          DEF Attempt, Enter, Handle, Goto, TypeOK, Reuses, Refuses, HasCode
        <5>2. CASE pc[t] \in Inside
          <6>1. Act(t)
            BY <2>1, <5>2, InsideStep
          <6>2. Fix(t)
            BY <3>3, <4>1, <6>1 DEF Act, ActDesign, ActImpact, ActCode, ActTests, ActDocs, Write,
               Examine,
                 PublishReport, FilterDocs, AssignDocs, MergeSummary, Generates, Proposes,
                 Publishes, Raises, Goto, TypeOK
          <6> QED
            BY <4>1, <6>2 DEF Fix, Acting
        <5> QED
          BY <5>1, <5>2
      <4>2. CASE u # t
        <5>1. \A f \in Steady \cap Owned(Cat(u)) : board'[f] = board[f]
          BY <2>1, <3>0, <3>3, <4>2, Undisturbed DEF Inside
        <5>2. {"src", "api", "suite"} \subseteq Steady /\ Owned("code") = CodeFiles /\ Owned("tests") = {"suite"}
          BY <3>3 DEF Steady, File, CodeFiles, TestFiles, DocFiles, Owned
        <5> QED
          BY <3>0, <3>3, <4>2, <5>1, <5>2 DEF WriteInv, HasCode, HasAny, Has, CodeFiles
      <4> QED
        BY <4>1, <4>2
    <3>4. ASSUME ~ChangeMode, NEW f \in PyFiles
          PROVE  disk'[f] \in {Absent, board'[f]} \/ (Has(board', f) /\ disk'[f] \in Cuts)
      <4>0. /\ f \in Steady /\ f \in File
            /\ disk[f] \in {Absent, board[f]} \/ (Has(board, f) /\ disk[f] \in Cuts)
        BY <3>4 DEF Steady, File, CodeFiles, TestFiles, DocFiles, PyFiles, WriteInv
      <4>1. CASE disk' = disk /\ board'[f] # board[f]
        <5>1. pc[t] \in Inside /\ f \in Owned(Cat(t))
          BY <2>1, <4>0, <4>1, BoardStep
        <5>2. Act(t)
          BY <2>1, <5>1, InsideStep
        <5>3. /\ f = "src" => Cat(t) = "code"
              /\ f = "suite" => Cat(t) = "tests"
              /\ f \in {"src", "suite"}
          BY <3>4, <5>1 DEF Owned, PyFiles, CodeFiles, TestFiles, DocFiles
        <5>4. ~Write(t)
          BY <4>1 DEF Write
        <5>5. pc[t] = "act"
          BY <5>2, <5>3, <5>4, ActsByRole DEF ActCode, ActTests, Acting
        <5> QED
          BY <3>4, <4>0, <4>1, <5>3, <5>5 DEF WriteInv, HasCode, HasAny, Has, CodeFiles
      <4>2. CASE disk' = disk /\ board'[f] = board[f]
        BY <4>0, <4>2 DEF Has
      <4>3. CASE /\ pc[t] = "write" /\ board' = board
                 /\ \A g \in File :
                      disk'[g] = disk[g] \/ (Has(due[t], g) /\ disk'[g] \in Cuts \cup {due[t][g]})
        BY <4>0, <4>3 DEF WriteInv, Has
      <4>4. CASE t = "repair" /\ \A g \in File \ {"api", "readme"} : disk'[g] = disk[g]
        <5>1. Cat(t) = "repair" /\ Owned("repair") = {"api", "readme"} /\ f \notin {"api", "readme"}
          BY <3>4, <4>4 DEF Cat, LoopCat, LoopTask, Owned, PyFiles
        <5>2. board'[f] = board[f]
          BY <2>1, <4>0, <5>1, BoardStep
        <5> QED
          BY <4>0, <4>4, <5>1, <5>2 DEF Has
      <4> QED
        BY <2>1, <4>1, <4>2, <4>3, <4>4, DiskStep
    <3> QED
      BY <2>0, <3>0, <3>1, <3>2, <3>3, <3>4 DEF WriteInv, HasCode
  <2>2. CASE Main
    BY <2>0, <2>2, MainStep DEF WriteInv, HasCode
  <2>3. CASE Returned \/ UNCHANGED vars
    BY <2>0, <2>3 DEF Returned, vars, WriteInv, HasCode
  <2> QED
    BY <2>1, <2>2, <2>3 DEF Next
<1> QED
  BY <1>1, <1>2, TypeCorrect, WalkHolds, LockHolds, RoleHolds, PTL DEF Spec
-----------------------------------------------------------------------------
(***************************************************************************)
(* The output folder follows the board.                                    *)
(***************************************************************************)
(* A run keeps its request, and with it its plan.                          *)
LEMMA RequestKept == [Next]_vars => UNCHANGED request
<1> SUFFICES ASSUME [Next]_vars PROVE UNCHANGED request
  OBVIOUS
<1>1. CASE Main
  BY <1>1 DEF Main, Bootstrap, AskIfBlocked, ApprovePlan, EnterLevel, RunNext, HaltLevel,
              FinishWalk, BeginRepair, SkipRepair, Accept
<1>2. ASSUME NEW t \in Id, Thread(t) PROVE UNCHANGED request
  <2>1. CASE Attempt(t) \/ Enter(t) \/ Handle(t)
    BY <2>1 DEF Attempt, Enter, Handle
  <2>2. CASE Act(t)
    BY <2>2 DEF Act, ActDesign, ActImpact, ActCode, ActTests, ActDocs, Write, Examine,
                PublishReport, Fix, FilterDocs, AssignDocs, MergeSummary
  <2> QED
    BY <1>2, <2>1, <2>2 DEF Thread
<1> QED
  BY <1>1, <1>2 DEF Next, Returned, vars

(* A run keeps the plan it was started with.                               *)
LEMMA SequencedStays == Spec /\ Sequenced(plan) => []Sequenced(plan)
<1>1. Sequenced(plan) /\ [Next]_vars => Sequenced(plan)'
  BY RequestKept
<1> QED
  BY <1>1, PTL DEF Spec

(* A text that is about to reach the folder.                               *)
Being(f) == \/ \E t \in Id : pc[t] = "write" /\ Has(due[t], f)
            \/ f = "summary" /\ \E t \in Id : pc[t] = "merge"

(* As long as no write failed, the folder lacks nothing else of the board. *)
DiskInv ==
  request.writeErrors = 0 =>
    writeErrors = 0 /\ \A f \in Steady : board[f] = disk[f] \/ Being(f)

(* The invariant of the output folder.                                     *)
LEMMA DiskHolds == Spec => []DiskInv
<1>1. Init => DiskInv
  BY DEF Init, DiskInv, Steady, File
<1>2. TypeOK /\ WalkInv /\ LockInv /\ RoleInv /\ WriteInv /\ DiskInv /\ [Next]_vars => DiskInv'
  <2> SUFFICES ASSUME TypeOK, WalkInv, LockInv, RoleInv, WriteInv, DiskInv, [Next]_vars,
                      request.writeErrors = 0
               PROVE  DiskInv'
    BY RequestKept DEF DiskInv
  <2>0. request' = request /\ Steady' = Steady /\ writeErrors = 0
    BY RequestKept DEF DiskInv, Steady
  <2>1. ASSUME NEW t \in Id, Thread(t) PROVE DiskInv'
    <3>0. \A u \in Id \ {t} : pc'[u] = pc[u] /\ due'[u] = due[u]
      BY <2>1, ThreadStep, DueStep
    <3>1. CASE pc'[t] = "write"
      <4>1. \A f \in Steady : board'[f] = disk'[f] \/ Being(f)'
        <5> SUFFICES ASSUME NEW f \in Steady, ~Has(due'[t],
                            f) PROVE board'[f] = disk'[f] \/ Being(f)'
          BY <3>1 DEF Being
        <5>1. board'[f] = board[f] /\ disk'[f] = disk[f] /\ pc[t] \in {"act", "merge"}
          BY <2>1, <3>1, WriteStep DEF Steady, File
        <5>2. CASE board[f] = disk[f]
          BY <5>1, <5>2
        <5>3. ASSUME NEW u \in Id, pc[u] = "write" /\ Has(due[u], f) PROVE Being(f)'
          BY <3>0, <5>1, <5>3 DEF Being
        <5>4. ASSUME NEW u \in Id, f = "summary" /\ pc[u] = "merge" PROVE Being(f)'
          <6>1. CASE u = t
            <7>1. Act(t)
              BY <2>1, <5>4, <6>1, InsideStep DEF Inside
            <7>2. MergeSummary(t)
              BY <5>4, <6>1, <7>1 DEF Act, ActDesign, ActImpact, ActCode, ActTests, ActDocs,
                 Acting, Write, Examine,
                 PublishReport, Fix, FilterDocs, AssignDocs
            <7>3. due'[t] = SummaryText
              BY <7>2 DEF MergeSummary, Publishes, TypeOK
            <7>4. Has(due'[t], f)
              BY <5>4, <7>3 DEF SummaryText, Has, Absent, File, DocFiles, TypeOK
            <7> QED
              BY <7>4
          <6>2. CASE u # t
            BY <3>0, <5>4, <6>2 DEF Being
          <6> QED
            BY <6>1, <6>2
        <5> QED
          BY <5>2, <5>3, <5>4 DEF DiskInv, Being
      <4>2. writeErrors' = writeErrors
        <5>1. pc[t] \in {"act", "merge"}
          BY <2>1, <3>1, WriteStep
        <5>2. Act(t)
          BY <2>1, <5>1, InsideStep DEF Inside
        <5> QED
          <6>1. ~Write(t) /\ ~PublishReport(t) /\ ~AssignDocs(t)
            BY <5>1 DEF Write, PublishReport, AssignDocs
          <6>2. CASE Fix(t)
            BY <2>0, <6>2 DEF Fix
          <6>3. CASE ~Fix(t)
            BY <5>2, <6>1, <6>3 DEF Act, ActDesign, ActImpact, ActCode, ActTests, ActDocs, Examine,
                                    FilterDocs, MergeSummary
          <6> QED
            BY <6>2, <6>3
      <4> QED
        BY <2>0, <4>1, <4>2 DEF DiskInv
    <3>2. CASE Write(t)
      <4>1. /\ disk' = Merge(disk, due[t]) /\ board' = board /\ writeErrors' = writeErrors
            /\ pc[t] = "write"
        BY <2>0, <3>2 DEF Write
      <4>2. \A f \in Steady : f \in File
        BY DEF Steady
      <4>3. ASSUME NEW f \in Steady PROVE board'[f] = disk'[f] \/ Being(f)'
        <5>1. CASE Has(due[t], f)
          BY <4>1, <4>2, <5>1 DEF Merge, WriteInv
        <5>2. CASE ~Has(due[t], f)
          <6>1. disk'[f] = disk[f]
            BY <4>1, <4>2, <5>2 DEF Merge
          <6>2. Being(f) => Being(f)'
            BY <3>0, <4>1, <5>2 DEF Being
          <6> QED
            BY <4>1, <6>1, <6>2 DEF DiskInv
        <5> QED
          BY <5>1, <5>2
      <4> QED
        BY <2>0, <4>1, <4>3 DEF DiskInv
    <3>3. CASE pc'[t] # "write" /\ ~Write(t)
      <4>1. /\ pc[t] \notin {"write", "merge"} /\ writeErrors' = writeErrors
            /\ \A f \in Steady : \/ board'[f] = board[f] /\ disk'[f] = disk[f]
                                 \/ board'[f] = disk'[f]
                                 \/ f = "summary" /\ pc'[t] = "merge"
        <5>1. CASE pc[t] \notin Inside
          BY <2>1, <5>1, OutsideStep DEF Inside
        <5>2. CASE pc[t] \in Inside
          <6>1. Act(t)
            BY <2>1, <5>2, InsideStep
          <6>2. CASE ActDesign(t) \/ ActImpact(t) \/ Examine(t) \/ PublishReport(t) \/ FilterDocs(t)
            BY <6>2 DEF ActDesign, ActImpact, Examine, PublishReport, FilterDocs, Acting
          <6>3. CASE ActCode(t) \/ ActTests(t) \/ ActDocs(t)
            BY <3>3, <6>3 DEF ActCode, ActTests, ActDocs, Acting, Generates, Proposes, Publishes,
                              Raises, Goto, TypeOK
          <6>4. CASE Fix(t)
            <7>1. PICK g \in {"api", "readme"} :
                    /\ board' = Merge(board, Part(due[t], {g})) /\ disk' = Merge(disk, Part(due[t], {g}))
                    /\ pc[t] = "act" /\ writeErrors' = writeErrors
              BY <2>0, <6>4 DEF Fix, Acting
            <7>2. \A f \in File : \/ board'[f] = board[f] /\ disk'[f] = disk[f]
                                  \/ board'[f] = disk'[f]
              BY <7>1 DEF Merge
            <7> QED
              BY <7>1, <7>2 DEF Steady
          <6>5. CASE AssignDocs(t)
            <7>1. pc[t] = "assign" /\ pc'[t] = "merge" /\ writeErrors' = writeErrors /\ disk' = disk
              BY <6>5 DEF AssignDocs, Goto, TypeOK
            <7>2. \A f \in Steady \ {"summary"} : board'[f] = board[f]
              <8>1. Cat(t) = "summary"
                BY <7>1 DEF RoleInv
              <8> QED
                BY <2>1, <8>1, BoardStep DEF Owned
            <7> QED
              BY <7>1, <7>2
          <6>6. ~MergeSummary(t)
            BY <3>3 DEF MergeSummary, Publishes, Goto, TypeOK
          <6> QED
            BY <3>3, <6>1, <6>2, <6>3, <6>4, <6>5, <6>6 DEF Act
        <5> QED
          BY <5>1, <5>2
      <4>2. \A f : Being(f) => Being(f)'
        BY <3>0, <4>1 DEF Being
      <4> QED
        BY <2>0, <4>1, <4>2 DEF DiskInv, Being
    <3> QED
      BY <3>1, <3>2, <3>3
  <2>2. CASE Main
    <3>1. UNCHANGED <<board, disk, due, writeErrors>> /\ \A t \in Id : pc[t] \in Running => pc'[t] = pc[t]
      BY <2>2, MainStep
    <3>2. \A f : Being(f) => Being(f)'
      BY <3>1 DEF Being, Running, Inside
    <3> QED
      BY <2>0, <3>1, <3>2 DEF DiskInv
  <2>3. CASE Returned \/ UNCHANGED vars
    <3>1. UNCHANGED <<board, disk, due, writeErrors, pc>>
      BY <2>3 DEF Returned, vars
    <3> QED
      BY <2>0, <3>1 DEF DiskInv, Being
  <2> QED
    BY <2>1, <2>2, <2>3 DEF Next
<1> QED
  BY <1>1, <1>2, TypeCorrect, WalkHolds, LockHolds, RoleHolds, WriteHolds, PTL DEF Spec

(* With a sequenced plan and no failing write, what is accepted is in the  *)
(* output folder, whatever was retried, reused or repaired.                *)
THEOREM AcceptedReachesTheDisk == Spec /\ Sequenced(plan) => []OnDiskUnlessWritesFail
<1>1. TypeOK /\ WalkInv /\ DiskInv /\ Sequenced(plan) => OnDiskUnlessWritesFail
  <2> SUFFICES ASSUME TypeOK, WalkInv, DiskInv, Sequenced(plan), request.writeErrors = 0,
                      outcome = "accepted"
               PROVE  disk = board
    BY DEF OnDiskUnlessWritesFail, AcceptedIsOnDisk
  <2>1. \A t \in Id : pc[t] \notin {"write", "merge"}
    BY DEF WalkInv, Walking, Running, Inside
  <2>2. \A f \in File : board[f] = disk[f]
    BY <2>1 DEF DiskInv, Steady, Being
  <2> QED
    BY <2>2 DEF TypeOK, Folder
<1> QED
  BY <1>1, TypeCorrect, WalkHolds, DiskHolds, SequencedStays, PTL
-----------------------------------------------------------------------------
(***************************************************************************)
(* No artifact is lost.                                                    *)
(***************************************************************************)
(* Only the summary agent takes anything off the board.                    *)
LEMMA BoardGrows ==
  ASSUME TypeOK, RoleInv, NEW t \in Id, Thread(t), ~AssignDocs(t)
  PROVE  \A f \in File : Has(board, f) => Has(board', f)
<1>1. \A old, new : \A f \in File : Has(old, f) => Has(Merge(old, new), f)
  BY DEF Merge, Has
<1>2. CASE Attempt(t) \/ Enter(t) \/ Handle(t)
  BY <1>2 DEF Attempt, Enter, Handle
<1>3. CASE ActDesign(t) \/ ActImpact(t) \/ Write(t) \/ Examine(t) \/ PublishReport(t) \/ FilterDocs(t)
  BY <1>3 DEF ActDesign, ActImpact, Write, Examine, PublishReport, FilterDocs
<1>4. CASE ActCode(t) \/ ActTests(t) \/ ActDocs(t) \/ MergeSummary(t) \/ Fix(t)
  <2>1. board' = board \/ \E new : board' = Merge(board, new)
    BY <1>4 DEF ActCode, ActTests, ActDocs, MergeSummary, Fix, Generates, Proposes, Publishes,
       Raises
  <2> QED
    BY <1>1, <2>1
<1> QED
  BY <1>2, <1>3, <1>4 DEF Thread, Act

(* One step loses no artifact.                                             *)
LEMMA NeverLost ==
  ASSUME TypeOK, RoleInv, WriteInv, Sequenced(plan), NEW t \in Id, Thread(t),
         NEW f \in File \ {"summary"}, Has(board, f)
  PROVE  Has(board', f)
<1>1. CASE AssignDocs(t)
  <2>1. board'[f] = IF f \in DocFiles THEN kept[f] ELSE board[f]
    BY <1>1 DEF AssignDocs
  <2>2. pc[t] = "assign"
    BY <1>1 DEF AssignDocs
  <2> QED
    BY <2>1, <2>2 DEF WriteInv, Has
<1>2. CASE ~AssignDocs(t)
  BY <1>2, BoardGrows
<1> QED
  BY <1>1, <1>2

(* In a run whose plan is sequenced no file is lost from the board.        *)
THEOREM NothingIsEverLost == Spec /\ Sequenced(plan) => NothingIsLost
<1>1. TypeOK /\ WalkInv /\ RoleInv /\ WriteInv /\ Sequenced(plan) /\ [Next]_vars
        => [\A f \in File \ {"summary"} : Has(board, f) => Has(board', f)]_vars
  <2> SUFFICES ASSUME TypeOK, WalkInv, RoleInv, WriteInv, Sequenced(plan), [Next]_vars,
                      NEW f \in File \ {"summary"}, Has(board, f)
               PROVE  Has(board', f)
    OBVIOUS
  <2>1. ASSUME NEW t \in Id, Thread(t) PROVE Has(board', f)
    BY <2>1, NeverLost
  <2>2. CASE Main
    BY <2>2, MainStep
  <2>3. CASE Returned \/ UNCHANGED vars
    BY <2>3 DEF Returned, vars
  <2> QED
    BY <2>1, <2>2, <2>3 DEF Next
<1> QED
  BY <1>1, TypeCorrect, WalkHolds, RoleHolds, WriteHolds, SequencedStays, PTL
  DEF Spec, NothingIsLost

(* The repository is consulted in change mode only, and before the code    *)
(* agent comes to anything.                                                *)
LoadInv ==
  /\ loaded => ChangeMode
  /\ ChangeMode => \A t \in Id : Cat(t) = "code" /\ (pc[t] = "ok" \/ pc[t] \in Inside) => loaded
  /\ ChangeMode /\ HasAny(board, PyFiles) => loaded

(* Only the impact analyst loads the repository.                           *)
LEMMA LoadStep ==
  ASSUME TypeOK, NEW t \in Id, Thread(t)
  PROVE  /\ loaded => loaded'
         /\ loaded' => loaded \/ ChangeMode
         /\ ChangeMode /\ Cat(t) = "code" /\ (pc'[t] = "ok" \/ pc'[t] \in Inside) =>
              loaded' \/ pc[t] \in Inside
         /\ loaded' # loaded => Cat(t) \in {"code", "tests", "docs", "codebase_impact"}
<1> USE DEF TypeOK
<1>1. CASE pc[t] \notin Inside
  BY <1>1, OutsideStep DEF Attempt, Enter, Handle, Goto, Inside
<1>2. CASE pc[t] \in Inside
  <2>1. Act(t)
    BY <1>2, InsideStep
  <2>2. CASE ActImpact(t)
    BY <1>2, <2>2 DEF ActImpact, Acting
  <2>3. CASE ~ActImpact(t)
    <3>1. CASE ActDesign(t) \/ ActCode(t) \/ ActTests(t) \/ ActDocs(t) \/ FilterDocs(t)
               \/ AssignDocs(t) \/ MergeSummary(t)
      BY <1>2, <3>1 DEF ActDesign, ActCode, ActTests, ActDocs, FilterDocs, AssignDocs, MergeSummary
    <3>2. CASE Write(t) \/ Examine(t) \/ PublishReport(t) \/ Fix(t)
      <4>1. loaded' = loaded
        BY <3>2 DEF Write, Examine, PublishReport, Fix
      <4> QED
        BY <1>2, <4>1
    <3> QED
      BY <2>1, <2>3, <3>1, <3>2 DEF Act
  <2> QED
    BY <2>2, <2>3
<1> QED
  BY <1>1, <1>2

(* The invariant of the loaded repository.                                 *)
LEMMA LoadHolds == Spec => []LoadInv
<1>1. Init => LoadInv
  BY DEF Init, LoadInv, Inside, HasAny, Has, Nothing, Absent, PyFiles, File, CodeFiles, TestFiles
<1>2. TypeOK /\ WalkInv /\ RoleInv /\ WriteInv /\ LoadInv /\ [Next]_vars => LoadInv'
  <2> SUFFICES ASSUME TypeOK, WalkInv, RoleInv, WriteInv, LoadInv, [Next]_vars PROVE LoadInv'
    OBVIOUS
  <2>0. request' = request /\ ChangeMode' = ChangeMode /\ \A u \in Id : Cat(u)' = Cat(u)
    BY RequestKept DEF ChangeMode, Cat
  <2>1. ASSUME NEW t \in Id, Thread(t) PROVE LoadInv'
    <3>1. \A u \in Id \ {t} : pc'[u] = pc[u]
      BY <2>1, ThreadStep
    <3>2. ASSUME ChangeMode, HasAny(board', PyFiles) PROVE loaded'
      <4>1. PICK f \in PyFiles : Has(board', f)
        BY <3>2 DEF HasAny
      <4>2. CASE Has(board, f)
        BY <2>1, <3>2, <4>1, <4>2, LoadStep DEF LoadInv, HasAny
      <4>3. CASE ~Has(board, f)
        <5>1. f \in Owned(Cat(t)) /\ pc[t] \in Inside
          BY <2>1, <4>1, <4>3, BoardStep
          DEF Has, PyFiles, File, CodeFiles, TestFiles, DocFiles, Steady
        <5>2. Cat(t) = "code"
          BY <3>2, <5>1 DEF Owned, PyFiles
        <5> QED
          BY <2>1, <3>2, <5>1, <5>2, LoadStep DEF LoadInv
      <4> QED
        BY <4>2, <4>3
    <3> QED
      BY <2>0, <2>1, <3>1, <3>2, LoadStep DEF LoadInv
  <2>2. CASE Main
    BY <2>0, <2>2, MainStep DEF LoadInv, Inside
  <2>3. CASE Returned \/ UNCHANGED vars
    BY <2>0, <2>3 DEF Returned, vars, LoadInv
  <2> QED
    BY <2>1, <2>2, <2>3 DEF Next
<1> QED
  BY <1>1, <1>2, TypeCorrect, WalkHolds, RoleHolds, WriteHolds, PTL DEF Spec
-----------------------------------------------------------------------------
(***************************************************************************)
(* What the checks of a report depend on.                                  *)
(***************************************************************************)
(* The checks the proofs speak of.  (The SMT translation takes no string   *)
(* with a space in it: the steps that use the names leave them unexpanded.) *)
Compiles   == "code compiles"
Contract   == "api contract present"
Documents  == "documentation present"

(* More contract and documentation make no check fail; code and tests     *)
(* alone decide what can be read.                                         *)
LEMMA FailuresShrink ==
  ASSUME NEW b, NEW b2, NEW o, NEW o2, NEW hasApi, NEW mode,
         \A f \in PyFiles : b2[f] = b[f] /\ o2[f] = o[f],
         \A f \in {"api", "readme"} : (Has(b, f) => Has(b2, f)) /\ (Has(o, f) => Has(o2, f))
  PROVE  /\ Failures(b2, o2, hasApi, mode) \subseteq
              Failures(b, o, hasApi, mode) \cup {Documents}
         /\ Readable(b2, o2) <=> Readable(b, o)
<1>1. /\ \A f \in PyFiles : (Has(b2, f) <=> Has(b, f)) /\ (Has(o2, f) <=> Has(o, f))
      /\ SuitePasses(o2) <=> SuitePasses(o)
      /\ HasAny(b, Work) => HasAny(b2, Work)
  BY DEF Has, HasAny, SuitePasses, PyFiles, Work, File, CodeFiles, TestFiles, DocFiles
<1>2. {f \in PyFiles : Has(b2, f)} = {f \in PyFiles : Has(b, f)}
  BY <1>1
<1>3. (\E f \in PyFiles : Has(b2, f) /\ o2[f] \in Broken) <=>
        (\E f \in PyFiles : Has(b, f) /\ o[f] \in Broken)
  BY <1>1
<1>4. \A scanned \in SUBSET PyFiles :
        (\E f \in scanned : o2[f] \in Broken \cup Unsafe) <=> (\E f \in scanned : o[f] \in Broken \cup Unsafe)
  OBVIOUS
<1>5. Readable(b2, o2) <=> Readable(b, o)
  BY <1>1 DEF Readable
<1>6. ASSUME NEW c \in Failures(b2, o2, hasApi, mode), c # "documentation present"
      PROVE  c \in Failures(b, o, hasApi, mode)
  <2> DEFINE scanned  == IF mode THEN {f \in PyFiles : Has(b, f)} ELSE PyFiles
             scanned2 == IF mode THEN {f \in PyFiles : Has(b2, f)} ELSE PyFiles
             high     == \E f \in scanned : o[f] \in Broken \cup Unsafe
             high2    == \E f \in scanned2 : o2[f] \in Broken \cup Unsafe
  <2>1. high2 <=> high
    BY <1>2, <1>4
  <2> HIDE DEF high, high2
  <2>2. /\ c \in Check
        /\ \/ c = "code compiles" /\ \E f \in PyFiles : Has(b2, f) /\ o2[f] \in Broken
           \/ c = "static safety scan" /\ high2
           \/ c = "tests pass" /\ (high2 \/ ~SuitePasses(o2))
           \/ c = "api contract present" /\ hasApi /\ ~Has(o2, "api")
           \/ c = "change set present" /\ mode /\ ~HasAny(b2, Work)
    BY <1>6 DEF Failures, high2
  <2>3. \/ c = "code compiles" /\ \E f \in PyFiles : Has(b, f) /\ o[f] \in Broken
        \/ c = "static safety scan" /\ high
        \/ c = "tests pass" /\ (high \/ ~SuitePasses(o))
        \/ c = "api contract present" /\ hasApi /\ ~Has(o, "api")
        \/ c = "change set present" /\ mode /\ ~HasAny(b, Work)
    BY <1>1, <1>3, <2>1, <2>2
  <2> QED
    BY <2>2, <2>3 DEF Failures, high
<1> QED
  BY <1>5, <1>6 DEF Documents

(* The documentation check.                                                *)
LEMMA DocumentationCheck ==
  ASSUME NEW b, NEW o, NEW hasApi, NEW mode
  PROVE  Documents \in Failures(b, o, hasApi, mode) <=>
           ~HasAny(b, {"readme", "summary"}) /\ ~(mode /\ Has(o, "readme"))
BY DEF Failures, Check, Documents

(* Nothing written is ever removed.                                        *)
LEMMA DiskGrows ==
  ASSUME TypeOK, NEW t \in Id, Thread(t)
  PROVE  \A f \in File : Has(disk, f) => Has(disk', f)
<1>1. \A old, new : \A f \in File : Has(old, f) => Has(Merge(old, new), f)
  BY DEF Merge, Has
<1>2. CASE Attempt(t) \/ Enter(t) \/ Handle(t)
  BY <1>2 DEF Attempt, Enter, Handle
<1>3. CASE ActDesign(t) \/ ActImpact(t) \/ Examine(t) \/ PublishReport(t) \/ FilterDocs(t)
           \/ AssignDocs(t)
  BY <1>3 DEF ActDesign, ActImpact, Examine, PublishReport, FilterDocs, AssignDocs
<1>4. CASE ActCode(t) \/ ActTests(t) \/ ActDocs(t) \/ MergeSummary(t)
  BY <1>4 DEF ActCode, ActTests, ActDocs, MergeSummary
<1>5. CASE Write(t) \/ Fix(t)
  <2>1. ASSUME NEW old \in Folder, NEW f \in File, Torn(old, f, disk'),
               \A g \in File : Has(disk, g) => Has(old, g)
        PROVE  \A g \in File : Has(disk, g) => Has(disk', g)
    BY <2>1, TornFile DEF Has
  <2>2. \A fs : /\ Merge(disk, Part(due[t], fs)) \in Folder
               /\ \A g \in File : Has(disk, g) => Has(Merge(disk, Part(due[t], fs)), g)
    <3> TAKE fs
    <3>1. Part(due[t], fs) \in Folder
      BY PartType DEF TypeOK
    <3> QED
      BY <1>1, <3>1, MergeType DEF TypeOK
  <2>3. \A g \in File : Has(disk, g) => Has(Merge(disk, due[t]), g)
    BY <1>1
  <2>4. "api" \in File /\ "readme" \in File /\ disk \in Folder
    BY DEF File, CodeFiles, DocFiles, TypeOK
  <2>5. CASE Write(t)
    <3>1. CASE disk' = Merge(disk, due[t])
      BY <2>3, <3>1
    <3>2. ASSUME NEW f \in File, NEW fs, Torn(Merge(disk, Part(due[t], fs)), f, disk')
          PROVE  \A g \in File : Has(disk, g) => Has(disk', g)
      BY <2>1, <2>2, <3>2
    <3> QED
      BY <2>5, <3>1, <3>2 DEF Write
  <2>6. CASE Fix(t)
    <3>1. ASSUME NEW f, disk' = Merge(disk, Part(due[t], {f}))
          PROVE  \A g \in File : Has(disk, g) => Has(disk', g)
      BY <2>2, <3>1
    <3>2. ASSUME NEW f \in {"api", "readme"}, Torn(disk, f, disk')
          PROVE  \A g \in File : Has(disk, g) => Has(disk', g)
      BY <2>1, <2>4, <3>2
    <3> QED
      BY <2>6, <3>1, <3>2 DEF Fix
  <2> QED
    BY <1>5, <2>5, <2>6
<1> QED
  BY <1>2, <1>3, <1>4, <1>5 DEF Thread, Act

(* In a sequenced plan validation, summary and repair leave code and tests *)
(* as they are and only add contract and documentation.                    *)
LEMMA LateStep ==
  ASSUME TypeOK, WalkInv, RoleInv, WriteInv, Sequenced(plan), NEW t \in Id, Thread(t),
         Cat(t) \in Aside \cup {"repair"}
  PROVE  /\ loaded' = loaded /\ design' = design
         /\ \A f \in PyFiles : board'[f] = board[f] /\ Checked'[f] = Checked[f]
         /\ \A f \in {"api", "readme"} : /\ Has(board, f) => Has(board', f)
                                         /\ Has(Checked, f) => Has(Checked', f)
<1>1. loaded' = loaded /\ design' = design
  BY LoadStep, LockStep DEF Aside, TypeOK
<1>2. \A f \in PyFiles \cup {"api", "readme"} : f \in File /\ f \in Work /\ f # "summary"
  BY DEF PyFiles, File, Work, CodeFiles, TestFiles, DocFiles
<1>3. \A f \in PyFiles : f \notin Owned(Cat(t)) /\ f \in Steady
  BY <1>2 DEF Owned, Aside, PyFiles, Steady
<1>4. \A f \in PyFiles : board'[f] = board[f]
  BY <1>3, BoardStep
<1>5. \A f \in PyFiles : disk'[f] = disk[f]
  BY <1>2, <1>3, DiskStep DEF WriteInv, PyFiles
<1>6. \A f \in {"api", "readme"} : (Has(board, f) => Has(board', f)) /\ (Has(disk, f) => Has(disk', f))
  BY <1>2, NeverLost, DiskGrows
<1>7. \A f \in Work : /\ Overlay[f] = IF Has(board, f) THEN board[f] ELSE Repo[f]
                      /\ Overlay'[f] = IF Has(board', f) THEN board'[f] ELSE Repo[f]
  BY DEF Overlay, Merge, Part, Has, Work
<1>8. \A f \in PyFiles : Overlay'[f] = Overlay[f]
  BY <1>2, <1>4, <1>7 DEF Has
<1>9. \A f \in {"api", "readme"} : Has(Overlay, f) => Has(Overlay', f)
  BY <1>2, <1>6, <1>7 DEF Has
<1> QED
  BY <1>1, <1>4, <1>5, <1>6, <1>8, <1>9 DEF Checked
-----------------------------------------------------------------------------
(***************************************************************************)
(* A report that accepted the work keeps telling the truth about it.       *)
(***************************************************************************)
(* The check for documentation would succeed, or will in a moment, when    *)
(* the summary that was taken off is back.                                 *)
Documented == \/ HasAny(board, {"readme", "summary"})
              \/ loaded /\ Has(Checked, "readme")
              \/ \E t \in Id : pc[t] = "merge"

(* What a report does not list is true of the artifacts from then on: the  *)
(* work is done by the time it is written, and what comes after only adds. *)
TruthInv == Sequenced(plan) =>
  /\ report # Unreported =>
       /\ \A u \in plan.tasks : Cat(u) \notin Aside => pc[u] \in Settled
       /\ Readable(board, Checked)
       /\ Failures(board, Checked, HasApi, loaded) \subseteq report \cup {Documents}
       /\ Documents \in report \/ Documented
  /\ \A t \in Id : pc[t] = "publish" =>
       Readable(board, Checked) /\ found = Failures(board, Checked, HasApi, loaded)

(* Documentation, once there, is lost at most while a summary is replaced. *)
LEMMA DocumentedStays ==
  ASSUME TypeOK, WalkInv, RoleInv, WriteInv, Sequenced(plan), NEW t \in Id, Thread(t),
         Cat(t) \in Aside \cup {"repair"}, Documented
  PROVE  Documented'
<1>1. \A u \in Id \ {t} : pc'[u] = pc[u]
  BY ThreadStep
<1>2. CASE Has(board, "readme")
  BY <1>2, LateStep DEF Documented, HasAny
<1>3. CASE Has(board, "summary")
  <2>1. CASE AssignDocs(t)
    BY <2>1 DEF AssignDocs, Goto, TypeOK, Documented
  <2>2. CASE ~AssignDocs(t)
    BY <1>3, <2>2, BoardGrows DEF Documented, HasAny, File, DocFiles
  <2> QED
    BY <2>1, <2>2
<1>4. CASE loaded /\ Has(Checked, "readme")
  BY <1>4, LateStep DEF Documented
<1>5. ASSUME NEW u \in Id, pc[u] = "merge" PROVE Documented'
  <2>1. CASE u # t
    BY <1>1, <1>5, <2>1 DEF Documented
  <2>2. CASE u = t
    <3>1. Act(t)
      BY <1>5, <2>2, InsideStep DEF Inside
    <3>2. MergeSummary(t)
      BY <1>5, <2>2, <3>1 DEF Act, ActDesign, ActImpact, ActCode, ActTests, ActDocs, Acting,
         Write, Examine,
                 PublishReport, Fix, FilterDocs, AssignDocs
    <3>3. Has(board', "summary")
      BY <3>2 DEF MergeSummary, Publishes, Merge, SummaryText, Has, Absent, File, DocFiles, TypeOK
    <3> QED
      BY <3>3 DEF Documented, HasAny
  <2> QED
    BY <2>1, <2>2
<1> QED
  BY <1>2, <1>3, <1>4, <1>5 DEF Documented, HasAny

(* The invariant of the report's truth.                                    *)
LEMMA TruthHolds == Spec => []TruthInv
<1>1. Init => TruthInv
  BY DEF Init, TruthInv
<1>2. TypeOK /\ WalkInv /\ LockInv /\ RoleInv /\ WriteInv /\ TruthInv /\ [Next]_vars => TruthInv'
  <2> SUFFICES ASSUME TypeOK, WalkInv, LockInv, RoleInv, WriteInv, TruthInv, [Next]_vars,
                      Sequenced(plan)
               PROVE  TruthInv'
    BY RequestKept DEF TruthInv
  <2>0. request' = request /\ \A u \in Id : Cat(u)' = Cat(u)
    BY RequestKept DEF Cat
  <2>a. plan.tasks \subseteq Id
    BY PlanIsValid DEF WalkInv, ValidPlan, Plan, Id
  <2>1. ASSUME NEW t \in Id, Thread(t) PROVE TruthInv'
    <3>0. pc[t] \in Running /\ \A u \in Id \ {t} : pc'[u] = pc[u]
      BY <2>1, ThreadStep
    <3>1. ASSUME NEW u \in Id, pc'[u] = "publish"
          PROVE  /\ Readable(board', Checked') /\ found' = Failures(board', Checked', HasApi', loaded')
                 /\ UNCHANGED report
      <4>1. CASE u = t
        <5>1. Examine(t)
          <6>1. CASE pc[t] \notin Inside
            BY <2>1, <3>1, <4>1, <6>1, OutsideStep DEF Attempt, Enter, Handle, Goto, TypeOK
          <6>2. CASE pc[t] \in Inside
            <7>1. Act(t)
              BY <2>1, <6>2, InsideStep
            <7> QED
              BY <3>1, <4>1, <7>1 DEF Act, ActDesign, ActImpact, ActCode, ActTests, ActDocs,
                 Write, Fix,
                 PublishReport, FilterDocs, AssignDocs, MergeSummary, Generates, Proposes,
                 Publishes, Raises, Goto, TypeOK
          <6> QED
            BY <6>1, <6>2
        <5>2. UNCHANGED <<board, disk, loaded, design, request, report>>
          BY <5>1 DEF Examine
        <5>3. Checked' = Checked /\ HasApi' = HasApi
          BY <5>2 DEF Checked, Overlay, HasApi
        <5>4. Readable(board, Checked) /\ found' = Failures(board, Checked, HasApi, loaded)
          BY <3>1, <4>1, <5>1 DEF Examine, Goto, TypeOK
        <5> QED
          BY <5>2, <5>3, <5>4
      <4>2. CASE u # t
        <5>1. pc[u] = "publish" /\ Cat(u) = "validate"
          BY <3>0, <3>1, <4>2 DEF RoleInv
        <5>2. Cat(t) = "validate" /\ pc[t] \notin Inside
          BY <3>0, <4>2, <5>1, Validating DEF LockInv, Running, Inside
        <5>3. UNCHANGED <<board, disk, loaded, design, request, report, found>>
          BY <2>0, <2>1, <5>2, OutsideStep DEF TypeOK
        <5>4. Checked' = Checked /\ HasApi' = HasApi
          BY <5>3 DEF Checked, Overlay, HasApi
        <5> QED
          BY <5>1, <5>3, <5>4 DEF TruthInv
      <4> QED
        BY <4>1, <4>2
    <3>2. CASE PublishReport(t)
      <4>1. /\ UNCHANGED <<board, disk, loaded, design, request>> /\ report' = found
            /\ pc[t] = "publish" /\ pc'[t] \in {"raised", "ok"}
        BY <3>2 DEF PublishReport, Goto, TypeOK
      <4>2. Checked' = Checked /\ HasApi' = HasApi
        BY <4>1 DEF Checked, Overlay, HasApi
      <4>3. Readable(board, Checked) /\ found = Failures(board, Checked, HasApi, loaded)
        BY <4>1 DEF TruthInv
      <4>4. \A u \in plan.tasks : Cat(u) \notin Aside => pc'[u] \in Settled
        BY <2>a, <3>0, <4>1, Validating DEF RoleInv, Aside
      <4>5. Documents \in report' \/ Documented'
        BY <4>1, <4>2, <4>3, DocumentationCheck DEF Documented
      <4> QED
        BY <2>0, <2>a, <3>1, <4>1, <4>2, <4>3, <4>4, <4>5 DEF TruthInv
    <3>3. CASE ~PublishReport(t)
      <4>1. report' = report
        <5>1. CASE pc[t] \notin Inside
          BY <2>1, <5>1, OutsideStep
        <5>2. CASE pc[t] \in Inside
          BY <2>1, <3>3, <5>2, InsideStep
          DEF Act, ActDesign, ActImpact, ActCode, ActTests, ActDocs, Write, Fix, Examine,
              FilterDocs,
              AssignDocs, MergeSummary
        <5> QED
          BY <5>1, <5>2
      <4>2. ASSUME report # Unreported
            PROVE  /\ \A u \in plan.tasks : Cat(u) \notin Aside => pc'[u] \in Settled
                   /\ Readable(board', Checked')
                   /\ Failures(board', Checked', HasApi', loaded')
                        \subseteq report \cup {Documents}
                   /\ Documents \in report \/ Documented'
        <5>1. Cat(t) \in Aside \cup {"repair"}
          <6>1. Settled \cap Running = {}
            BY DEF Settled, Running, Inside
          <6>2. phase = "execute" => t \in plan.tasks
            BY <3>0, Runners
          <6>3. phase = "execute" => Cat(t) \in Aside
            BY <3>0, <4>2, <6>1, <6>2 DEF TruthInv
          <6>4. phase = "mend" => Cat(t) \in Aside \cup {"repair"}
            BY <3>0, Runners DEF LoopCat, LoopTask, Aside
          <6> QED
            BY <3>0, <6>3, <6>4, Runners
        <5>2. \A u \in plan.tasks : Cat(u) \notin Aside => pc'[u] \in Settled
          BY <2>a, <3>0, <4>2 DEF TruthInv, Settled, Running, Inside
        <5>3. HasApi' = HasApi /\ loaded' = loaded
          BY <2>1, <5>1, LateStep DEF HasApi
        <5>4. /\ Failures(board', Checked', HasApi, loaded) \subseteq
                   Failures(board, Checked, HasApi, loaded) \cup {Documents}
              /\ Readable(board', Checked') <=> Readable(board, Checked)
          BY <2>1, <5>1, LateStep, FailuresShrink
        <5> QED
          BY <2>1, <4>2, <5>1, <5>2, <5>3, <5>4, DocumentedStays DEF TruthInv
      <4> QED
        BY <2>0, <2>a, <3>1, <4>1, <4>2 DEF TruthInv
    <3> QED
      BY <3>2, <3>3
  <2>2. CASE Main
    <3>1. /\ UNCHANGED <<request, board, disk, loaded, design, report, found>>
          /\ \A u \in Id : pc'[u] = "publish" => pc[u] = "publish"
          /\ \A u \in Id : pc[u] = "merge" => pc'[u] = "merge"
          /\ \A u \in plan.tasks : pc[u] \in Settled => pc'[u] \in Settled
      BY <2>2, MainStep DEF Running, Inside
    <3>2. Checked' = Checked /\ HasApi' = HasApi /\ (Documented => Documented')
      BY <3>1 DEF Checked, Overlay, HasApi, Documented
    <3> QED
      BY <2>0, <2>a, <3>1, <3>2 DEF TruthInv
  <2>3. CASE Returned \/ UNCHANGED vars
    <3>1. UNCHANGED <<request, board, disk, loaded, design, report, found, pc>>
      BY <2>3 DEF Returned, vars
    <3>2. Checked' = Checked /\ HasApi' = HasApi /\ Documented' = Documented
      BY <3>1 DEF Checked, Overlay, HasApi, Documented
    <3> QED
      BY <2>0, <2>a, <3>1, <3>2 DEF TruthInv
  <2> QED
    BY <2>1, <2>2, <2>3 DEF Next
<1> QED
  BY <1>1, <1>2, TypeCorrect, WalkHolds, LockHolds, RoleHolds, WriteHolds, PTL DEF Spec

(* In change mode the validator looked at the repository.                  *)
LEMMA ReportedLoaded ==
  ASSUME TypeOK, WalkInv, ReportInv, LoadInv, TruthInv, Sequenced(plan), report # Unreported
  PROVE  loaded = ChangeMode
<1>1. PICK c \in plan.tasks : plan.cat[c] = "code"
  BY DEF Sequenced
<1>2. c \in Id /\ Cat(c) = "code"
  BY <1>1, TasksAssumption, PlanIsValid DEF WalkInv, ValidPlan, Plan, Id, Cat
<1>3. pc[c] = "ok"
  BY <1>1, <1>2 DEF TruthInv, ReportInv, Settled, Optional, Aside
<1> QED
  BY <1>2, <1>3, RequestType DEF LoadInv, TypeOK, ChangeMode

(* A passing report is still true when the run is accepted.                *)
THEOREM AcceptedWorkStillPasses == Spec /\ Sequenced(plan) => []AcceptedWorkPasses
<1>1. TypeOK /\ WalkInv /\ ReportInv /\ LoadInv /\ TruthInv /\ Sequenced(plan) => AcceptedWorkPasses
  <2> SUFFICES ASSUME TypeOK, WalkInv, ReportInv, LoadInv, TruthInv, Sequenced(plan),
                      outcome = "accepted", report = {}
               PROVE  LET files == IF ChangeMode THEN Overlay ELSE disk
                      IN  Readable(board, files) /\ Failures(board, files, HasApi, ChangeMode) = {}
    BY DEF AcceptedWorkPasses
  <2>1. report # Unreported
    BY DEF Unreported
  <2>2. loaded = ChangeMode
    BY <2>1, ReportedLoaded
  <2>3. \A t \in Id : pc[t] # "merge"
    BY DEF WalkInv, Walking, Running, Inside
  <2>4. Documents \notin Failures(board, Checked, HasApi, loaded)
    BY <2>1, <2>3, DocumentationCheck DEF TruthInv, Documented
  <2>5. Readable(board, Checked) /\ Failures(board, Checked, HasApi, loaded) = {}
    BY <2>1, <2>4 DEF TruthInv
  <2> QED
    BY <2>2, <2>5 DEF Checked
<1> QED
  BY <1>1, TypeCorrect, WalkHolds, ReportHolds, LoadHolds, TruthHolds, SequencedStays, PTL

(* Code and tests that passed are in the output folder, even when writes   *)
(* failed: as the blackboard has them, or cut off.                         *)
THEOREM PassingCodeReachesTheDisk == Spec /\ Sequenced(plan) => []PassingCodeIsOnDisk
<1>1. TypeOK /\ WalkInv /\ ReportInv /\ LoadInv /\ TruthInv /\ WriteInv /\ Sequenced(plan)
        => PassingCodeIsOnDisk
  <2> SUFFICES ASSUME TypeOK, WalkInv, ReportInv, LoadInv, TruthInv, WriteInv, Sequenced(plan),
                      report = {}, ~ChangeMode, NEW f \in PyFiles
               PROVE  disk[f] = board[f] \/ (Has(board, f) /\ disk[f] \in Cuts)
    BY DEF PassingCodeIsOnDisk
  <2>1. report # Unreported
    BY DEF Unreported
  <2>2. Readable(board, disk)
    BY <2>1, ReportedLoaded DEF TruthInv, Checked
  <2> QED
    BY <2>2 DEF Readable, WriteInv, Has
<1> QED
  BY <1>1, TypeCorrect, WalkHolds, ReportHolds, LoadHolds, TruthHolds, WriteHolds,
     SequencedStays, PTL
-----------------------------------------------------------------------------
(***************************************************************************)
(* A report that found uncompilable code goes no further.                  *)
(***************************************************************************)
(* The validation task that wrote it is at it again, or has given up.      *)
CompileInv ==
  "code compiles" \in report =>
    /\ phase \notin {"repair", "accept"}
    /\ validated = {}
    /\ \E v \in plan.tasks \cup LoopTask : Cat(v) = "validate" /\ pc[v] \notin Settled \cup {"todo"}

(* A report is replaced when one is published; a validation task without   *)
(* a fingerprint of the board does not settle.                             *)
LEMMA CompileStep ==
  ASSUME TypeOK, RoleInv, NEW t \in Id, Thread(t), ~PublishReport(t)
  PROVE  /\ report' = report /\ validated' = validated
         /\ Cat(t) = "validate" /\ validated = {} => pc'[t] \notin Settled \cup {"todo"}
<1> USE DEF TypeOK, Goto, Settled
<1>1. CASE pc[t] \notin Inside
  <2>1. report' = report /\ validated' = validated
    BY <1>1, OutsideStep
  <2>2. CASE Attempt(t)
    BY <2>1, <2>2 DEF Attempt
  <2>3. CASE Enter(t)
    BY <2>1, <2>3 DEF Enter, Reuses, Refuses
  <2>4. CASE Handle(t)
    BY <2>1, <2>4 DEF Handle, Optional
  <2> QED
    BY <1>1, <2>2, <2>3, <2>4, OutsideStep
<1>2. CASE pc[t] \in Inside
  <2>1. Act(t)
    BY <1>2, InsideStep
  <2>2. report' = report /\ validated' = validated
    BY <2>1 DEF Act, ActDesign, ActImpact, ActCode, ActTests, ActDocs, Write, Fix, Examine, FilterDocs,
                AssignDocs, MergeSummary
  <2>3. Cat(t) = "validate" => Examine(t)
    BY <2>1, ActsByRole
  <2> QED
    BY <2>2, <2>3 DEF Examine
<1> QED
  BY <1>1, <1>2

LEMMA CompileHolds == Spec => []CompileInv
<1>1. Init => CompileInv
  BY DEF Init, CompileInv, Unreported
<1>2. TypeOK /\ WalkInv /\ RoleInv /\ CompileInv /\ [Next]_vars => CompileInv'
  <2> SUFFICES ASSUME TypeOK, WalkInv, RoleInv, CompileInv, [Next]_vars PROVE CompileInv'
    OBVIOUS
  <2>0. request' = request /\ \A u : Cat(u)' = Cat(u)
    BY RequestKept DEF Cat
  <2>a. plan.tasks \cup LoopTask \subseteq Id
    BY PlanIsValid DEF WalkInv, ValidPlan, Plan, Id
  <2>1. ASSUME NEW t \in Id, Thread(t) PROVE CompileInv'
    <3>1. /\ phase' = phase /\ Walking /\ t \in plan.tasks \cup LoopTask
          /\ \A u \in Id \ {t} : pc'[u] = pc[u]
      BY <2>1, ThreadStep DEF WalkInv, Walking
    <3>2. CASE PublishReport(t)
      <4>1. Cat(t) = "validate"
        BY <3>2 DEF PublishReport, RoleInv
      <4>2. "code compiles" \in report' => validated' = {} /\ pc'[t] = "raised"
        BY <3>2 DEF PublishReport, Fingerprint, Goto, TypeOK
      <4>3. "raised" \notin Settled \cup {"todo"}
        BY DEF Settled
      <4> QED
        BY <2>0, <3>1, <4>1, <4>2, <4>3 DEF CompileInv, Walking
    <3>3. CASE ~PublishReport(t)
      <4>1. report' = report /\ validated' = validated
        BY <2>1, <3>3, CompileStep
      <4>2. ASSUME NEW v \in plan.tasks \cup LoopTask, Cat(v) = "validate", validated = {},
                   pc[v] \notin Settled \cup {"todo"}
            PROVE  pc'[v] \notin Settled \cup {"todo"}
        BY <2>1, <2>a, <3>1, <3>3, <4>2, CompileStep
      <4> QED
        BY <2>0, <3>1, <4>1, <4>2 DEF CompileInv
    <3> QED
      BY <3>2, <3>3
  <2>2. CASE Main
    <3> SUFFICES ASSUME "code compiles" \in report' PROVE CompileInv'
      BY DEF CompileInv
    <3>1. report' = report /\ validated' = validated
      BY <2>2, MainStep
    <3>2. phase \notin {"repair", "accept"} /\ validated = {}
      BY <3>1 DEF CompileInv
    <3>3. PICK v \in plan.tasks \cup LoopTask : Cat(v) = "validate" /\ pc[v] \notin Settled \cup {"todo"}
      BY <3>1 DEF CompileInv
    <3>4. pc'[v] = pc[v]
      BY <2>2, <2>a, <3>2, <3>3, MainStep
    <3>5. ~FinishWalk
      <4>1. v \in Id
        BY <2>a
      <4>2. Walking => v \in job \/ pc[v] = "todo" \/ pc[v] \in Settled
        BY <3>3, <4>1 DEF WalkInv, Walking, Late
      <4> QED
        BY <3>3, <4>2 DEF FinishWalk, LevelSettled, WalkInv, Walking
    <3>6. phase' \notin {"repair", "accept"}
      BY <2>2, <3>2, <3>5 DEF Main, Bootstrap, AskIfBlocked, ApprovePlan, EnterLevel, RunNext,
                              HaltLevel, BeginRepair, SkipRepair, Accept, End
    <3> QED
      BY <2>0, <3>1, <3>2, <3>3, <3>4, <3>6 DEF CompileInv
  <2>3. CASE Returned \/ UNCHANGED vars
    BY <2>0, <2>3 DEF Returned, vars, CompileInv
  <2> QED
    BY <2>1, <2>2, <2>3 DEF Next
<1> QED
  BY <1>1, <1>2, TypeCorrect, WalkHolds, RoleHolds, PTL DEF Spec

(* No gate sees a report that found uncompilable code, on any plan: the    *)
(* validation that wrote it is retried until it passes that check, or the  *)
(* run halts.                                                              *)
THEOREM UncompiledIsNeverReviewed == Spec => []UncompiledNeverReviewed
<1>1. CompileInv => UncompiledNeverReviewed
  BY DEF CompileInv, UncompiledNeverReviewed
<1> QED
  BY <1>1, CompileHolds, PTL
-----------------------------------------------------------------------------
(***************************************************************************)
(* The summary is written from the last report.                            *)
(***************************************************************************)
(* Where a run stands when it comes to its gate.                           *)
EndInv ==
  /\ phase \in Early \cup {"execute"} => round = 0
  /\ phase = "mend" => round > 0
  /\ phase \in {"repair", "accept"} \/ outcome = "accepted" =>
       /\ \A t \in plan.tasks : pc[t] \in Settled
       /\ round > 0 => \A t \in LoopTask : pc[t] \in Settled
  /\ phase = "accept" => ~NeedsRepair

(* A repair round that has nothing left to start has settled all its tasks. *)
LEMMA MendComplete ==
  ASSUME WalkInv, phase = "mend", LevelSettled, Ready = {}
  PROVE  \A t \in LoopTask : pc[t] \in Settled
<1>1. job = LoopTask /\ \A t \in LoopTask : pc[t] \in Settled \cup {"todo"}
  BY DEF WalkInv, Walking, LevelSettled
<1>2. \A t \in LoopTask : pc[t] = "todo" => \E u \in Dep(t) : u \notin LoopTask \/ pc[u] = "todo"
  BY <1>1 DEF Ready
<1>3. Dep("repair") = {} /\ Dep("revalidate") = {"repair"} /\ Dep("resummary") = {"revalidate"}
  BY DEF Dep, LoopDep, LoopTask
<1>4. pc["repair"] \in Settled
  BY <1>1, <1>2, <1>3 DEF LoopTask
<1>5. pc["revalidate"] \in Settled
  BY <1>1, <1>2, <1>3, <1>4 DEF LoopTask, Settled
<1>6. pc["resummary"] \in Settled
  BY <1>1, <1>2, <1>3, <1>5 DEF LoopTask, Settled
<1> QED
  BY <1>4, <1>5, <1>6 DEF LoopTask

(* The invariant of a run that is over.                                    *)
LEMMA EndHolds == Spec => []EndInv
<1>1. Init => EndInv
  BY DEF Init, EndInv, Early
<1>2. TypeOK /\ WalkInv /\ EndInv /\ [Next]_vars => EndInv'
  <2> SUFFICES ASSUME TypeOK, WalkInv, EndInv, [Next]_vars PROVE EndInv'
    OBVIOUS
  <2>0. request' = request /\ plan.tasks \subseteq Id /\ LoopTask \subseteq Id
        /\ plan.tasks \cap LoopTask = {}
    BY RequestKept, TasksAssumption, PlanIsValid DEF WalkInv, ValidPlan, Plan, Id
  <2>1. ASSUME NEW t \in Id, Thread(t) PROVE EndInv'
    BY <2>1, ThreadStep DEF EndInv, WalkInv, Walking, Early
  <2>2. CASE Bootstrap \/ AskIfBlocked \/ ApprovePlan
    BY <2>2 DEF Bootstrap, AskIfBlocked, ApprovePlan, End, EndInv, WalkInv, Early
  <2>3. CASE EnterLevel \/ (\E t \in Id : RunNext(t))
    BY <2>3 DEF EnterLevel, RunNext, EndInv, WalkInv, Walking, Early
  <2>4. CASE HaltLevel
    BY <2>4 DEF HaltLevel, End, EndInv, Early
  <2>5. CASE FinishWalk
    <3>1. \A t \in plan.tasks : pc[t] \in Settled
      BY <2>5, WalkComplete DEF FinishWalk, WalkInv, Walking, Late
    <3>2. round > 0 => \A t \in LoopTask : pc[t] \in Settled
      BY <2>5, MendComplete DEF FinishWalk, Walking, EndInv
    <3> QED
      BY <2>5, <3>1, <3>2 DEF FinishWalk, EndInv, Early
  <2>6. CASE BeginRepair
    <3>1. /\ phase' = "mend" /\ round' = round + 1 /\ outcome' = outcome /\ phase = "repair"
          /\ round \in Nat
      BY <2>6 DEF BeginRepair, TypeOK
    <3>2. outcome' # "accepted"
      BY <3>1 DEF WalkInv
    <3> QED
      BY <3>1, <3>2 DEF EndInv, Early
  <2>7. CASE SkipRepair
    BY <2>7 DEF SkipRepair, EndInv, NeedsRepair, Early
  <2>8. CASE Accept
    BY <2>8 DEF Accept, End, EndInv, Early
  <2>9. CASE Returned \/ UNCHANGED vars
    BY <2>9 DEF Returned, vars, EndInv, NeedsRepair
  <2> QED
    BY <2>1, <2>2, <2>3, <2>4, <2>5, <2>6, <2>7, <2>8, <2>9 DEF Next, Main
<1> QED
  BY <1>1, <1>2, TypeCorrect, WalkHolds, PTL DEF Spec

(* A summary task of the plan, or the last repair round's, has succeeded.  *)
Summarised == IF round = 0 THEN \E s \in plan.tasks : Cat(s) = "summary" /\ pc[s] = "ok"
                           ELSE pc["resummary"] = "ok"
Current    == board["summary"] = 1 + reports

(* The summary follows the last report, or is being rewritten from it.     *)
SummaryInv == Sequenced(plan) =>
  /\ Summarised => Current \/ \E t \in Id : pc[t] = "merge"
  /\ \A t \in Id : pc[t] = "write" /\ Cat(t) = "summary" => Current

(* Reports are published before there is a summary.                        *)
LEMMA ReportsStep ==
  ASSUME TypeOK, RoleInv, NEW t \in Id, Thread(t)
  PROVE  /\ reports' = reports \/ (PublishReport(t) /\ Cat(t) = "validate" /\ pc[t] \in Inside)
         /\ pc'[t] = "ok" /\ Cat(t) = "summary" => pc[t] = "write" /\ board' = board
         /\ pc'[t] = "write" /\ Cat(t) = "summary" => board'["summary"] = 1 + reports
         /\ pc[t] = "merge" => board'["summary"] = 1 + reports
         /\ Cat(t) = "summary" => board' = board \/ pc'[t] = "merge" \/ pc[t] = "merge"
<1> USE DEF TypeOK, Goto
<1>1. CASE pc[t] \notin Inside
  BY <1>1, OutsideStep DEF Attempt, Enter, Handle, Reuses, Inside
<1>2. CASE pc[t] \in Inside
  <2>1. Act(t)
    BY <1>2, InsideStep
  <2>2. CASE ActDesign(t) \/ ActImpact(t) \/ ActCode(t) \/ ActTests(t) \/ ActDocs(t) \/ Examine(t) \/ Fix(t)
    BY <2>2 DEF ActDesign, ActImpact, ActCode, ActTests, ActDocs, Examine, Fix, Acting
  <2>3. CASE Write(t)
    BY <2>3 DEF Write
  <2>4. CASE PublishReport(t)
    BY <1>2, <2>4 DEF PublishReport, RoleInv
  <2>5. CASE FilterDocs(t) \/ AssignDocs(t)
    BY <2>5 DEF FilterDocs, AssignDocs, Acting
  <2>6. CASE MergeSummary(t)
    BY <2>6 DEF MergeSummary, Publishes, Merge, SummaryText, Has, Absent, File, DocFiles
  <2> QED
    BY <2>1, <2>2, <2>3, <2>4, <2>5, <2>6 DEF Act
<1> QED
  BY <1>1, <1>2

(* The invariant of the summary.                                           *)
LEMMA SummaryHolds == Spec => []SummaryInv
<1>1. Init => SummaryInv
  <2> SUFFICES ASSUME Init PROVE SummaryInv
    OBVIOUS
  <2>1. plan.tasks \subseteq Id
    BY PlanIsValid DEF Init, ValidPlan, Plan, Id
  <2> QED
    BY <2>1 DEF Init, SummaryInv, Summarised
<1>2. TypeOK /\ WalkInv /\ LockInv /\ RoleInv /\ WriteInv /\ EndInv /\ SummaryInv /\ [Next]_vars
        => SummaryInv'
  <2> SUFFICES ASSUME TypeOK, WalkInv, LockInv, RoleInv, WriteInv, EndInv, SummaryInv, [Next]_vars,
                      Sequenced(plan)
               PROVE  SummaryInv'
    BY RequestKept DEF SummaryInv
  <2>0. request' = request /\ \A u \in Id : Cat(u)' = Cat(u)
    BY RequestKept DEF Cat
  <2>a. /\ plan.tasks \subseteq Id /\ {"repair", "revalidate", "resummary"} = LoopTask
        /\ LoopTask \subseteq Id /\ plan.tasks \cap LoopTask = {} /\ Cat("resummary") = "summary"
    BY PlanIsValid, TasksAssumption DEF WalkInv, ValidPlan, Plan, Id, LoopTask, Cat, LoopCat
  <2>1. ASSUME NEW t \in Id, Thread(t) PROVE SummaryInv'
    <3>0. /\ pc[t] \in Running /\ \A u \in Id \ {t} : pc'[u] = pc[u]
          /\ round' = round /\ Walking
      BY <2>1, ThreadStep DEF WalkInv
    <3>1. CASE Cat(t) = "summary"
      <4>1. reports' = reports
        BY <2>1, <3>1, ReportsStep
      <4>2. ASSUME NEW u \in Id, pc'[u] = "write", Cat(u) = "summary" PROVE Current'
        <5>1. CASE u = t
          BY <2>1, <3>1, <4>1, <4>2, <5>1, ReportsStep DEF Current
        <5>2. CASE u # t
          BY <2>1, <3>0, <3>1, <4>1, <4>2, <5>2, BoardStep DEF SummaryInv, LockInv, Inside, Current
        <5> QED
          BY <5>1, <5>2
      <4>3. ASSUME Summarised' PROVE Current' \/ \E u \in Id : pc'[u] = "merge"
        <5>1. CASE pc'[t] = "ok"
          BY <2>1, <3>1, <4>1, <5>1, ReportsStep DEF SummaryInv, Current
        <5>2. CASE pc'[t] # "ok"
          <6>1. Summarised
            BY <2>0, <2>a, <3>0, <4>3, <5>2 DEF Summarised
          <6>2. CASE pc[t] = "merge"
            BY <2>1, <4>1, <6>2, ReportsStep DEF Current
          <6>3. CASE pc[t] # "merge" /\ Current
            BY <2>1, <3>1, <4>1, <6>3, ReportsStep DEF Current
          <6>4. ASSUME NEW u \in Id \ {t}, pc[u] = "merge" PROVE pc'[u] = "merge"
            BY <3>0, <6>4
          <6> QED
            BY <6>1, <6>2, <6>3, <6>4 DEF SummaryInv
        <5> QED
          BY <5>1, <5>2
      <4> QED
        BY <2>0, <4>2, <4>3 DEF SummaryInv
    <3>2. CASE Cat(t) # "summary"
      <4>1. CASE board'["summary"] = board["summary"] /\ reports' = reports
        <5>1. (Summarised' => Summarised) /\ (Current => Current')
          BY <2>0, <2>a, <3>0, <3>2, <4>1 DEF Summarised, Current
        <5>2. pc[t] # "merge"
          BY <3>2 DEF RoleInv
        <5> QED
          BY <2>0, <3>0, <3>2, <5>1, <5>2 DEF SummaryInv
      <4>2. CASE ~(board'["summary"] = board["summary"] /\ reports' = reports)
        <5>1. /\ \A u \in Id : pc[u] \in Running => Cat(u) # "summary"
              /\ phase = "execute" => \A s \in plan.tasks : Cat(s) = "summary" => pc[s] = "todo"
              /\ phase = "mend" => pc["resummary"] = "todo"
          <6>1. CASE reports' # reports
            <7>1. Cat(t) = "validate"
              BY <2>1, <6>1, ReportsStep
            <7> QED
              BY <3>0, <7>1, Validating
          <6>2. CASE board'["summary"] # board["summary"]
            <7>1. Cat(t) = "docs"
              BY <2>1, <3>2, <6>2, BoardStep
              DEF Steady, Owned, File, Work, CodeFiles, TestFiles, DocFiles
            <7>2. phase = "execute" /\ t \in plan.tasks
              BY <3>0, <7>1, Runners DEF LoopCat, LoopTask
            <7>3. ASSUME NEW s \in plan.tasks, Cat(s) = "summary" PROVE pc[s] = "todo"
              <8>1. t \in Ancestors(plan.tasks, plan.dep, s)
                BY <2>a, <7>1, <7>2, <7>3 DEF Sequenced, Cat
              <8> QED
                BY <3>0, <8>1, AncestorsSettled DEF Settled, Running, Inside
            <7>4. \A u \in Id : pc[u] \in Running => Cat(u) # "summary"
              BY <3>0, <3>2, Summarising
            <7> QED
              BY <7>2, <7>3, <7>4
          <6> QED
            BY <4>2, <6>1, <6>2
        <5>2. ~Summarised'
          <6>1. CASE phase = "execute"
            BY <2>0, <2>a, <3>0, <3>2, <5>1, <6>1 DEF Summarised, EndInv
          <6>2. CASE phase = "mend"
            BY <2>a, <3>0, <3>2, <5>1, <6>2 DEF Summarised, EndInv
          <6> QED
            BY <3>0, <6>1, <6>2 DEF Walking
        <5>3. \A u \in Id : Cat(u) = "summary" => pc'[u] # "write"
          BY <3>0, <3>2, <5>1 DEF Running, Inside
        <5> QED
          BY <2>0, <5>2, <5>3 DEF SummaryInv
      <4> QED
        BY <4>1, <4>2
    <3> QED
      BY <3>1, <3>2
  <2>2. CASE BeginRepair
    <3>1. round' > 0 /\ pc'["resummary"] = "todo"
      BY <2>2, <2>a DEF BeginRepair, TypeOK
    <3>2. \A u \in Id : pc'[u] # "write"
      BY <2>2 DEF BeginRepair, WalkInv, Walking, Running, Inside
    <3> QED
      BY <3>1, <3>2 DEF SummaryInv, Summarised
  <2>3. CASE Main /\ ~BeginRepair
    <3>1. /\ UNCHANGED <<board, reports>>
          /\ \A u \in Id : pc'[u] = pc[u] \/ (pc[u] = "todo" /\ pc'[u] = "attempt")
          /\ round' = round
      <4>1. CASE EnterLevel \/ (\E t \in Id : RunNext(t))
        BY <4>1 DEF EnterLevel, RunNext, Ready, TypeOK
      <4> QED
        BY <2>3, <4>1 DEF Main, Bootstrap, AskIfBlocked, ApprovePlan, HaltLevel, FinishWalk,
                          SkipRepair, Accept
    <3>2. (Summarised' => Summarised) /\ Current' = Current
      BY <2>0, <2>a, <3>1 DEF Summarised, Current
    <3> QED
      BY <2>0, <3>1, <3>2 DEF SummaryInv
  <2>4. CASE Returned \/ UNCHANGED vars
    <3>1. UNCHANGED <<request, board, reports, pc, round>>
      BY <2>4 DEF Returned, vars
    <3>2. Summarised' = Summarised /\ Current' = Current
      BY <2>0, <2>a, <3>1 DEF Summarised, Current
    <3> QED
      BY <2>0, <3>1, <3>2 DEF SummaryInv
  <2> QED
    BY <2>1, <2>2, <2>3, <2>4 DEF Next, Main
<1> QED
  BY <1>1, <1>2, TypeCorrect, WalkHolds, LockHolds, RoleHolds, WriteHolds, EndHolds, PTL DEF Spec

(* In a run whose plan is sequenced the summary that is accepted was      *)
(* written from the last report, whatever repair rounds there were.       *)
THEOREM SummaryIsAlwaysCurrent == Spec /\ Sequenced(plan) => []SummaryIsCurrent
<1>1. TypeOK /\ WalkInv /\ ReportInv /\ EndInv /\ SummaryInv /\ Sequenced(plan) => SummaryIsCurrent
  <2> SUFFICES ASSUME TypeOK, WalkInv, ReportInv, EndInv, SummaryInv, Sequenced(plan),
                      outcome = "accepted"
               PROVE  board["summary"] = 1 + reports
    BY DEF SummaryIsCurrent
  <2>1. \A t \in Id : pc[t] # "merge"
    BY DEF WalkInv, Walking, Running, Inside
  <2>2. \A t \in Id : Cat(t) = "summary" /\ pc[t] \in Settled => pc[t] = "ok"
    BY DEF ReportInv, Settled, Optional
  <2>3. CASE round = 0
    <3>1. PICK s \in plan.tasks : plan.cat[s] = "summary"
      BY DEF Sequenced
    <3>2. s \in Id /\ Cat(s) = "summary"
      BY <3>1, TasksAssumption, PlanIsValid DEF WalkInv, ValidPlan, Plan, Id, Cat
    <3> QED
      BY <2>1, <2>2, <2>3, <3>2 DEF EndInv, SummaryInv, Summarised, Current
  <2>4. CASE round # 0
    <3>1. "resummary" \in LoopTask /\ "resummary" \in Id /\ Cat("resummary") = "summary"
      BY DEF LoopTask, Id, Cat, LoopCat
    <3>2. pc["resummary"] \in Settled
      BY <2>4, <3>1 DEF EndInv, TypeOK
    <3> QED
      BY <2>1, <2>2, <2>4, <3>1, <3>2 DEF SummaryInv, Summarised, Current
  <2> QED
    BY <2>3, <2>4
<1> QED
  BY <1>1, TypeCorrect, WalkHolds, ReportHolds, EndHolds, SummaryHolds, SequencedStays, PTL
-----------------------------------------------------------------------------
(***************************************************************************)
(* What the repair agent can mend, it mends.                               *)
(***************************************************************************)
(* No validated snapshot of the board has the summary that was written     *)
(* after it.                                                               *)
SnapInv == bundle["summary"] = Absent =>
  /\ board["summary"] <= 1 + reports
  /\ kept["summary"] = Absent
  /\ \A b \in validated : b["summary"] <= reports

(* The invariant of the fingerprint.                                       *)
LEMMA SnapHolds == Spec => []SnapInv
<1>1. Init => SnapInv
  BY DEF Init, SnapInv, Nothing, Absent, File, DocFiles
<1>2. TypeOK /\ WalkInv /\ RoleInv /\ WriteInv /\ SnapInv /\ [Next]_vars => SnapInv'
  <2> SUFFICES ASSUME TypeOK, WalkInv, RoleInv, WriteInv, SnapInv, [Next]_vars,
                      bundle["summary"] = Absent
               PROVE  SnapInv'
    BY RequestKept DEF SnapInv, bundle
  <2>0. "summary" \in File /\ "summary" \in DocFiles /\ Absent = 0 /\ reports \in Nat
        /\ board["summary"] \in Nat
    BY DEF File, DocFiles, Absent, TypeOK, Folder
  <2>1. ASSUME NEW t \in Id, Thread(t) PROVE SnapInv'
    <3>1. CASE PublishReport(t)
      <4>1. /\ reports' = reports + 1 /\ validated' \in {{}, {board}} /\ board' = board /\ kept' = kept
        BY <3>1 DEF PublishReport, Fingerprint
      <4> QED
        BY <2>0, <4>1 DEF SnapInv
    <3>2. CASE ~PublishReport(t)
      <4>1. reports' = reports /\ validated' = validated
        <5>1. CASE pc[t] \notin Inside
          BY <2>1, <5>1, OutsideStep
        <5>2. CASE pc[t] \in Inside
          BY <2>1, <3>2, <5>2, InsideStep
          DEF Act, ActDesign, ActImpact, ActCode, ActTests, ActDocs, Write, Fix, Examine,
              FilterDocs,
              AssignDocs, MergeSummary
        <5> QED
          BY <5>1, <5>2
      <4>2. /\ kept' = kept \/ kept'["summary"] = Absent
            /\ board'["summary"] \in {board["summary"], kept["summary"], 1 + reports}
        <5>1. CASE pc[t] \notin Inside
          BY <2>1, <5>1, OutsideStep
        <5>2. CASE pc[t] \in Inside
          <6>1. Act(t)
            BY <2>1, <5>2, InsideStep
          <6>2. CASE ActDesign(t) \/ ActImpact(t) \/ Write(t) \/ Examine(t)
            BY <6>2 DEF ActDesign, ActImpact, Write, Examine
          <6>3. CASE ActCode(t) \/ ActTests(t) \/ Fix(t)
            <7>1. "summary" \notin Owned(Cat(t)) /\ kept' = kept
              BY <6>3 DEF ActCode, ActTests, Fix, Acting, Owned, Work, CodeFiles, TestFiles
            <7>2. board'["summary"] = board["summary"]
              <8>1. CASE ActCode(t)
                <9>1. CASE ChangeMode
                  BY <2>0, <8>1, <9>1, Proposed DEF ActCode, Work
                <9>2. CASE ~ChangeMode
                  BY <2>0, <8>1, <9>2, Generated DEF ActCode, CodeFiles, File
                <9> QED
                  BY <9>1, <9>2
              <8>2. CASE ActTests(t)
                BY <2>0, <8>2, Generated DEF ActTests, TestFiles, File
              <8>3. CASE Fix(t)
                BY <2>0, <8>3 DEF Fix, Merge, Part, Has, Absent
              <8> QED
                BY <6>3, <8>1, <8>2, <8>3
            <7> QED
              BY <7>1, <7>2
          <6>4. CASE ActDocs(t)
            <7>1. kept' = kept
              BY <6>4 DEF ActDocs
            <7>2. board' = board \/ board' = Merge(board, Part(bundle, DocFiles))
              BY <6>4 DEF ActDocs, Publishes, Raises
            <7>3. ~Has(Part(bundle, DocFiles), "summary")
              BY <2>0 DEF Part, Has
            <7> QED
              BY <2>0, <7>1, <7>2, <7>3 DEF Merge
          <6>5. CASE FilterDocs(t)
            BY <2>0, <6>5 DEF FilterDocs, OtherDocs, Part
          <6>6. CASE AssignDocs(t)
            BY <2>0, <6>6 DEF AssignDocs, Nothing
          <6>7. CASE MergeSummary(t)
            BY <2>0, <6>7 DEF MergeSummary, Publishes, Merge, SummaryText, Has
          <6> QED
            BY <3>2, <6>1, <6>2, <6>3, <6>4, <6>5, <6>6, <6>7 DEF Act
        <5> QED
          BY <5>1, <5>2
      <4> QED
        BY <2>0, <4>1, <4>2 DEF SnapInv
    <3> QED
      BY <3>1, <3>2
  <2>2. CASE Main
    BY <2>2, MainStep DEF SnapInv
  <2>3. CASE Returned \/ UNCHANGED vars
    BY <2>3 DEF Returned, vars, SnapInv
  <2> QED
    BY <2>1, <2>2, <2>3 DEF Next
<1> QED
  BY <1>1, <1>2, TypeCorrect, WalkHolds, RoleHolds, WriteHolds, PTL DEF Spec

(* From the end of the plan's walk on there is a report.                   *)
LEMMA ReportedLate ==
  ASSUME WalkInv, ReportInv, phase \in Late
  PROVE  report # Unreported
<1>1. PICK v \in plan.tasks : plan.cat[v] = "validate"
  BY TasksAssumption, PlanIsValid DEF WalkInv, ValidPlan
<1>2. v \in Id /\ Cat(v) = "validate"
  BY <1>1, TasksAssumption, PlanIsValid DEF WalkInv, ValidPlan, Plan, Id, Cat
<1>3. pc[v] \in Settled
  BY DEF WalkInv
<1> QED
  BY <1>2, <1>3 DEF ReportInv, Settled, Optional

(* Nothing is left to repair about a file.                                 *)
Fixed(f) == Has(board, f) /\ Has(disk, f)

(* A repair round leaves nothing repairable behind: the fixes reach board  *)
(* and folder, the validator finds them, and no old report is reused.      *)
MendInv == Sequenced(plan) /\ bundle["summary"] = Absent =>
  /\ pc["repair"] = "act" =>
       /\ Contract \in report => Has(due["repair"], "api") \/ Fixed("api")
       /\ Documents \in report => Has(due["repair"], "readme") \/ Fixed("readme")
  /\ phase = "mend" /\ pc["repair"] = "ok" => (HasApi => Has(Checked, "api")) /\ Documented
  /\ phase = "mend" /\ pc["revalidate"] # "ok" => Current \/ validated = {}
  /\ round > 0 /\ pc["repair"] = "ok" /\ pc["revalidate"] = "ok" => report \cap Repairable = {}

(* The contract check, and what is repairable.                             *)
LEMMA ContractCheck ==
  ASSUME NEW b, NEW o, NEW hasApi, NEW mode
  PROVE  Contract \in Failures(b, o, hasApi, mode) <=> hasApi /\ ~Has(o, "api")
BY DEF Failures, Check, Contract

(* The checks a report can fail while all it fails is repairable.           *)
LEMMA RepairableChecks ==
  ASSUME NEW r PROVE r \cap Repairable = {} <=> Contract \notin r /\ Documents \notin r
BY DEF Repairable, Contract, Documents

(* The files of a finding that is listed or fixed.                         *)
LEMMA FixedIsChecked ==
  ASSUME NEW f \in {"api", "readme"}, Fixed(f)
  PROVE  Has(Checked, f)
<1>1. f \in File /\ f \in Work
  BY DEF File, Work, CodeFiles, TestFiles, DocFiles
<1> QED
  BY <1>1 DEF Fixed, Checked, Overlay, Merge, Part, Has

(* With both files in place no repairable check fails.                     *)
LEMMA NothingLeft ==
  ASSUME WalkInv, ReportInv, TruthInv, Sequenced(plan), phase = "mend",
         Contract \in report => Fixed("api"), Documents \in report => Fixed("readme")
  PROVE  (HasApi => Has(Checked, "api")) /\ Documented
<1>1. report # Unreported
  BY ReportedLate DEF Late
<1>2. HasApi => Has(Checked, "api")
  <2>1. CASE Contract \in report
    BY <2>1, FixedIsChecked
  <2>2. CASE Contract \notin report
    <3>1. Contract # Documents
      BY DEF Contract, Documents
    <3>2. Contract \notin Failures(board, Checked, HasApi, loaded)
      BY <1>1, <2>2, <3>1 DEF TruthInv
    <3> QED
      BY <3>2, ContractCheck
  <2> QED
    BY <2>1, <2>2
<1>3. Documented
  BY <1>1 DEF TruthInv, Documented, Fixed, HasAny
<1> QED
  BY <1>2, <1>3

(* The invariant of the repair rounds.                                     *)
LEMMA MendHolds == Spec => []MendInv
<1>1. Init => MendInv
  BY DEF Init, MendInv, LoopTask, Id
<1>2. TypeOK /\ WalkInv /\ LockInv /\ ReportInv /\ RoleInv /\ WriteInv /\ TruthInv /\ EndInv
      /\ SummaryInv /\ SnapInv /\ MendInv /\ [Next]_vars => MendInv'
  <2> SUFFICES ASSUME TypeOK, WalkInv, LockInv, ReportInv, RoleInv, WriteInv, TruthInv, EndInv,
                      SummaryInv, SnapInv, MendInv, [Next]_vars,
                      Sequenced(plan), bundle["summary"] = Absent
               PROVE  MendInv'
    BY RequestKept DEF MendInv, bundle
  <2>0. /\ request' = request /\ {"repair", "revalidate", "resummary"} = LoopTask /\ LoopTask \subseteq Id
        /\ Cat("repair") = "repair" /\ Cat("revalidate") = "validate" /\ Cat("resummary") = "summary"
    BY RequestKept DEF LoopTask, Id, Cat, LoopCat
  <2>1. ASSUME NEW t \in Id, Thread(t) PROVE MendInv'
    <3>0. /\ pc[t] \in Running /\ \A u \in Id \ {t} : pc'[u] = pc[u] /\ due'[u] = due[u]
          /\ round' = round /\ phase' = phase /\ Walking
      BY <2>1, ThreadStep, DueStep DEF WalkInv
    <3>1. CASE t \notin LoopTask
      <4>1. phase = "execute"
        BY <3>0, <3>1, Runners
      <4>2. round = 0 /\ pc'["repair"] = "todo"
        BY <2>0, <3>0, <3>1, <4>1 DEF EndInv, WalkInv, Early
      <4> QED
        BY <3>0, <4>1, <4>2 DEF MendInv
    <3>2. CASE t = "repair"
      <4>1. phase = "mend" /\ pc["revalidate"] = "todo" /\ pc'["revalidate"] = "todo"
        BY <2>0, <3>0, <3>2, Repairing
      <4>2. board'["summary"] = board["summary"]
        <5>1. "summary" \in Steady /\ "summary" \notin Owned("repair")
          BY DEF Steady, File, DocFiles, Owned
        <5> QED
          BY <2>0, <2>1, <3>2, <5>1, BoardStep
      <4>3. /\ UNCHANGED <<report, validated, reports>>
            /\ \/ pc[t] # "act" /\ pc'[t] \in {"attempt", "enter", "raised", "degraded", "failed"}
               \/ Enter(t)
               \/ Fix(t)
        <5>1. CASE pc[t] \notin Inside
          BY <2>1, <5>1, OutsideStep DEF Attempt, Handle, Goto, TypeOK, Inside
        <5>2. CASE pc[t] \in Inside
          <6>1. Fix(t)
            BY <2>0, <2>1, <3>2, <5>2, InsideStep, ActsByRole
          <6> QED
            BY <6>1 DEF Fix
        <5> QED
          BY <5>1, <5>2
      <4>4. Current' = Current
        BY <4>2, <4>3 DEF Current
      <4>5. ASSUME pc'["repair"] = "act"
            PROVE  /\ Contract \in report' => Has(due'["repair"], "api") \/ Fixed("api")'
                   /\ Documents \in report' => Has(due'["repair"], "readme") \/ Fixed("readme")'
        <5>1. CASE Enter(t)
          <6>1. due'["repair"] = Fixes
            BY <2>0, <3>2, <4>5, <5>1 DEF Enter, Goto, TypeOK
          <6>2. /\ Contract \in report => Has(Fixes, "api")
                /\ Documents \in report => Has(Fixes, "readme")
            <7>1. "api" \in File /\ "readme" \in File
              BY DEF File, CodeFiles, DocFiles
            <7>2. Contract \in report => Fixes["api"] = Synthesized
              BY <7>1, Zenon DEF Fixes, Contract
            <7>3. Documents \in report => Fixes["readme"] = Synthesized
              BY <7>1, Zenon DEF Fixes, Documents
            <7>4. Synthesized # Absent
              BY DEF Synthesized, Absent
            <7> QED
              BY <7>2, <7>3, <7>4 DEF Has
          <6> QED
            BY <4>3, <6>1, <6>2
        <5>2. CASE Fix(t)
          <6>1. PICK f \in {"api", "readme"} :
                  /\ Has(due[t], f) /\ pc[t] = "act"
                  /\ board' = Merge(board, Part(due[t], {f})) /\ disk' = Merge(disk, Part(due[t], {f}))
                  /\ due' = [due EXCEPT ![t] = [@ EXCEPT ![f] = Absent]]
            BY <2>0, <3>2, <4>5, <5>2 DEF Fix, Acting, Goto, TypeOK
          <6>2. "api" \in File /\ "readme" \in File
            BY DEF File, CodeFiles, DocFiles
          <6>3. Has(board', f) /\ Has(disk', f)
            BY <6>1, <6>2 DEF Merge, Part, Has, Absent
          <6>4. \A g \in {"api", "readme"} :
                  /\ Has(board, g) => Has(board', g)
                  /\ Has(disk, g) => Has(disk', g)
                  /\ g # f /\ Has(due[t], g) => Has(due'[t], g)
            BY <6>1, <6>2 DEF Merge, Part, Has, TypeOK, Folder
          <6> QED
            BY <2>0, <3>2, <4>3, <6>1, <6>3, <6>4 DEF MendInv, Fixed
        <5> QED
          BY <3>2, <4>3, <4>5, <5>1, <5>2
      <4>6. ASSUME pc'["repair"] = "ok"
            PROVE  (HasApi => Has(Checked, "api"))' /\ Documented'
        <5>1. CASE Enter(t)
          <6>1. report \cap Repairable = {}
            BY <2>0, <3>2, <4>6, <5>1 DEF Enter, Goto, TypeOK, Reuses, Refuses
          <6>2. (HasApi => Has(Checked, "api")) /\ Documented
            BY <4>1, <6>1, NothingLeft, RepairableChecks
          <6> QED
            BY <2>0, <2>1, <3>2, <6>2, LateStep, DocumentedStays DEF HasApi
        <5>2. CASE Fix(t)
          <6>1. PICK f \in {"api", "readme"} :
                  /\ Has(due[t], f) /\ pc[t] = "act"
                  /\ board' = Merge(board, Part(due[t], {f})) /\ disk' = Merge(disk, Part(due[t], {f}))
                  /\ [due[t] EXCEPT ![f] = Absent] = Nothing
                  /\ UNCHANGED <<design, loaded, request>>
            BY <2>0, <3>2, <4>6, <5>2 DEF Fix, Acting, Goto, TypeOK
          <6>2. "api" \in File /\ "readme" \in File
            BY DEF File, CodeFiles, DocFiles
          <6>3. Has(board', f) /\ Has(disk', f)
            BY <6>1, <6>2 DEF Merge, Part, Has, Absent
          <6>4. \A g \in {"api", "readme"} :
                  /\ Has(board, g) => Has(board', g)
                  /\ Has(disk, g) => Has(disk', g)
                  /\ g # f => ~Has(due[t], g)
            BY <6>1, <6>2 DEF Merge, Part, Has, TypeOK, Folder, Nothing
          <6>5. /\ Contract \in report => Fixed("api")'
                /\ Documents \in report => Fixed("readme")'
            BY <3>2, <6>1, <6>3, <6>4 DEF MendInv, Fixed
          <6>6. ASSUME HasApi' PROVE Has(Checked', "api")
            <7>1. CASE Contract \in report
              <8>1. Fixed("api")' => Has(Checked, "api")'
                BY <6>2 DEF Fixed, Checked, Overlay, Merge, Part, Has, Work
              <8> QED
                BY <6>5, <7>1, <8>1
            <7>2. CASE Contract \notin report
              <8>1. Contract # Documents /\ report # Unreported
                BY <4>1, ReportedLate DEF Contract, Documents, Late
              <8>2. Contract \notin Failures(board, Checked, HasApi, loaded)
                BY <7>2, <8>1 DEF TruthInv
              <8>3. HasApi' = HasApi
                BY <6>1 DEF HasApi
              <8> QED
                BY <2>0, <2>1, <3>2, <6>6, <8>2, <8>3, ContractCheck, LateStep
            <7> QED
              BY <7>1, <7>2
          <6>7. Documented'
            <7>1. CASE Documents \in report
              BY <6>5, <7>1 DEF Fixed, Documented, HasAny
            <7>2. CASE Documents \notin report
              <8>1. Documented
                BY <4>1, <7>2, ReportedLate DEF TruthInv, Late
              <8> QED
                BY <2>0, <2>1, <3>2, <8>1, DocumentedStays
            <7> QED
              BY <7>1, <7>2
          <6> QED
            BY <6>6, <6>7
        <5> QED
          BY <3>2, <4>3, <4>6, <5>1, <5>2
      <4> QED
        BY <3>0, <4>1, <4>3, <4>4, <4>5, <4>6 DEF MendInv
    <3>3. CASE t = "revalidate"
      <4>1. phase = "mend" /\ pc["repair"] \in Settled /\ pc'["repair"] = pc["repair"]
        BY <2>0, <3>0, <3>3, Runners, RoundOrder DEF Settled, Running, Inside
      <4>2. pc["repair"] = "ok" => (HasApi => Has(Checked, "api"))' /\ Documented'
        BY <2>0, <2>1, <3>3, <4>1, LateStep, DocumentedStays DEF MendInv, Aside, HasApi
      <4>3. board' = board
        <5>1. Cat(t) = "validate"
          BY <2>0, <3>3
        <5> QED
          BY <2>1, <5>1, OutsideStep, InsideStep, ActsByRole DEF Examine, PublishReport
      <4>4. CASE PublishReport(t)
        <5>1. report' = found /\ (pc'[t] = "ok" \/ validated' = {})
          BY <4>4 DEF PublishReport, Fingerprint, Goto, TypeOK
        <5>2. found = Failures(board, Checked, HasApi, loaded)
          BY <4>4 DEF PublishReport, TruthInv
        <5>3. \A u \in Id : pc[u] # "merge"
          BY <2>0, <3>0, <3>3, Validating DEF RoleInv, Running, Inside
        <5>4. pc["repair"] = "ok" => Contract \notin found /\ Documents \notin found
          BY <4>1, <5>2, <5>3, ContractCheck, DocumentationCheck DEF MendInv, Documented
        <5>5. pc["repair"] = "ok" => report' \cap Repairable = {}
          BY <5>1, <5>4, RepairableChecks
        <5> QED
          BY <3>0, <3>3, <4>1, <4>2, <5>1, <5>5 DEF MendInv, Settled
      <4>5. CASE ~PublishReport(t)
        <5>1. UNCHANGED <<report, validated, reports>>
          BY <2>0, <2>1, <3>3, <4>5, OutsideStep, InsideStep, ActsByRole DEF Examine
        <5>2. Current' = Current
          BY <4>3, <5>1 DEF Current
        <5>3. pc[t] # "ok" /\ pc'[t] # "ok"
          <6>1. CASE Enter(t) /\ pc'[t] = "ok"
            <7>1. board \in validated
              BY <2>0, <3>3, <6>1 DEF Enter, Goto, TypeOK, Reuses, Refuses
            <7>2. Current
              BY <3>3, <4>1, <6>1, <7>1 DEF MendInv, Enter
            <7>3. board["summary"] <= reports
              BY <7>1 DEF SnapInv
            <7> QED
              BY <7>2, <7>3 DEF Current, TypeOK
          <6>2. pc[t] # "ok"
            BY <3>0 DEF Running, Inside
          <6>3. CASE pc[t] \notin Inside
            BY <2>1, <6>1, <6>2, <6>3, OutsideStep DEF Attempt, Handle, Goto, TypeOK
          <6>4. CASE pc[t] \in Inside
            <7>1. Examine(t)
              BY <2>0, <2>1, <3>3, <4>5, <6>4, InsideStep, ActsByRole
            <7> QED
              BY <6>2, <7>1 DEF Examine, Goto, TypeOK
          <6> QED
            BY <6>3, <6>4
        <5> QED
          BY <3>0, <3>3, <4>1, <4>2, <5>1, <5>2, <5>3 DEF MendInv, Settled
      <4> QED
        BY <4>4, <4>5
    <3>4. CASE t = "resummary"
      <4>1. /\ phase = "mend" /\ pc["repair"] \in Settled /\ pc'["repair"] = pc["repair"]
            /\ pc'["revalidate"] = "ok" /\ pc["revalidate"] = "ok"
        BY <2>0, <3>0, <3>4, Summarising, Runners DEF ReportInv, Optional, Settled
      <4>2. pc["repair"] = "ok" => (HasApi => Has(Checked, "api"))' /\ Documented'
        BY <2>0, <2>1, <3>4, <4>1, LateStep, DocumentedStays DEF MendInv, Aside, HasApi
      <4>3. report' = report
        <5>1. Cat(t) = "summary"
          BY <2>0, <3>4
        <5> QED
          BY <2>1, <5>1, OutsideStep, InsideStep, ActsByRole
          DEF FilterDocs, AssignDocs, MergeSummary, Write
      <4> QED
        BY <3>0, <4>1, <4>2, <4>3 DEF MendInv, Settled
    <3> QED
      BY <2>0, <3>1, <3>2, <3>3, <3>4
  <2>2. CASE BeginRepair
    <3>1. /\ pc'["repair"] = "todo" /\ pc'["revalidate"] = "todo" /\ board' = board /\ reports' = reports
          /\ phase = "repair" /\ report' = report
      BY <2>0, <2>2 DEF BeginRepair, TypeOK
    <3>2. \A t \in Id : Cat(t) = "summary" /\ pc[t] \in Settled => pc[t] = "ok"
      BY DEF ReportInv, Settled, Optional
    <3>3. Summarised
      <4>1. CASE round = 0
        <5>1. PICK s \in plan.tasks : plan.cat[s] = "summary"
          BY DEF Sequenced
        <5>2. s \in Id /\ Cat(s) = "summary"
          BY <5>1, TasksAssumption, PlanIsValid DEF WalkInv, ValidPlan, Plan, Id, Cat
        <5> QED
          BY <3>1, <3>2, <4>1, <5>2 DEF EndInv, Summarised
      <4>2. CASE round # 0
        BY <2>0, <3>1, <3>2, <4>2 DEF EndInv, Summarised, TypeOK
      <4> QED
        BY <4>1, <4>2
    <3>4. \A t \in Id : pc[t] # "merge"
      BY <3>1 DEF WalkInv, Walking, Running, Inside
    <3>5. Current'
      BY <3>1, <3>3, <3>4 DEF SummaryInv, Current
    <3> QED
      BY <3>1, <3>5 DEF MendInv
  <2>3. CASE Main /\ ~BeginRepair
    <3>1. /\ UNCHANGED <<board, disk, loaded, design, report, reports, validated, due>>
          /\ \A u \in Id : pc'[u] = pc[u] \/ (pc[u] = "todo" /\ pc'[u] = "attempt")
          /\ round' = round /\ (phase' = "mend" => phase = "mend")
      <4>1. CASE EnterLevel \/ (\E t \in Id : RunNext(t))
        BY <4>1 DEF EnterLevel, RunNext, Ready, TypeOK
      <4> QED
        BY <2>3, <4>1 DEF Main, Bootstrap, AskIfBlocked, ApprovePlan, HaltLevel, FinishWalk,
                          SkipRepair, Accept, End
    <3>2. /\ Checked' = Checked /\ HasApi' = HasApi /\ Current' = Current
          /\ \A f : Fixed(f)' = Fixed(f)
          /\ Documented => Documented'
      BY <2>0, <3>1 DEF Checked, Overlay, HasApi, Current, Fixed, Documented
    <3> QED
      BY <2>0, <3>1, <3>2 DEF MendInv
  <2>4. CASE Returned \/ UNCHANGED vars
    <3>1. UNCHANGED <<request, phase, round, board, disk, loaded, design, report, reports, validated,
                      due, pc>>
      BY <2>4 DEF Returned, vars
    <3>2. /\ Checked' = Checked /\ HasApi' = HasApi /\ Current' = Current
          /\ \A f : Fixed(f)' = Fixed(f)
          /\ Documented' = Documented
      BY <3>1 DEF Checked, Overlay, HasApi, Current, Fixed, Documented
    <3> QED
      BY <3>1, <3>2 DEF MendInv
  <2> QED
    BY <2>1, <2>2, <2>3, <2>4 DEF Next, Main
<1> QED
  BY <1>1, <1>2, TypeCorrect, WalkHolds, LockHolds, ReportHolds, RoleHolds, WriteHolds, TruthHolds,
     EndHolds, SummaryHolds, SnapHolds, PTL DEF Spec

(* Why an autonomous run is turned down.                                   *)
RejectInv == bundle["summary"] = Absent /\ Sequenced(plan) => RepairableNeverRejects

(* As long as a repair round is allowed, an autonomous run whose plan is   *)
(* sequenced is never turned down for what the repair agent can fix.  (The *)
(* summary is the summary agent's alone: the provider authors none.)       *)
THEOREM RepairableIsRepaired ==
  ASSUME MaxRepair > 0
  PROVE  Spec /\ Sequenced(plan) /\ bundle["summary"] = Absent => []RepairableNeverRejects
<1>1. Init => RejectInv
  BY DEF Init, RejectInv, RepairableNeverRejects
<1>2. TypeOK /\ WalkInv /\ ReportInv /\ EndInv /\ MendInv /\ RejectInv /\ [Next]_vars => RejectInv'
  <2> SUFFICES ASSUME TypeOK, WalkInv, ReportInv, EndInv, MendInv, RejectInv, [Next]_vars,
                      Sequenced(plan), bundle["summary"] = Absent
               PROVE  RepairableNeverRejects'
    BY RequestKept DEF RejectInv, bundle
  <2>0. request' = request
    BY RequestKept
  <2>1. CASE outcome # "none"
    <3>1. UNCHANGED <<outcome, pc, report>>
      <4>1. ~(\E t \in Id : Thread(t))
        BY <2>1, ThreadStep DEF WalkInv, Walking
      <4>2. ~Main
        BY <2>1 DEF WalkInv, Walking, Main, Bootstrap, AskIfBlocked, ApprovePlan, EnterLevel,
           RunNext,
                    HaltLevel, FinishWalk, BeginRepair, SkipRepair, Accept
      <4> QED
        BY <4>1, <4>2 DEF Next, Returned, vars
    <3> QED
      BY <2>0, <3>1 DEF RejectInv, RepairableNeverRejects
  <2>2. CASE Accept
    <3>1. UNCHANGED <<pc, report>> /\ phase = "accept"
      BY <2>2 DEF Accept
    <3>2. ASSUME ~Interactive, outcome' = "rejected", pc["repair"] # "degraded"
          PROVE  report \ Repairable # {}
      <4>1. report # {} /\ report # Unreported
        BY <2>2, <3>2 DEF Accept, MustRefuse, Answers, End
      <4>2. CASE report \cap Repairable = {}
        BY <4>1, <4>2
      <4>3. CASE report \cap Repairable # {}
        <5>1. round > 0
          BY <3>1, <4>1, <4>3, ConfigAssumption DEF EndInv, NeedsRepair, TypeOK
        <5>2. {"repair", "revalidate"} \subseteq LoopTask /\ LoopTask \subseteq Id
              /\ Cat("revalidate") = "validate"
          BY DEF LoopTask, Id, Cat, LoopCat
        <5>3. pc["repair"] = "ok" /\ pc["revalidate"] = "ok"
          BY <3>1, <3>2, <5>1, <5>2 DEF EndInv, ReportInv, Settled, Optional
        <5> QED
          BY <4>3, <5>1, <5>3 DEF MendInv
      <4> QED
        BY <4>2, <4>3
    <3> QED
      BY <2>0, <3>1, <3>2 DEF RepairableNeverRejects
  <2>3. CASE outcome = "none" /\ ~Accept
    <3>1. outcome' = "rejected" => report' = report /\ pc' = pc /\ ~Walking /\ Interactive
      <4>1. CASE Main
        BY <2>3, <4>1 DEF Main, Bootstrap, AskIfBlocked, ApprovePlan, EnterLevel, RunNext,
                    HaltLevel, FinishWalk, BeginRepair, SkipRepair, Accept, End, Answers, WalkInv,
                    Walking
      <4>2. ASSUME NEW t \in Id, Thread(t) PROVE outcome' = outcome
        BY <4>2, ThreadStep
      <4> QED
        BY <2>3, <4>1, <4>2 DEF Next, Returned, vars
    <3> QED
      BY <2>0, <3>1 DEF RepairableNeverRejects
  <2> QED
    BY <2>1, <2>2, <2>3 DEF WalkInv
<1>3. bundle["summary"] = Absent /\ [Next]_vars => (bundle["summary"] = Absent)'
  BY RequestKept DEF bundle
<1>4. RejectInv /\ Sequenced(plan) /\ bundle["summary"] = Absent => RepairableNeverRejects
  BY DEF RejectInv
<1> QED
  BY <1>1, <1>2, <1>3, <1>4, TypeCorrect, WalkHolds, ReportHolds, EndHolds, MendHolds,
     SequencedStays,
     PTL DEF Spec
-----------------------------------------------------------------------------
(***************************************************************************)
(* A benign run never exhausts a required task.                            *)
(***************************************************************************)
(* A run that OrderedPlansComplete speaks of, on an ordered plan.          *)
Meets == Benign /\ InOrder("design", "code") /\ InOrder("code", "tests") /\ Ordered(plan)

(* What an attempt has cost of its category's faults.                      *)
Spent(t) == tries[t] + (IF pc[t] = "raised" THEN 1 ELSE 0)

(* Nothing but an injected fault makes a required task of such a run raise, *)
(* and each costs one of the category's faults.                            *)
BenignInv == Meets =>
  /\ outcome # "exhausted"
  /\ \A c \in Category : faults[c] <= request.faults[c]
  /\ \A t \in Id : pc[t] # "failed"
  /\ \A t \in Id : Cat(t) \notin Optional /\ pc[t] # "todo" =>
       Spent(t) + faults[Cat(t)] <= request.faults[Cat(t)] + 1
  /\ \A t \in Id : Cat(t) = "design" /\ pc[t] = "ok" => design # 0
  /\ ~ChangeMode => \A t \in Id : Cat(t) = "code" /\ pc[t] \in {"write", "ok"} => HasCode
  /\ \A f \in PyFiles : Has(board, f) => board[f] \notin Broken
  /\ Compiles \notin found

(* In an ordered plan nothing is written while a task validates.           *)
LEMMA ValidatingAlone ==
  ASSUME WalkInv, Ordered(plan), NEW t \in Id, pc[t] \in Running, Cat(t) = "validate",
         NEW u \in Id, pc[u] \in Running
  PROVE  Cat(u) \in Aside
<1>1. Settled \cap Running = {} /\ "todo" \notin Running \cup Settled
  BY DEF Settled, Running, Inside
<1>2. CASE phase = "execute"
  <2>1. t \in plan.tasks /\ u \in plan.tasks /\ plan.cat[t] = "validate" /\ Cat(u) = plan.cat[u]
    BY <1>2, Runners
  <2> QED
    BY <1>1, <2>1, AncestorsSettled DEF Ordered
<1>3. CASE phase = "mend"
  <2>1. t = "revalidate" /\ u \in LoopTask /\ Cat(u) = LoopCat[u]
    BY <1>3, Runners DEF LoopTask, LoopCat
  <2>2. pc["repair"] \in Settled
    BY <1>1, <2>1, RoundOrder
  <2> QED
    BY <1>1, <2>1, <2>2 DEF LoopTask, LoopCat, Aside
<1> QED
  BY <1>2, <1>3, Runners

(* The design before the code, the code before the tests.                  *)
LEMMA InputsThere ==
  ASSUME TypeOK, WalkInv, ReportInv, BenignInv, Meets, NEW t \in Id, pc[t] # "todo",
         t \in plan.tasks
  PROVE  /\ Cat(t) \in {"code", "tests"} => design # 0
         /\ Cat(t) = "tests" /\ ~ChangeMode => HasCode
<1>0. plan.tasks \subseteq Id /\ \A u \in plan.tasks : Cat(u) = plan.cat[u]
  BY TasksAssumption, PlanIsValid DEF WalkInv, ValidPlan, Plan, Id, Cat
<1>1. \A u \in plan.tasks : \A d \in Ancestors(plan.tasks, plan.dep, u) : d \in plan.tasks
  BY DEF Ancestors
<1>2. ASSUME NEW u \in plan.tasks, pc[u] # "todo",
             NEW d \in Ancestors(plan.tasks, plan.dep, u), Cat(d) \in {"design", "code"}
      PROVE  pc[d] = "ok"
  BY <1>0, <1>1, <1>2, AncestorsSettled DEF ReportInv, Settled, Optional
<1>3. ASSUME NEW c \in plan.tasks, Cat(c) = "code", pc[c] # "todo" PROVE design # 0
  <2>1. PICK d \in Ancestors(plan.tasks, plan.dep, c) : plan.cat[d] = "design"
    BY <1>0, <1>3 DEF Meets, InOrder
  <2> QED
    BY <1>0, <1>1, <1>2, <1>3, <2>1 DEF BenignInv
<1>4. ASSUME Cat(t) = "tests" PROVE design # 0 /\ (~ChangeMode => HasCode)
  <2>1. PICK c \in Ancestors(plan.tasks, plan.dep, t) : plan.cat[c] = "code"
    BY <1>0, <1>4 DEF Meets, InOrder
  <2>2. c \in plan.tasks /\ Cat(c) = "code" /\ pc[c] = "ok"
    BY <1>0, <1>1, <1>2, <2>1
  <2> QED
    BY <1>0, <1>3, <2>2 DEF BenignInv
<1> QED
  BY <1>3, <1>4

(* What the validator looks at is there and, code from such a provider,    *)
(* compiles.                                                               *)
LEMMA ExaminedCompiles ==
  ASSUME TypeOK, WalkInv, RoleInv, WriteInv, DiskInv, LoadInv, BenignInv, Meets,
         NEW t \in Id, pc[t] \in Running, Cat(t) = "validate"
  PROVE  Readable(board, Checked) /\ Compiles \notin Failures(board, Checked, HasApi, loaded)
<1>1. ASSUME NEW f \in PyFiles, Has(board, f) PROVE Checked[f] = board[f]
  <2>1. f \in File /\ f \in Work /\ f \in Steady /\ f # "summary"
    BY DEF PyFiles, File, Work, CodeFiles, TestFiles, DocFiles, Steady
  <2>2. CASE loaded
    BY <1>1, <2>1, <2>2 DEF Checked, Overlay, Merge, Part, Has
  <2>3. CASE ~loaded
    <3>1. ~ChangeMode
      BY <1>1, <2>3 DEF LoadInv, HasAny
    <3>2. ~Being(f)
      <4>1. \A u \in Id : pc[u] = "write" => f \notin Owned(Cat(u))
        BY ValidatingAlone DEF Meets, Aside, Owned, Running, Inside, PyFiles
      <4> QED
        BY <2>1, <4>1 DEF Being, WriteInv
    <3>3. board[f] = disk[f]
      BY <2>1, <3>2 DEF DiskInv, Meets, Benign
    <3> QED
      BY <2>3, <3>3 DEF Checked
  <2> QED
    BY <2>2, <2>3
<1>2. Readable(board, Checked)
  BY <1>1 DEF Readable, Has
<1>3. ~\E f \in PyFiles : Has(board, f) /\ Checked[f] \in Broken
  BY <1>1 DEF BenignInv
<1> QED
  BY <1>2, <1>3 DEF Failures, Compiles

(* A required task of such a run raises on an injected fault only.         *)
LEMMA BenignStep ==
  ASSUME TypeOK, WalkInv, ReportInv, LockInv, RoleInv, WriteInv, DiskInv, LoadInv, BenignInv, Meets,
         NEW t \in Id, Thread(t), Cat(t) \notin Optional
  PROVE  \/ pc[t] = "attempt" /\ Attempt(t)
         \/ pc[t] = "raised" /\ Handle(t)
         \/ /\ pc[t] # "raised" /\ pc'[t] \notin {"todo", "raised", "failed"}
            /\ UNCHANGED <<tries, faults>>
<1> USE DEF TypeOK, Goto
<1>0. pc[t] \in Running
  BY ThreadStep
<1>1. Cat(t) \in {"code", "tests"} => design # 0 /\ t \in plan.tasks
  BY <1>0, InputsThere, Runners DEF LoopCat, LoopTask, Running, Inside
<1>2. CASE Enter(t)
  <2>1. ~Refuses(Cat(t))
    BY <1>0, <1>1, InputsThere DEF Refuses, Running, Inside
  <2> QED
    BY <1>2, <2>1 DEF Enter
<1>3. CASE pc[t] \in Inside
  <2>1. Act(t) /\ UNCHANGED <<tries, faults>> /\ pc[t] # "raised"
    BY <1>3, InsideStep DEF Inside
  <2>2. CASE ActDesign(t) \/ ActImpact(t) \/ FilterDocs(t) \/ AssignDocs(t) \/ MergeSummary(t)
    BY <2>1, <2>2 DEF ActDesign, ActImpact, FilterDocs, AssignDocs, MergeSummary, Publishes
  <2>3. CASE ActCode(t) \/ ActTests(t)
    <3>1. design # 0 /\ (ActTests(t) => ~ChangeMode)
      BY <1>1, <1>3, <2>3 DEF ActCode, ActTests, Acting, RoleInv
    <3>2. ~ChangeMode => Part(bundle, CodeFiles) # Nothing /\ Part(bundle, TestFiles) # Nothing
      <4>1. ~ChangeMode => bundle["src"] # 0 /\ bundle["suite"] # 0
        BY DEF Meets, Benign, PyFiles, Absent
      <4> QED
        BY <4>1 DEF Part, Nothing, File, CodeFiles, TestFiles, Absent
    <3>3. pc'[t] = "write"
      BY <2>3, <3>1, <3>2 DEF ActCode, ActTests, Generates, Proposes, Publishes
    <3> QED
      BY <2>1, <3>3
  <2>4. CASE Write(t)
    <3>1. writeErrors = 0
      BY DEF DiskInv, Meets, Benign
    <3> QED
      BY <2>1, <2>4, <3>1 DEF Write
  <2>5. CASE Examine(t)
    BY <1>0, <2>1, <2>5, ExaminedCompiles DEF Examine, Acting
  <2>6. CASE PublishReport(t)
    <3>1. Compiles \notin found
      BY DEF BenignInv
    <3>2. Compiles \notin found => pc' = [pc EXCEPT ![t] = "ok"]
      BY <2>6 DEF PublishReport, Compiles
    <3> QED
      BY <2>1, <3>1, <3>2
  <2>7. ~ActDocs(t) /\ ~Fix(t)
    BY DEF ActDocs, Fix, Acting, Optional
  <2> QED
    BY <2>1, <2>2, <2>3, <2>4, <2>5, <2>6, <2>7 DEF Act
<1>4. CASE pc[t] \notin Inside /\ ~Enter(t)
  BY <1>4, OutsideStep
<1> QED
  BY <1>2, <1>3, <1>4

(* What such a run's threads put into the design, the board and the        *)
(* findings.                                                               *)
LEMMA BenignValues ==
  ASSUME TypeOK, WalkInv, RoleInv, WriteInv, DiskInv, LoadInv, BenignInv, Meets,
         NEW t \in Id, Thread(t)
  PROVE  /\ design # 0 => design' # 0
         /\ Cat(t) = "design" /\ pc'[t] = "ok" => design' # 0
         /\ ~ChangeMode /\ HasCode => HasCode'
         /\ ~ChangeMode /\ Cat(t) = "code" /\ pc'[t] \in {"write", "ok"} => HasCode'
         /\ \A f \in PyFiles : Has(board', f) => board'[f] \notin Broken
         /\ Compiles \notin found'
<1> USE DEF TypeOK, Goto
<1>0. /\ Compiles \notin found /\ \A f \in PyFiles : Has(board, f) => board[f] \notin Broken
      /\ \A f \in PyFiles : f \in File
      /\ 0 \notin Designs
  BY ProviderAssumption DEF BenignInv, PyFiles, File, CodeFiles, TestFiles
<1>1. CASE pc[t] \notin Inside
  BY <1>0, <1>1, OutsideStep DEF Attempt, Enter, Handle, Reuses, Refuses, HasCode
<1>2. CASE pc[t] \in Inside
  <2>1. Act(t)
    BY <1>2, InsideStep
  <2>2. CASE ActDesign(t)
    BY <1>0, <2>2 DEF ActDesign, Acting, HasCode
  <2>3. CASE ActImpact(t) \/ PublishReport(t) \/ FilterDocs(t)
    BY <1>0, <2>3 DEF ActImpact, PublishReport, FilterDocs, Acting, HasCode, RoleInv
  <2>4. CASE Examine(t)
    <3>1. Compiles \notin Failures(board, Checked, HasApi, loaded)
      BY <1>2, <2>4, ExaminedCompiles DEF Examine, Acting, Running
    <3> QED
      BY <1>0, <2>4, <3>1 DEF Examine, Acting, HasCode
  <2>5. CASE Write(t)
    <3>1. Cat(t) = "code" /\ ~ChangeMode => HasCode
      BY <2>5 DEF Write, BenignInv
    <3>2. UNCHANGED <<board, design, found>> /\ Cat(t) # "design"
      BY <2>5 DEF Write, RoleInv
    <3> QED
      BY <1>0, <3>1, <3>2 DEF HasCode
  <2>6. CASE ActCode(t)
    <3>1. Cat(t) = "code" /\ UNCHANGED <<design, found>>
      BY <2>6 DEF ActCode, Acting
    <3>2. CASE ChangeMode
      <4>1. \A f \in PyFiles : board'[f] = board[f] \/ board'[f] \notin Broken
        <5>1. Proposes(t)
          BY <2>6, <3>2 DEF ActCode
        <5>2. \A p \in Proposals : \A f \in PyFiles : p[f] \notin Broken
          BY <3>2 DEF Meets, Benign
        <5> QED
          BY <1>0, <5>1, <5>2, Proposed
      <4> QED
        BY <1>0, <3>1, <3>2, <4>1 DEF Has
    <3>3. CASE ~ChangeMode
      <4>1. Generates(t, Part(bundle, CodeFiles)) /\ CodeFiles \subseteq File /\ "src" \in CodeFiles
        BY <2>6, <3>3 DEF ActCode, CodeFiles, File
      <4>2. Has(bundle, "src") /\ \A f \in PyFiles : bundle[f] \notin Broken
        BY <3>3 DEF Meets, Benign, Has, PyFiles
      <4>3. \A f \in PyFiles : board'[f] = board[f] \/ board'[f] = bundle[f]
        BY <1>0, <4>1, Generated
      <4>4. pc'[t] = "write" => board'["src"] = bundle["src"]
        BY <4>1, <4>2, Generated
      <4>5. pc'[t] \in {"write", "raised"}
        BY <4>1, Generated
      <4>6. HasCode => HasCode'
        <5>1. ~AssignDocs(t)
          BY <2>6 DEF ActCode, AssignDocs, Acting
        <5> QED
          BY <4>1, <5>1, BoardGrows DEF HasCode, HasAny
      <4> QED
        BY <1>0, <3>1, <4>1, <4>2, <4>3, <4>4, <4>5, <4>6 DEF Has, HasCode, HasAny
    <3> QED
      BY <3>2, <3>3
  <2>7. CASE ActTests(t)
    <3>1. Cat(t) = "tests" /\ UNCHANGED <<design, found>> /\ ~ChangeMode
          /\ Generates(t, Part(bundle, TestFiles)) /\ TestFiles \subseteq File
      BY <1>2, <2>7 DEF ActTests, Acting, RoleInv, TestFiles, File
    <3>2. \A f \in PyFiles : bundle[f] \notin Broken
      BY <3>1 DEF Meets, Benign
    <3>3. \A f \in PyFiles : board'[f] = board[f] \/ board'[f] = bundle[f]
      BY <1>0, <3>1, Generated
    <3>4. HasCode => HasCode'
      <4>1. ~AssignDocs(t) /\ CodeFiles \subseteq File
        BY <2>7 DEF ActTests, AssignDocs, Acting, CodeFiles, File
      <4> QED
        BY <4>1, BoardGrows DEF HasCode, HasAny
    <3> QED
      BY <1>0, <3>1, <3>2, <3>3, <3>4 DEF Has
  <2>8. CASE ActDocs(t) \/ Fix(t) \/ AssignDocs(t) \/ MergeSummary(t)
    <3>1. UNCHANGED <<design, found>> /\ Cat(t) \notin {"design", "code"}
      BY <2>8 DEF ActDocs, Fix, AssignDocs, MergeSummary, Acting, RoleInv
    <3>2. \A f \in PyFiles : board'[f] = board[f]
      <4>1. \A f \in PyFiles : f \notin Owned(Cat(t)) /\ f \in Steady
        <5>1. Cat(t) \in {"docs", "repair", "summary"}
          BY <2>8 DEF ActDocs, Fix, AssignDocs, MergeSummary, Acting, RoleInv
        <5> QED
          BY <1>0, <5>1 DEF Owned, PyFiles, DocFiles, Steady
      <4> QED
        BY <4>1, BoardStep
    <3>3. HasCode => HasCode'
      <4>1. \A f \in CodeFiles : Has(board, f) => Has(board', f)
        <5>1. CASE AssignDocs(t)
          BY <5>1 DEF AssignDocs, CodeFiles, DocFiles, File, Has
        <5>2. CASE ~AssignDocs(t)
          BY <5>2, BoardGrows DEF CodeFiles, File
        <5> QED
          BY <5>1, <5>2
      <4> QED
        BY <4>1 DEF HasCode, HasAny
    <3> QED
      BY <1>0, <3>1, <3>2, <3>3 DEF Has
  <2> QED
    BY <2>1, <2>2, <2>3, <2>4, <2>5, <2>6, <2>7, <2>8 DEF Act
<1> QED
  BY <1>1, <1>2

(* An optional task never fails.                                           *)
LEMMA OptionalStep ==
  ASSUME TypeOK, NEW t \in Id, Thread(t)
  PROVE  /\ pc'[t] = "failed" => pc[t] = "raised" /\ Cat(t) \notin Optional
         /\ \A c \in Category : faults'[c] <= faults[c]
<1> USE DEF TypeOK, Goto
<1>1. CASE pc[t] \notin Inside
  <2>1. CASE Attempt(t)
    BY <2>1, CatType DEF Attempt
  <2>2. CASE ~Attempt(t)
    BY <1>1, <2>2, OutsideStep DEF Enter, Handle
  <2> QED
    BY <2>1, <2>2
<1>2. CASE pc[t] \in Inside
  <2>1. Act(t) /\ faults' = faults
    BY <1>2, InsideStep
  <2>2. CASE ActDesign(t) \/ ActImpact(t) \/ Write(t)
    BY <2>1, <2>2 DEF ActDesign, ActImpact, Write
  <2>6. CASE PublishReport(t)
    <3>1. Goto(t, "raised") \/ Goto(t, "ok")
      BY <2>6 DEF PublishReport
    <3> QED
      BY <2>1, <3>1
  <2>3. CASE Examine(t)
    BY <2>1, <2>3 DEF Examine
  <2>4. CASE Fix(t)
    <3>1. PICK next \in {"ok", "act", "raised"} : Goto(t, next)
      BY <2>4 DEF Fix
    <3> QED
      BY <2>1, <3>1
  <2>5. CASE ActCode(t) \/ ActTests(t) \/ ActDocs(t) \/ FilterDocs(t) \/ AssignDocs(t) \/ MergeSummary(t)
    BY <2>1, <2>5 DEF ActCode, ActTests, ActDocs, FilterDocs, AssignDocs, MergeSummary, Generates,
       Proposes,
                      Publishes, Raises
  <2> QED
    BY <2>1, <2>2, <2>3, <2>4, <2>5, <2>6 DEF Act
<1> QED
  BY <1>1, <1>2

(* The invariant of a benign run.                                          *)
LEMMA BenignHolds == Spec => []BenignInv
<1>1. Init => BenignInv
  <2> SUFFICES ASSUME Init PROVE BenignInv
    OBVIOUS
  <2>1. request.faults \in [Category -> Nat]
    BY RequestsAssumption DEF Init, Request
  <2> QED
    BY <2>1 DEF Init, BenignInv, Has, Nothing, PyFiles, File, CodeFiles, TestFiles, Absent
<1>2. TypeOK /\ WalkInv /\ ReportInv /\ LockInv /\ RoleInv /\ WriteInv /\ DiskInv /\ LoadInv
      /\ BenignInv /\ [Next]_vars => BenignInv'
  <2> SUFFICES ASSUME TypeOK, WalkInv, ReportInv, LockInv, RoleInv, WriteInv, DiskInv, LoadInv,
                      BenignInv, [Next]_vars, Meets
               PROVE  BenignInv'
    BY RequestKept DEF BenignInv, Meets, Benign, InOrder, ChangeMode, bundle
  <2>0. /\ request' = request /\ \A u \in Id : Cat(u)' = Cat(u) /\ ChangeMode' = ChangeMode
        /\ \A u \in Id : Cat(u) \in Category
    BY RequestKept, CatType DEF Cat, ChangeMode, TypeOK
  <2>1. ASSUME NEW t \in Id, Thread(t) PROVE BenignInv'
    <3>0. /\ \A u \in Id \ {t} : pc'[u] = pc[u] /\ tries'[u] = tries[u]
          /\ outcome' = outcome /\ pc[t] # "todo"
      BY <2>1, ThreadStep, DueStep DEF Running, Inside
    <3>1. \A c \in Category : faults'[c] <= faults[c] /\ faults'[c] \in Nat /\ faults[c] \in Nat
                              /\ request.faults[c] \in Nat
      <4>1. faults' \in [Category -> Nat]
        <5>1. CASE Attempt(t)
          BY <2>0, <5>1 DEF Attempt, TypeOK
        <5>2. CASE ~Attempt(t)
          <6>1. faults' = faults
            BY <2>1, <5>2, OutsideStep, InsideStep DEF Enter, Handle
          <6> QED
            BY <6>1 DEF TypeOK
        <5> QED
          BY <5>1, <5>2
      <4> QED
        BY <2>1, <4>1, OptionalStep DEF TypeOK, Request
    <3>2. \A c \in Category : faults'[c] <= request.faults[c]
      BY <3>1 DEF BenignInv
    <3>3. /\ pc'[t] # "failed"
          /\ Cat(t) \notin Optional => Spent(t)' + faults'[Cat(t)] <= request.faults[Cat(t)] + 1
      <4>1. CASE Cat(t) \in Optional
        BY <2>1, <4>1, OptionalStep
      <4>2. CASE Cat(t) \notin Optional
        <5>0. Spent(t) + faults[Cat(t)] <= request.faults[Cat(t)] + 1
          BY <3>0, <4>2 DEF BenignInv
        <5>1. CASE pc[t] = "attempt" /\ Attempt(t)
          BY <2>0, <3>1, <5>0, <5>1 DEF Attempt, Goto, Spent, TypeOK
        <5>2. CASE pc[t] = "raised" /\ Handle(t)
          <6>1. /\ tries[t] \in Nat /\ request.faults[Cat(t)] < MaxAttempts /\ MaxAttempts \in Nat
                /\ faults' = faults
            BY <2>0, <5>2, ConfigAssumption DEF Handle, Meets, Benign, TypeOK
          <6>2. CanRetry(t)
            BY <2>0, <3>1, <5>0, <5>2, <6>1 DEF CanRetry, Spent
          <6>3. tries'[t] = tries[t] + 1 /\ pc'[t] = "attempt"
            BY <5>2, <6>2 DEF Handle, Goto, TypeOK
          <6> QED
            BY <2>0, <3>1, <5>0, <5>2, <6>1, <6>3 DEF Spent
        <5>3. CASE pc[t] # "raised" /\ pc'[t] \notin {"todo", "raised", "failed"} /\ UNCHANGED <<tries, faults>>
          BY <5>0, <5>3 DEF Spent
        <5> QED
          BY <2>1, <4>2, <5>1, <5>2, <5>3, BenignStep
      <4> QED
        BY <4>1, <4>2
    <3>4. ASSUME NEW u \in Id, u # t, Cat(u) \notin Optional, pc'[u] # "todo"
          PROVE  Spent(u)' + faults'[Cat(u)] <= request.faults[Cat(u)] + 1
      <4>1. Spent(u)' = Spent(u) /\ Spent(u) \in Nat
        BY <3>0, <3>4 DEF Spent, TypeOK
      <4>2. Spent(u) + faults[Cat(u)] <= request.faults[Cat(u)] + 1
        BY <3>0, <3>4 DEF BenignInv
      <4> QED
        BY <2>0, <3>1, <4>1, <4>2
    <3>5. \A u \in Id : pc'[u] # "failed"
      BY <3>0, <3>3 DEF BenignInv
    <3>6. \A u \in Id : Cat(u) \notin Optional /\ pc'[u] # "todo" =>
            Spent(u)' + faults'[Cat(u)] <= request.faults[Cat(u)] + 1
      BY <3>3, <3>4
    <3>7. /\ \A u \in Id : Cat(u) = "design" /\ pc'[u] = "ok" => design' # 0
          /\ ~ChangeMode => \A u \in Id : Cat(u) = "code" /\ pc'[u] \in {"write", "ok"} => HasCode'
          /\ \A f \in PyFiles : Has(board', f) => board'[f] \notin Broken
          /\ Compiles \notin found'
      BY <2>1, <3>0, BenignValues DEF BenignInv
    <3> QED
      BY <2>0, <3>0, <3>2, <3>5, <3>6, <3>7 DEF BenignInv, Spent
  <2>2. CASE EnterLevel \/ (\E t \in Id : RunNext(t))
    <3>1. /\ UNCHANGED <<outcome, faults, design, board, found>>
          /\ \A u \in Id : \/ pc'[u] = pc[u] /\ tries'[u] = tries[u]
                           \/ pc'[u] = "attempt" /\ tries'[u] = 1
      BY <2>2 DEF EnterLevel, RunNext, TypeOK
    <3>2. \A u \in Id : \/ Spent(u)' = Spent(u) /\ pc'[u] = pc[u]
                        \/ Spent(u)' = 1 /\ pc'[u] = "attempt"
      BY <3>1 DEF Spent
    <3>3. \A c \in Category : faults[c] <= request.faults[c] /\ faults[c] \in Nat
                              /\ request.faults[c] \in Nat
      BY DEF TypeOK, Request, BenignInv
    <3>4. \A u \in Id : Cat(u) \notin Optional /\ pc'[u] # "todo" =>
            Spent(u)' + faults[Cat(u)] <= request.faults[Cat(u)] + 1
      BY <2>0, <3>2, <3>3 DEF BenignInv
    <3>5. /\ \A u \in Id : pc'[u] = pc[u] \/ pc'[u] = "attempt"
          /\ HasCode' = HasCode
      BY <3>1 DEF HasCode
    <3> QED
      BY <2>0, <3>1, <3>4, <3>5 DEF BenignInv
  <2>3. CASE HaltLevel
    BY <2>3 DEF HaltLevel, BenignInv, TypeOK
  <2>4. CASE BeginRepair
    <3>1. /\ UNCHANGED <<outcome, faults, design, board, found, tries>>
          /\ \A u \in Id : pc'[u] = pc[u] \/ pc'[u] = "todo"
      BY <2>4 DEF BeginRepair, TypeOK
    <3>2. \A u \in Id : pc'[u] = pc[u] => Spent(u)' = Spent(u)
      BY <3>1 DEF Spent
    <3> QED
      BY <2>0, <3>1, <3>2 DEF BenignInv, HasCode
  <2>5. CASE Bootstrap \/ AskIfBlocked \/ ApprovePlan \/ FinishWalk \/ SkipRepair \/ Accept
    <3>1. /\ UNCHANGED <<faults, design, board, found, tries, pc>>
          /\ outcome' # "exhausted"
      BY <2>5 DEF Bootstrap, AskIfBlocked, ApprovePlan, FinishWalk, SkipRepair, Accept, End,
         BenignInv
    <3>2. \A u \in Id : Spent(u)' = Spent(u)
      BY <3>1 DEF Spent
    <3> QED
      BY <2>0, <3>1, <3>2 DEF BenignInv, HasCode
  <2>6. CASE Returned \/ UNCHANGED vars
    <3>1. UNCHANGED <<faults, design, board, found, tries, pc, outcome>>
      BY <2>6 DEF Returned, vars
    <3>2. \A u \in Id : Spent(u)' = Spent(u)
      BY <3>1 DEF Spent
    <3> QED
      BY <2>0, <3>1, <3>2 DEF BenignInv, HasCode
  <2> QED
    BY <2>1, <2>2, <2>3, <2>4, <2>5, <2>6 DEF Next, Main
<1> QED
  BY <1>1, <1>2, TypeCorrect, WalkHolds, ReportHolds, LockHolds, RoleHolds, WriteHolds, DiskHolds,
     LoadHolds, PTL DEF Spec

(* A plan that orders design, code and tests, and validation with all      *)
(* other work, gets a benign run past every required task.                 *)
THEOREM OrderedPlansAlwaysComplete == Spec /\ Ordered(plan) => []OrderedPlansComplete
<1>1. Ordered(plan) /\ [Next]_vars => Ordered(plan)'
  BY RequestKept
<1>2. BenignInv /\ Ordered(plan) => OrderedPlansComplete
  BY DEF BenignInv, Meets, OrderedPlansComplete
<1> QED
  BY <1>1, <1>2, BenignHolds, PTL DEF Spec
=============================================================================
