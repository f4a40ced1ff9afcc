----------------------------- MODULE Orchestrator -----------------------------
(***************************************************************************)
(* One run of the pipeline: the main thread that walks the task graph level *)
(* by level, one thread per task inside a level, the agents those threads   *)
(* execute, and the blackboard they share.                                  *)
(*                                                                         *)
(* A thread's program counter pc[t] names what it does next: "attempt"     *)
(* (fault injection), "enter" (take the agent's run lock, perceive and     *)
(* decide), the steps of the agent's act, and "raised" (the handler in     *)
(* _run_task).  "ok", "degraded" and "failed" are final.                   *)
(***************************************************************************)
EXTENDS Artifacts, PlanGraph

CONSTANTS
  Task,           \* ids a plan may use
  Rank,           \* Task -> Nat: the (priority, id) order inside a level
  Designs,        \* designs the provider may return (positive naturals)
  ApiDesigns,     \* those that expose an API
  Proposals,      \* change sets it may propose (change mode)
  Repo,           \* the existing repository's files
  MaxAttempts, MaxRepair,  \* OrchestratorConfig
  Requests        \* what a run may be started with and meet

Optional == {"docs", "codebase_impact", "repair"}

(* The three tasks of a repair round, run one after the other.             *)
LoopTask == {"repair", "revalidate", "resummary"}
LoopCat  == [t \in LoopTask |-> IF t = "repair" THEN "repair"
                                ELSE IF t = "revalidate" THEN "validate" ELSE "summary"]
LoopDep  == [t \in LoopTask |-> IF t = "repair" THEN {}
                                ELSE IF t = "revalidate" THEN {"repair"} ELSE {"revalidate"}]
Id == Task \cup LoopTask

Plan == [tasks : SUBSET Task, cat : [Task -> PlanCategory], dep : [Task -> SUBSET Task]]

(* What validate_acyclic and the providers guarantee of a returned plan.   *)
ValidPlan(p) ==
  /\ p \in Plan
  /\ \A t \in p.tasks : p.dep[t] \subseteq p.tasks
  /\ Acyclic(p.tasks, p.dep)
  /\ \E t \in p.tasks : p.cat[t] = "validate"

(* A requirement, the other half of OrchestratorConfig, what the provider  *)
(* will answer, and how many file writes the operating system will fail.   *)
Request ==
  [changes     : BOOLEAN,             \* the requirement names the repository
   parallel    : BOOLEAN, askFirst : BOOLEAN, interactive : BOOLEAN,
   faults      : [Category -> Nat],   \* inject_fault
   plan        : Plan,                \* the decomposer's task graph
   bundle      : Folder,              \* the project the provider authors
   writeErrors : Nat]

ASSUME TasksAssumption ==
  /\ Task \cap LoopTask = {}
  /\ Rank \in [Task -> Nat] /\ \A t, u \in Task : Rank[t] = Rank[u] => t = u

ASSUME RequestsAssumption ==
  Requests \subseteq Request /\ \A r \in Requests : ValidPlan(r.plan)

ASSUME ConfigAssumption == MaxAttempts \in Nat \ {0} /\ MaxRepair \in Nat

ASSUME ProviderAssumption ==
  /\ Designs \subseteq Nat \ {0} /\ ApiDesigns \subseteq Designs
  /\ Proposals \subseteq Folder /\ Repo \in Folder

VARIABLES
  request,     \* what this run was started with
  phase,       \* where the main thread is
  outcome,     \* how the run ended
  job,         \* the tasks being walked: the plan's, or a repair round's
  level,       \* the level of it in progress
  round,       \* repair rounds begun
  pc, tries,   \* per task: program counter and attempt number
  due,         \* per task: texts its thread still has to write
  faults, writeErrors,  \* faults left to inject, write errors left to occur
  design,      \* bb.architecture, 0 = none
  board,       \* bb.code, bb.tests, bb.docs
  disk,        \* the output folder
  loaded,      \* bb.change_mode
  changeLogged,   \* a "change" event is in the log
  docsAttempted,  \* bb.docs_attempted
  report,      \* bb.validation as its failing checks
  validated,   \* bb.validated_fingerprint: {} for "", else {the artifacts}
  reports,     \* how many reports were published
  found, kept  \* locals of the validator's and of the summary writer's act

runVars   == <<request, phase, outcome, job, level, round>>
boardVars == <<design, board, disk, loaded, changeLogged, docsAttempted>>
checkVars == <<report, validated, reports, found>>
vars == <<runVars, pc, tries, due, faults, writeErrors, boardVars, checkVars,
          kept>>

plan        == request.plan
bundle      == request.bundle
ChangeMode  == request.changes
Parallel    == request.parallel
AskFirst    == request.askFirst
Interactive == request.interactive

Unreported == {"unreported"}     \* report before the first validation

Settled == {"ok", "degraded"}
Final   == Settled \cup {"failed"}
Inside  == {"act", "assign", "merge", "write", "publish"}  \* holds the run lock
Running == {"attempt", "enter", "raised"} \cup Inside
PC      == {"todo"} \cup Running \cup Final

Cat(t) == IF t \in LoopTask THEN LoopCat[t] ELSE plan.cat[t]
Dep(t) == IF t \in LoopTask THEN LoopDep[t] ELSE plan.dep[t]

(* A gate's answers: AutoApprove always approves, a console may not.       *)
Answers == IF Interactive THEN BOOLEAN ELSE {TRUE}

Init ==
  /\ request \in Requests
  /\ phase = "bootstrap" /\ outcome = "none"
  /\ job = {} /\ level = {} /\ round = 0
  /\ pc = [t \in Id |-> "todo"] /\ tries = [t \in Id |-> 0]
  /\ due = [t \in Id |-> Nothing]
  /\ faults = request.faults /\ writeErrors = request.writeErrors
  /\ design = 0 /\ board = Nothing /\ disk = Nothing
  /\ loaded = FALSE /\ changeLogged = FALSE /\ docsAttempted = FALSE
  /\ report = Unreported /\ validated = {} /\ reports = 0
  /\ found = {} /\ kept = Nothing

threadVars == <<pc, tries, due, faults, writeErrors>>
-----------------------------------------------------------------------------
(***************************************************************************)
(* The main thread.                                                        *)
(***************************************************************************)
End(how) == phase' = "ended" /\ outcome' = how

(* Analysis, then the clarification gate.                                  *)
Bootstrap ==
  /\ phase = "bootstrap"
  /\ \E approved \in Answers :
       \/ approved /\ phase' = (IF AskFirst THEN "clarify" ELSE "plan") /\ UNCHANGED outcome
       \/ ~approved /\ End("rejected")
  /\ UNCHANGED <<request, job, level, round, threadVars, boardVars, checkVars, kept>>

(* Ask-first mode: a blocking question stops the run before any planning.  *)
AskIfBlocked ==
  /\ phase = "clarify"
  /\ \/ phase' = "plan" /\ UNCHANGED outcome
     \/ End("asking")
  /\ UNCHANGED <<request, job, level, round, threadVars, boardVars, checkVars, kept>>

(* The decomposer's graph, then the plan gate.                             *)
ApprovePlan ==
  /\ phase = "plan"
  /\ \E approved \in Answers :
       \/ approved /\ phase' = "execute" /\ job' = plan.tasks /\ UNCHANGED outcome
       \/ ~approved /\ End("rejected") /\ UNCHANGED job
  /\ UNCHANGED <<request, level, round, threadVars, boardVars, checkVars, kept>>

Walking == phase \in {"execute", "mend"}

(* The next level of topological_levels: every task of the job whose       *)
(* dependencies all lie in earlier levels.                                 *)
Ready == {t \in job : pc[t] = "todo" /\ Dep(t) \subseteq {u \in job : pc[u] # "todo"}}

Concurrent(tasks) == Parallel /\ phase = "execute" /\ \E t, u \in tasks : t # u

(* mutant: only failures are looked for, nobody is waited for. *)
LevelSettled_mutant == \A t \in level : pc[t] # "failed"
LevelSettled == \A t \in level : pc[t] \in Settled

(* A thread per task of the level, or the tasks one by one.                *)
EnterLevel ==
  /\ Walking /\ LevelSettled /\ Ready # {}
  /\ level' = Ready
  /\ IF Concurrent(Ready)
       THEN /\ pc' = [t \in Id |-> IF t \in Ready THEN "attempt" ELSE pc[t]]
            /\ tries' = [t \in Id |-> IF t \in Ready THEN 1 ELSE tries[t]]
       ELSE UNCHANGED <<pc, tries>>
  /\ UNCHANGED <<phase, outcome, request, job, round, due, faults, writeErrors,
                 boardVars, checkVars, kept>>

RunNext(t) ==
  /\ Walking /\ t \in level /\ pc[t] = "todo"
  /\ \A u \in level \ {t} : \/ pc[u] \in Settled
                            \/ pc[u] = "todo" /\ Rank[t] < Rank[u]
  /\ pc' = [pc EXCEPT ![t] = "attempt"]
  /\ tries' = [tries EXCEPT ![t] = 1]
  /\ UNCHANGED <<runVars, due, faults, writeErrors, boardVars, checkVars, kept>>

(* mutant: the first failure halts the run at once. *)
SiblingsDone_mutant == TRUE
SiblingsDone == \A t \in level : pc[t] \notin Running

(* A required task gave up: the run halts once every thread of the level   *)
(* has finished; tasks not started yet never are.                          *)
HaltLevel ==
  /\ Walking
  /\ \E t \in level : pc[t] = "failed"
  /\ SiblingsDone
  /\ End("exhausted")
  /\ UNCHANGED <<request, job, level, round, threadVars, boardVars, checkVars, kept>>

FinishWalk ==
  /\ Walking /\ LevelSettled /\ Ready = {}
  /\ phase' = "repair" /\ level' = {}
  /\ UNCHANGED <<outcome, request, job, round, threadVars, boardVars, checkVars, kept>>

(* mutant: the last round allowed is never run. *)
NeedsRepair_mutant ==
  round + 1 < MaxRepair /\ report # Unreported /\ report \cap Repairable # {}
NeedsRepair == round < MaxRepair /\ report # Unreported /\ report \cap Repairable # {}

(* mutant: the summary is not rewritten after a repair. *)
RepairRound_mutant == LoopTask \ {"resummary"}
RepairRound == LoopTask

(* One round of the repair loop is the chain repair, revalidate, resummary. *)
BeginRepair ==
  /\ phase = "repair" /\ NeedsRepair
  /\ phase' = "mend" /\ round' = round + 1
  /\ job' = RepairRound /\ level' = {}
  /\ pc' = [t \in Id |-> IF t \in LoopTask THEN "todo" ELSE pc[t]]
  /\ UNCHANGED <<outcome, request, tries, due, faults, writeErrors, boardVars,
                 checkVars, kept>>

SkipRepair ==
  /\ phase = "repair" /\ ~NeedsRepair
  /\ phase' = "accept"
  /\ UNCHANGED <<outcome, request, job, level, round, threadVars, boardVars, checkVars,
                 kept>>

(* mutant: only what the repair agent could not fix is refused. *)
MustRefuse_mutant == ~Interactive /\ report \cap Repairable # {}
MustRefuse == ~Interactive /\ report \notin {Unreported, {}}

(* Auto mode refuses a failing report by itself; any other case is the     *)
(* gate's.                                                                 *)
Accept ==
  /\ phase = "accept"
  /\ IF MustRefuse
       THEN End("rejected")
       ELSE \E approved \in Answers : End(IF approved THEN "accepted" ELSE "rejected")
  /\ UNCHANGED <<request, job, level, round, threadVars, boardVars, checkVars, kept>>
-----------------------------------------------------------------------------
(***************************************************************************)
(* A task's thread: _run_task around the agent.                            *)
(***************************************************************************)
Goto(t, where) == pc' = [pc EXCEPT ![t] = where]

Attempt(t) ==
  /\ pc[t] = "attempt"
  /\ \/ /\ faults[Cat(t)] > 0
        /\ faults' = [faults EXCEPT ![Cat(t)] = @ - 1]
        /\ Goto(t, "raised")
     \/ /\ faults[Cat(t)] = 0
        /\ Goto(t, "enter")
        /\ UNCHANGED faults
  /\ UNCHANGED <<runVars, tries, due, writeErrors, boardVars, checkVars, kept>>

(* mutant: one attempt too few. *)
CanRetry_mutant(t) == tries[t] + 1 < MaxAttempts
CanRetry(t) == tries[t] < MaxAttempts

(* mutant: attempts are not counted. *)
Handle_mutant(t) ==
  /\ pc[t] = "raised"
  /\ \/ CanRetry(t) /\ Goto(t, "attempt")
     \/ ~CanRetry(t) /\ Goto(t, IF Cat(t) \in Optional THEN "degraded" ELSE "failed")
  /\ UNCHANGED <<runVars, tries, due, faults, writeErrors, boardVars, checkVars, kept>>

Handle(t) ==
  /\ pc[t] = "raised"
  /\ \/ CanRetry(t)
        /\ tries' = [tries EXCEPT ![t] = @ + 1] /\ Goto(t, "attempt")
     \/ ~CanRetry(t)
        /\ Goto(t, IF Cat(t) \in Optional THEN "degraded" ELSE "failed")
        /\ UNCHANGED tries
  /\ UNCHANGED <<runVars, due, faults, writeErrors, boardVars, checkVars, kept>>

(***************************************************************************)
(* Agent.run: under the agent's run lock, perceive and decide, then act.   *)
(***************************************************************************)
(* mutant: agents are not serialized. *)
LockFree_mutant(t) == TRUE
LockFree(t) == \A u \in Id \ {t} : Cat(u) = Cat(t) => pc[u] \notin Inside

HasApi  == design \in ApiDesigns
HasCode == HasAny(board, CodeFiles)
HasDocs == HasAny(board, DocFiles)

(* The work the agent perceives as already done, by category.              *)
Reuses(c) ==
  \/ c = "design"   /\ design # 0
  \/ c = "code"     /\ (HasCode \/ (ChangeMode /\ changeLogged))
  \/ c = "tests"    /\ (ChangeMode \/ (HasCode /\ Has(board, "suite")))
  \/ c = "docs"     /\ (ChangeMode \/ HasDocs \/ docsAttempted)
  \/ c = "validate" /\ board \in validated
  \/ c = "repair"   /\ report \cap Repairable = {}

(* TestGenerator.decide asserts that code was generated.                   *)
Refuses(c) == c = "tests" /\ ~ChangeMode /\ ~HasCode

(* The text the repair agent synthesizes for a missing contract or README. *)
Synthesized == 9
Fixes == [f \in File |->
            IF \/ f = "api" /\ "api contract present" \in report
               \/ f = "readme" /\ "documentation present" \in report
            THEN Synthesized ELSE Absent]

Enter(t) ==
  /\ pc[t] = "enter" /\ LockFree(t)
  /\ \/ Refuses(Cat(t)) /\ Goto(t, "raised") /\ UNCHANGED due
     \/ Reuses(Cat(t)) /\ Goto(t, "ok") /\ UNCHANGED due
     \/ /\ ~Refuses(Cat(t)) /\ ~Reuses(Cat(t))
        /\ Goto(t, "act")
        /\ due' = [due EXCEPT ![t] = IF Cat(t) = "repair" THEN Fixes ELSE Nothing]
  /\ loaded' = (loaded \/ (ChangeMode /\ Cat(t) \in {"code", "tests", "docs"}))
  /\ UNCHANGED <<runVars, tries, faults, writeErrors, design, board, disk,
                 changeLogged, docsAttempted, checkVars, kept>>

Acting(t, c) == pc[t] = "act" /\ Cat(t) = c

ActDesign(t) ==
  /\ Acting(t, "design")
  /\ design' \in Designs
  /\ Goto(t, "ok")
  /\ UNCHANGED <<runVars, tries, due, faults, writeErrors, board, disk, loaded,
                 changeLogged, docsAttempted, checkVars, kept>>

(* The impact list itself is read by nothing but the summary's text.       *)
ActImpact(t) ==
  /\ Acting(t, "codebase_impact")
  /\ loaded' = (loaded \/ ChangeMode)
  /\ Goto(t, "ok")
  /\ UNCHANGED <<runVars, tries, due, faults, writeErrors, design, board, disk,
                 changeLogged, docsAttempted, checkVars, kept>>

(* mutant: files that exist are not written again. *)
Publishes_mutant(t, new, out) ==
  /\ board' = Merge(board, new)
  /\ due' = [due EXCEPT ![t] = Part(out, {f \in File : ~Has(disk, f)})]
  /\ Goto(t, "write")

(* An agent puts `new' on the board, then writes the texts in `out'.       *)
Publishes(t, new, out) ==
  /\ board' = Merge(board, new)
  /\ due' = [due EXCEPT ![t] = out]
  /\ Goto(t, "write")

Raises(t) == Goto(t, "raised") /\ UNCHANGED <<board, due>>

(* A generator whose part of the bundle is `part'; without a design its    *)
(* assertion fails, with nothing authored it raises.                       *)
Generates(t, part) ==
  IF design = 0 \/ part = Nothing
    THEN Raises(t)
    ELSE Publishes(t, part, NewOrChanged(board, part))

Proposes(t) ==
  IF design = 0
    THEN Raises(t)
    ELSE \E p \in Proposals :
           Publishes(t, OnlyChanges(Repo, p), OnlyChanges(Repo, p))

ActCode(t) ==
  /\ Acting(t, "code")
  /\ IF ChangeMode THEN Proposes(t) ELSE Generates(t, Part(bundle, CodeFiles))
  /\ UNCHANGED <<runVars, tries, faults, writeErrors, design, disk, loaded,
                 changeLogged, docsAttempted, checkVars, kept>>

ActTests(t) ==
  /\ Acting(t, "tests")
  /\ Generates(t, Part(bundle, TestFiles))
  /\ UNCHANGED <<runVars, tries, faults, writeErrors, design, disk, loaded,
                 changeLogged, docsAttempted, checkVars, kept>>

(* The docs stage may produce nothing: that is left to the repair agent.   *)
ActDocs(t) ==
  /\ Acting(t, "docs")
  /\ LET part == Part(bundle, DocFiles) IN
       IF design = 0
         THEN Raises(t) /\ UNCHANGED docsAttempted
         ELSE /\ Publishes(t, part, NewOrChanged(board, part))
              /\ docsAttempted' = TRUE
  /\ UNCHANGED <<runVars, tries, faults, writeErrors, design, disk, loaded,
                 changeLogged, checkVars, kept>>

(* ArtifactStore.write_all: file by file; an error leaves those before it  *)
(* written, its own torn, and the others as they were.                     *)
Write(t) ==
  /\ pc[t] = "write"
  /\ \/ /\ disk' = Merge(disk, due[t])
        /\ Goto(t, "ok")
        /\ changeLogged' = (changeLogged \/ (ChangeMode /\ Cat(t) = "code"))
        /\ UNCHANGED writeErrors
     \/ /\ writeErrors > 0 /\ due[t] # Nothing
        /\ writeErrors' = writeErrors - 1
        /\ \E f \in File, written \in SUBSET {g \in File : Has(due[t], g)} :
             /\ Has(due[t], f) /\ f \notin written
             /\ Torn(Merge(disk, Part(due[t], written)), f, disk')
        /\ Goto(t, "raised")
        /\ UNCHANGED changeLogged
  /\ due' = [due EXCEPT ![t] = Nothing]
  /\ UNCHANGED <<runVars, tries, faults, design, board, loaded, docsAttempted,
                 checkVars, kept>>

(***************************************************************************)
(* ValidatorAgent.act: look at the files, then publish the report together  *)
(* with the fingerprint of the board as it is at that moment.              *)
(***************************************************************************)
Overlay == Merge(Repo, Part(board, Work))
Checked == IF loaded THEN Overlay ELSE disk

Examine(t) ==
  /\ Acting(t, "validate")
  /\ IF Readable(board, Checked)
       THEN found' = Failures(board, Checked, HasApi, loaded) /\ Goto(t, "publish")
       ELSE UNCHANGED found /\ Goto(t, "raised")
  /\ UNCHANGED <<runVars, tries, due, faults, writeErrors, boardVars, report,
                 validated, reports, kept>>

(* mutant: every report counts as a validation of the board. *)
Fingerprint_mutant == {board}
(* A report that found uncompilable code is published and raises; it leaves *)
(* no fingerprint to reuse it by.                                          *)
Fingerprint == IF "code compiles" \in found THEN {} ELSE {board}

PublishReport(t) ==
  /\ pc[t] = "publish"
  /\ report' = found /\ reports' = reports + 1
  /\ validated' = Fingerprint
  /\ Goto(t, IF "code compiles" \in found THEN "raised" ELSE "ok")
  /\ UNCHANGED <<runVars, tries, due, faults, writeErrors, boardVars, found, kept>>

(* RepairAgent.act: one handler after the other, contract before README;   *)
(* each merges its file and then writes it.                                *)
Fix(t) ==
  /\ Acting(t, "repair")
  /\ \E f \in {"api", "readme"} :
       /\ Has(due[t], f)
       /\ f = "readme" => ~Has(due[t], "api")
       /\ board' = Merge(board, Part(due[t], {f}))
       /\ \/ /\ disk' = Merge(disk, Part(due[t], {f}))
             /\ due' = [due EXCEPT ![t] = [@ EXCEPT ![f] = Absent]]
             /\ Goto(t, IF due'[t] = Nothing THEN "ok" ELSE "act")
             /\ UNCHANGED writeErrors
          \/ /\ writeErrors > 0 /\ writeErrors' = writeErrors - 1
             /\ Torn(disk, f, disk')
             /\ due' = [due EXCEPT ![t] = Nothing]
             /\ Goto(t, "raised")
  /\ UNCHANGED <<runVars, tries, faults, design, loaded, changeLogged, docsAttempted,
                 checkVars, kept>>

(***************************************************************************)
(* SummaryAgent.act.  The docs section is filtered into a new list and the  *)
(* list assigned back without the blackboard's lock: another agent's merge *)
(* may fall between the two steps.                                         *)
(***************************************************************************)
(* mutant: the section is emptied before the summary goes in. *)
OtherDocs_mutant == Nothing
OtherDocs == Part(board, DocFiles \ {"summary"})

FilterDocs(t) ==
  /\ Acting(t, "summary")
  /\ kept' = OtherDocs
  /\ Goto(t, "assign")
  /\ UNCHANGED <<runVars, tries, due, faults, writeErrors, boardVars, checkVars>>

AssignDocs(t) ==
  /\ pc[t] = "assign"
  /\ board' = [f \in File |-> IF f \in DocFiles THEN kept[f] ELSE board[f]]
  /\ kept' = Nothing
  /\ Goto(t, "merge")
  /\ UNCHANGED <<runVars, tries, due, faults, writeErrors, design, disk, loaded,
                 changeLogged, docsAttempted, checkVars>>

(* The summary's text is identified by the report it was written from.     *)
SummaryText == [f \in File |-> IF f = "summary" THEN 1 + reports ELSE Absent]

MergeSummary(t) ==
  /\ pc[t] = "merge"
  /\ Publishes(t, SummaryText, SummaryText)
  /\ UNCHANGED <<runVars, tries, faults, writeErrors, design, disk, loaded,
                 changeLogged, docsAttempted, checkVars, kept>>
-----------------------------------------------------------------------------
Main == \/ Bootstrap \/ AskIfBlocked \/ ApprovePlan
        \/ EnterLevel \/ (\E t \in Id : RunNext(t)) \/ HaltLevel \/ FinishWalk
        \/ BeginRepair \/ SkipRepair \/ Accept

Act(t) == \/ ActDesign(t) \/ ActImpact(t)
          \/ ActCode(t) \/ ActTests(t) \/ ActDocs(t) \/ Write(t)
          \/ Examine(t) \/ PublishReport(t) \/ Fix(t)
          \/ FilterDocs(t) \/ AssignDocs(t) \/ MergeSummary(t)

Thread(t) == Attempt(t) \/ Enter(t) \/ Act(t) \/ Handle(t)

(* The run has returned its result; nothing moves any more.                *)
Returned == phase = "ended" /\ UNCHANGED vars

Next == Main \/ (\E t \in Id : Thread(t)) \/ Returned

(* The operating system keeps scheduling every thread, and every call a    *)
(* thread makes returns: subprocesses and model calls have a timeout, the  *)
(* locks are held over such calls only.                                    *)
Fairness == WF_vars(Main) /\ \A t \in Id : WF_vars(Thread(t))

Spec == Init /\ [][Next]_vars /\ Fairness
-----------------------------------------------------------------------------
(* Every variable has its type. *)
TypeOK ==
  /\ phase \in {"bootstrap", "clarify", "plan", "execute", "repair", "mend",
                "accept", "ended"}
  /\ outcome \in {"none", "accepted", "rejected", "exhausted", "asking"}
  /\ request \in Request
  /\ job \subseteq Id /\ level \subseteq Id /\ round \in Nat
  /\ pc \in [Id -> PC] /\ tries \in [Id -> 0 .. MaxAttempts]
  /\ due \in [Id -> Folder]
  /\ faults \in [Category -> Nat] /\ writeErrors \in Nat
  /\ design \in Designs \cup {0} /\ board \in Folder /\ disk \in Folder
  /\ loaded \in BOOLEAN /\ changeLogged \in BOOLEAN /\ docsAttempted \in BOOLEAN
  /\ report \in (SUBSET Check) \cup {Unreported}
  /\ validated \subseteq Folder /\ reports \in Nat
  /\ found \subseteq Check /\ kept \in Folder

(* A task has not started before everything it depends on has settled:     *)
(* "Level N+1 never starts before level N completes" (_execute), and the   *)
(* steps of a repair round follow one another.                             *)
DependenciesSettled ==
  \A t \in plan.tasks \cup LoopTask :
    pc[t] # "todo" => \A u \in Dep(t) : pc[u] \in Settled

(* The result is assembled from the blackboard, and a gate or the repair   *)
(* loop reads it, only when no task's thread is still running: a level     *)
(* halts after the siblings of the failed task have finished (_execute).   *)
QuietOutsideLevels ==
  ~Walking => \A t \in Id : pc[t] \notin Running

(* "--sequential": without level threads the tasks never overlap.          *)
OneAtATime ==
  ~Parallel => \A t, u \in Id : pc[t] \in Running /\ pc[u] \in Running => t = u

(* An autonomous run is accepted only with a report, and a passing one.    *)
(* _accept itself would let a run without any report through.              *)
AutoNeverAcceptsFailing ==
  outcome = "accepted" /\ ~Interactive => report = {}

(* What a passing report said is still true of the accepted artifacts: a   *)
(* validation repeated at the end would pass.                              *)
AcceptedWorkPasses ==
  outcome = "accepted" /\ report = {} =>
    LET files == IF ChangeMode THEN Overlay ELSE disk
    IN  Readable(board, files) /\ Failures(board, files, HasApi, ChangeMode) = {}

(* The engineering summary that is accepted was written from the last      *)
(* report, whatever repair rounds there were.                              *)
SummaryIsCurrent ==
  outcome = "accepted" => board["summary"] = 1 + reports

(* The accepted artifacts are the files in the output folder: generators    *)
(* record them on the blackboard and materialize them.                     *)
AcceptedIsOnDisk == outcome = "accepted" => disk = board

(* They are when no write failed, whatever was retried, reused or repaired. *)
OnDiskUnlessWritesFail == request.writeErrors = 0 => AcceptedIsOnDisk

(* A half-done write of code or tests does not pass: what the blackboard   *)
(* lists of them is in the folder, never missing or of another time, though *)
(* a file may be one whose write broke off.  (The validator cannot read a  *)
(* missing file; the retry of a generator whose write failed reuses its    *)
(* artifacts and writes nothing.)                                          *)
PassingCodeIsOnDisk ==
  outcome = "accepted" /\ report = {} /\ ~ChangeMode
    => \A f \in PyFiles : disk[f] = board[f] \/ (Has(board, f) /\ disk[f] \in Cuts)

(* validator.py:4: the validator "executes the generated test suite": the  *)
(* suite that passed is the generated one.                                 *)
GeneratedSuitePassed ==
  outcome = "accepted" /\ report = {} /\ ~ChangeMode => disk["suite"] = board["suite"]

(* validator.py:147: a compile failure is retried or halts the run; the    *)
(* report that found it is never reused, by a retry or another validation, *)
(* so no gate ever sees it.                                                *)
UncompiledNeverReviewed == phase = "accept" => "code compiles" \notin report

(* An autonomous run is not turned down for findings the repair agent can  *)
(* fix, unless its repair task itself was given up.                        *)
RepairableNeverRejects ==
  outcome = "rejected" /\ ~Interactive /\ pc["repair"] # "degraded"
    => report \ Repairable # {}

(* The agents' assertions hold in any interleaving: some design lies before *)
(* all code, some code before all tests.                                   *)
InOrder(up, down) ==
  \A t \in plan.tasks : plan.cat[t] = down =>
    \E u \in Ancestors(plan.tasks, plan.dep, t) : plan.cat[u] = up

(* A run that meets fewer faults per category than there are attempts, a   *)
(* provider whose code compiles (and, for a new project, comes with a      *)
(* suite), and no failing write.                                           *)
Benign ==
  /\ \A c \in Category : request.faults[c] < MaxAttempts
  /\ IF ChangeMode THEN \A p \in Proposals, f \in PyFiles : p[f] \notin Broken
                   ELSE \A f \in PyFiles : bundle[f] \notin Broken \cup {Absent}
  /\ request.writeErrors = 0

(* On a plan that orders design, code and tests such a run never halts on a *)
(* required task, however the threads of a level share the fault budget.   *)
OrderedPlansComplete ==
  Benign /\ InOrder("design", "code") /\ InOrder("code", "tests") => outcome # "exhausted"

(* llm_provider.py:154: the linking makes "a model-authored plan safe to   *)
(* execute", or rejects it: of an accepted plan the same holds.            *)
SafePlansComplete == Benign => outcome # "exhausted"

(* The design is committed once: a second design task reuses it, also when  *)
(* both run in the same level.                                             *)
DesignCommittedOnce == [][design # 0 => design' = design]_vars

(* A file on the blackboard never disappears from it; only the summary is  *)
(* taken off while it is rewritten.                                        *)
NothingIsLost ==
  [][\A f \in File \ {"summary"} : Has(board, f) => Has(board', f)]_vars

(* A run always comes to an end and returns a result.                      *)
Termination == <>(phase = "ended")
=============================================================================
