----------------------------- MODULE LlmProvider -----------------------------
(***************************************************************************)
(* LLMProvider: how each reasoning stage is answered.  A stage asks the    *)
(* model, at most MaxRetries times per question and within the budget of   *)
(* calls and cost; whatever goes wrong ends in the deterministic engine.   *)
(* The three stages that emit parts of the generated project share one     *)
(* bundle, authored under a lock: drafted, tried in the sandbox, repaired  *)
(* at most once, and then either kept or given up for the run.             *)
(*                                                                         *)
(* A call runs in the thread of the task that made it, under the lock of   *)
(* the agent of its stage: several tasks may be of one stage, their calls  *)
(* exclude each other and see each other's results.  A task whose agent    *)
(* failed after the provider's answer is retried and may ask again.  The   *)
(* model's replies, errors and timeouts are choices inside the steps.      *)
(***************************************************************************)
EXTENDS Naturals

CONSTANTS
  MaxRetries,    \* attempts per question
  MaxCalls,      \* AGENTIC_LLM_MAX_CALLS
  MaxCost,       \* AGENTIC_LLM_MAX_COST_USD, in units of cost
  CallCost,      \* most a single call costs
  EnableCodegen, \* the model authors projects and changes
  Modes,         \* requirements of the runs: "project" and "change"
  Drafts,        \* projects and change sets the model may author
  Task, StageOf, \* who calls the provider, and which stage of it
  MaxAgain,      \* the orchestrator's retries of a task, max_attempts - 1
  MaxRuns        \* bound on the runs that use this provider

Asked == {"analyze", "decompose", "design"}  \* answered in the reply itself
Parts == {"code", "tests", "docs"}           \* answered from the bundle
Stage == Asked \cup Parts \cup {"change"}

(* What the sandbox tells about a draft.                                   *)
Verdict == {"unsafe", "uncompilable", "failing", "passing"}
Draft   == [parts : SUBSET Parts, verdict : Verdict]

ASSUME LimitsAssumption ==
  /\ MaxRetries \in Nat \ {0} /\ MaxRuns \in Nat
  /\ MaxCalls \in Nat /\ MaxCost \in Nat /\ CallCost \in Nat
  /\ EnableCodegen \in BOOLEAN
  /\ Modes \subseteq {"project", "change"} /\ Drafts \subseteq Draft

(* One analysis and one plan per run; whatever tasks the plan has.         *)
ASSUME TasksAssumption ==
  /\ StageOf \in [Task -> Stage] /\ MaxAgain \in Nat
  /\ \A t, u \in Task :
       StageOf[t] = StageOf[u] /\ StageOf[t] \in {"analyze", "decompose"} => t = u

VARIABLES
  run, mode,     \* the run in progress, counted from 1
  pc,            \* per task: where its call is
  again,         \* per task: how often it has repeated the call
  attempt,       \* per task: the attempt at the current question
  repairing,     \* per task: it is in the sandbox's repair pass
  draft,         \* per task: the files of the last reply, {} or one draft
  answer,        \* per task: who answered it
  bundle,        \* _bundle: {} for None, else the draft and the run it is of
  bundleFailed,  \* _bundle_failed
  lock,          \* _bundle_lock: {} or its holder
  requests, events, cost,  \* metrics: API calls, pipeline events, spend
  fallbacks      \* stages with a fallback record in this run

callVars    == <<pc, again, attempt, repairing, draft>>
metricsVars == <<requests, events, cost, fallbacks>>
bundleVars  == <<bundle, bundleFailed, lock>>
vars == <<run, mode, callVars, answer, bundleVars, metricsVars>>

Idle == {"idle", "answered"}
Talking == {"ask", "calling", "reply", "sandbox", "failed"}  \* inside the model's part
PC == Idle \cup Talking \cup {"waiting", "serve"}

Tasks(s)   == {t \in Task : StageOf[t] = s}
Asks(t)    == StageOf[t] \in Asked
Emits(t)   == StageOf[t] \in Parts
Changes(t) == StageOf[t] = "change"

Init ==
  /\ run = 0 /\ mode \in Modes
  /\ pc = [t \in Task |-> "idle"] /\ again = [t \in Task |-> 0]
  /\ attempt = [t \in Task |-> 0] /\ repairing = [t \in Task |-> FALSE]
  /\ draft = [t \in Task |-> {}] /\ answer = [t \in Task |-> "none"]
  /\ bundle = {} /\ bundleFailed = FALSE /\ lock = {}
  /\ requests = 0 /\ events = 0 /\ cost = 0 /\ fallbacks = {}

Goto(t, where) == pc' = [pc EXCEPT ![t] = where]
AnswerBy(t, who) == Goto(t, "answered") /\ answer' = [answer EXCEPT ![t] = who]
-----------------------------------------------------------------------------
(***************************************************************************)
(* The callers.  The orchestrator analyses, plans and walks the graph; the *)
(* agents need a design, the tests need code; tasks of a level overlap.    *)
(***************************************************************************)

(* mutant: the bundle is kept. *)
DropBundle_mutant == UNCHANGED <<bundle, bundleFailed>>
DropBundle == bundle' = {} /\ bundleFailed' = FALSE

(* analyze_requirement starts a run: it drops the previous run's bundle.   *)
StartRun ==
  /\ run < MaxRuns /\ lock = {}
  /\ \A t \in Task : pc[t] \in Idle
  /\ run' = run + 1 /\ mode' \in Modes
  /\ pc' = [t \in Task |-> IF StageOf[t] = "analyze" THEN "ask" ELSE "idle"]
  /\ again' = [t \in Task |-> 0]
  /\ attempt' = [t \in Task |-> 1] /\ repairing' = [t \in Task |-> FALSE]
  /\ draft' = [t \in Task |-> {}] /\ answer' = [t \in Task |-> "none"]
  /\ DropBundle /\ fallbacks' = {}
  /\ UNCHANGED <<requests, events, cost, lock>>

(* The stage whose answer a call needs.                                    *)
Before(s) == CASE s = "decompose" -> "analyze"
               [] s = "design"    -> "decompose"
               [] s = "tests"     -> "code"
               [] s \in {"code", "docs", "change"} -> "design"

Answered(s) == \E t \in Tasks(s) : pc[t] = "answered"

(* The templates have code; what the model authored may have none.         *)
HasCode == bundleFailed \/ \E b \in bundle : "code" \in b.draft.parts

(* base.py:42: an agent's run lock makes its looking and its acting one.   *)
AgentIsFree(s) == \A t \in Tasks(s) : pc[t] \in Idle

(* An agent reuses what it was given before, unless it was given no code,  *)
(* or a change whose files may not have been written.                      *)
MayLackResult(s) == ~Answered(s) \/ (s = "code" /\ ~HasCode) \/ s = "change"

(* Which calls the agents make.                                            *)
MayCall(t) ==
  LET s == StageOf[t]
  IN  /\ s # "analyze" /\ Answered(Before(s))
      /\ Emits(t) => mode = "project"
      /\ Changes(t) => mode = "change"
      /\ s = "tests" => HasCode
      /\ AgentIsFree(s) /\ MayLackResult(s)
      /\ \/ pc[t] = "idle" /\ UNCHANGED again
         \/ /\ pc[t] = "answered" /\ again[t] < MaxAgain
            /\ again' = [again EXCEPT ![t] = @ + 1]

Call(t) ==
  /\ MayCall(t)
  /\ attempt' = [attempt EXCEPT ![t] = 1] /\ repairing' = [repairing EXCEPT ![t] = FALSE]
  /\ \/ /\ Changes(t) /\ ~EnableCodegen
        /\ AnswerBy(t, "engine")
     \/ /\ Asks(t) \/ (Changes(t) /\ EnableCodegen)
        /\ Goto(t, "ask") /\ answer' = [answer EXCEPT ![t] = "none"]
     \/ /\ Emits(t)
        /\ Goto(t, "waiting") /\ answer' = [answer EXCEPT ![t] = "none"]
  /\ UNCHANGED <<run, mode, draft, bundleVars, metricsVars>>

(* _ensure_bundle: take the lock and author the project, unless that was   *)
(* done or given up before, or the model does not author projects.         *)
(* mutant: the lock is not waited for. *)
LockIsFree_mutant == TRUE
LockIsFree == lock = {}
ToAuthor   == EnableCodegen /\ bundle = {} /\ ~bundleFailed

EnsureBundle(t) ==
  /\ pc[t] = "waiting" /\ LockIsFree
  /\ \/ /\ ToAuthor
        /\ lock' = {t} /\ Goto(t, "ask") /\ UNCHANGED bundleFailed
     \/ /\ ~ToAuthor
        /\ bundleFailed' = (bundleFailed \/ ~EnableCodegen)
        /\ Goto(t, "serve") /\ UNCHANGED lock
  /\ UNCHANGED <<run, mode, again, attempt, repairing, draft, answer, bundle, metricsVars>>
-----------------------------------------------------------------------------
(***************************************************************************)
(* One question: _ask.                                                     *)
(***************************************************************************)
Spent == requests + events >= MaxCalls \/ cost >= MaxCost

(* _budget_check reads the records before every attempt.                   *)
CheckBudget(t) ==
  /\ pc[t] = "ask"
  /\ Goto(t, IF Spent THEN "failed" ELSE "calling")
  /\ UNCHANGED <<run, mode, again, attempt, repairing, draft, answer, bundleVars, metricsVars>>

Record(spent) ==
  /\ requests' = requests + 1 /\ cost' = cost + spent
  /\ UNCHANGED <<events, fallbacks>>

(* A reply that parses.                                                    *)
Reply(t) ==
  /\ pc[t] = "calling"
  /\ \E spent \in 0 .. CallCost : Record(spent)
  /\ \/ Asks(t) /\ UNCHANGED draft
     \/ ~Asks(t) /\ \E d \in Drafts : draft' = [draft EXCEPT ![t] = {d}]
  /\ Goto(t, "reply")
  /\ UNCHANGED <<run, mode, again, attempt, repairing, answer, bundleVars>>

MoreAttempts(t) == attempt[t] < MaxRetries

(* An error, a timeout or a reply that does not parse: the next attempt,   *)
(* if one is left.                                                         *)
Attempt(t) ==
  /\ pc[t] = "calling"
  /\ \E spent \in 0 .. CallCost : Record(spent)
  /\ \/ /\ MoreAttempts(t)
        /\ attempt' = [attempt EXCEPT ![t] = @ + 1]
        /\ Goto(t, "ask")
     \/ /\ ~MoreAttempts(t)
        /\ Goto(t, "failed") /\ UNCHANGED attempt
  /\ UNCHANGED <<run, mode, again, repairing, draft, answer, bundleVars>>

(* Output cut at the ceiling: no further attempt, but the spend counts.    *)
Truncated(t) ==
  /\ pc[t] = "calling"
  /\ \E spent \in 0 .. CallCost : Record(spent)
  /\ Goto(t, "failed")
  /\ UNCHANGED <<run, mode, again, attempt, repairing, draft, answer, bundleVars>>
-----------------------------------------------------------------------------
(***************************************************************************)
(* What becomes of a reply.                                                *)
(***************************************************************************)

(* The shape is checked: an analysis of a known kind, a valid plan, a      *)
(* design with components.                                                 *)
TakeReply(t) ==
  /\ pc[t] = "reply" /\ Asks(t)
  /\ \/ AnswerBy(t, "model")
     \/ Goto(t, "failed") /\ UNCHANGED answer
  /\ UNCHANGED <<run, mode, again, attempt, repairing, draft, bundleVars, metricsVars>>

(* A bundle needs a tests/ suite, a change set needs a changed file.       *)
Enough(t, d) == IF Changes(t) THEN d.parts # {} ELSE "tests" \in d.parts

TakeDraft(t) ==
  /\ pc[t] = "reply" /\ ~Asks(t)
  /\ Goto(t, IF \A d \in draft[t] : Enough(t, d) THEN "sandbox" ELSE "failed")
  /\ UNCHANGED <<run, mode, again, attempt, repairing, draft, answer, bundleVars, metricsVars>>

(* _validate_bundle, _validate_change: scan, compile, then run the tests.  *)
Accept(t) ==
  /\ pc[t] = "sandbox"
  /\ \E d \in draft[t] :
       /\ d.verdict = "passing"
       /\ \/ /\ Emits(t)
             /\ bundle' = {[draft |-> d, run |-> run]} /\ lock' = {}
             /\ Goto(t, "serve") /\ UNCHANGED answer
          \/ /\ Changes(t)
             /\ AnswerBy(t, "model") /\ UNCHANGED <<bundle, lock>>
  /\ UNCHANGED <<run, mode, again, attempt, repairing, draft, bundleFailed, metricsVars>>

(* A rejected draft gets one repair pass, a question of its own.           *)
Reject(t) ==
  /\ pc[t] = "sandbox"
  /\ \A d \in draft[t] : d.verdict # "passing"
  /\ \/ /\ ~repairing[t]
        /\ repairing' = [repairing EXCEPT ![t] = TRUE]
        /\ attempt' = [attempt EXCEPT ![t] = 1]
        /\ events' = events + 1
        /\ Goto(t, "ask")
     \/ /\ repairing[t] /\ Goto(t, "failed")
        /\ UNCHANGED <<repairing, attempt, events>>
  /\ UNCHANGED <<run, mode, again, draft, answer, bundleVars, requests, cost, fallbacks>>

(* The sandbox itself raises, while the draft is laid out, compiled or     *)
(* run: the handler takes over at once.                                    *)
SandboxFails(t) ==
  /\ pc[t] = "sandbox" /\ Goto(t, "failed")
  /\ UNCHANGED <<run, mode, again, attempt, repairing, draft, answer, bundleVars, metricsVars>>

(* The stage a record is of.                                               *)
RecordOf(t) == IF Asks(t) THEN StageOf[t] ELSE "codegen"

FallBackRecord(t) ==
  /\ events' = events + 1
  /\ fallbacks' = fallbacks \cup {RecordOf(t)}
  /\ UNCHANGED <<requests, cost>>

(* mutants: the failure is not remembered; the lock is not released. *)
GiveUp_forgotten == lock' = {} /\ UNCHANGED bundleFailed
GiveUp_locked    == bundleFailed' = TRUE /\ UNCHANGED lock
GiveUp == bundleFailed' = TRUE /\ lock' = {}

(* The handlers of _with_fallback, _ensure_bundle and generate_change:     *)
(* record the fallback; a bundle is given up for the whole run.            *)
FallBack(t) ==
  /\ pc[t] = "failed"
  /\ FallBackRecord(t)
  /\ \/ Emits(t) /\ GiveUp /\ Goto(t, "serve") /\ UNCHANGED answer
     \/ ~Emits(t) /\ AnswerBy(t, "engine") /\ UNCHANGED <<bundleFailed, lock>>
  /\ UNCHANGED <<run, mode, again, attempt, repairing, draft, bundle>>

(* generate_code, generate_tests, generate_docs after _ensure_bundle: the  *)
(* bundle's part, or the engine's template.                                *)
Serve(t) ==
  /\ pc[t] = "serve"
  /\ AnswerBy(t, IF bundle # {} THEN "model" ELSE "engine")
  /\ UNCHANGED <<run, mode, again, attempt, repairing, draft, bundleVars, metricsVars>>

StageStep(t) ==
  \/ EnsureBundle(t) \/ CheckBudget(t)
  \/ Reply(t) \/ Attempt(t) \/ Truncated(t)
  \/ TakeReply(t) \/ TakeDraft(t) \/ Accept(t) \/ Reject(t)
  \/ SandboxFails(t) \/ FallBack(t) \/ Serve(t)

Next == StartRun \/ \E t \in Task : Call(t) \/ StageStep(t)

Spec     == Init /\ [][Next]_vars
FairSpec == Spec /\ \A t \in Task : WF_vars(StageStep(t))
-----------------------------------------------------------------------------
(***************************************************************************)
(* Properties.                                                             *)
(***************************************************************************)

(* The provider's variables keep their types.                              *)
TypeOK ==
  /\ run \in 0 .. MaxRuns /\ mode \in {"project", "change"}
  /\ pc \in [Task -> PC] /\ again \in [Task -> 0 .. MaxAgain]
  /\ attempt \in [Task -> 0 .. MaxRetries] /\ repairing \in [Task -> BOOLEAN]
  /\ draft \in [Task -> SUBSET Drafts]
  /\ answer \in [Task -> {"none", "model", "engine"}]
  /\ bundle \subseteq [draft : Drafts, run : Nat] /\ bundleFailed \in BOOLEAN
  /\ lock \subseteq Task
  /\ requests \in Nat /\ events \in Nat /\ cost \in Nat
  /\ fallbacks \subseteq Asked \cup {"codegen"}

(* What the callers see is StageAnswers: the bundle decides the author.    *)
Promise == INSTANCE StageAnswers WITH
  Parts  <- {t \in Task : Emits(t)},
  Others <- {t \in Task : ~Emits(t)},
  author <- IF bundle # {} THEN "model" ELSE IF bundleFailed THEN "engine" ELSE "open"
AnswersStages == Promise!Spec

(* The check of the budget and the record of the call are two steps of one *)
(* task, with no other task's between them: no call is made beyond the     *)
(* limit, failed attempts and repair passes of every run counted, and the  *)
(* cost passes its limit by less than the last call.                       *)
BreakerHolds ==
  /\ requests <= MaxCalls
  /\ cost = 0 \/ cost < MaxCost + CallCost

(* A part is only ever served from a bundle of this run that has a suite   *)
(* and passed the sandbox, be it in the repair pass.                       *)
ServedIsTried ==
  /\ \A b \in bundle : /\ b.run = run
                       /\ b.draft.verdict = "passing" /\ "tests" \in b.draft.parts
  /\ \A t \in Task : Emits(t) /\ answer[t] = "model" => bundle # {}

(* The record tells the truth: an answer the engine gave in the model's    *)
(* place has its fallback record, and no part the model wrote has one.     *)
RecordIsTrue ==
  \A t \in Task :
    /\ answer[t] = "engine" /\ (Asks(t) \/ EnableCodegen) => RecordOf(t) \in fallbacks
    /\ answer[t] = "model" /\ Emits(t) => RecordOf(t) \notin fallbacks

(* Every call is answered: attempts and repair passes are bounded, and     *)
(* every way out of the authoring releases the lock the others wait for.   *)
EveryCallAnswered == \A t \in Task : pc[t] \notin Idle ~> pc[t] = "answered"
=============================================================================
