-------------------------- MODULE LlmProvider_proofs --------------------------
(***************************************************************************)
(* Theorems about LlmProvider, for any tasks, budgets, retries and drafts: *)
(* how far the circuit breaker can be overrun, what is served from the     *)
(* bundle, what the record says, and that the provider answers its callers *)
(* as StageAnswers promises.                                               *)
(***************************************************************************)
EXTENDS LlmProvider, TLAPS

(* A record of a call keeps the metrics' types.                            *)
LEMMA RecordType ==
  ASSUME TypeOK, \E spent \in 0 .. CallCost : Record(spent)
  PROVE  requests' \in Nat /\ cost' \in Nat /\ events' \in Nat /\ fallbacks' = fallbacks
BY LimitsAssumption DEF TypeOK, Record

(* The provider's type invariant holds in every reachable state.           *)
THEOREM TypeCorrect == Spec => []TypeOK
<1>1. Init => TypeOK
  <2> SUFFICES ASSUME Init PROVE TypeOK
    OBVIOUS
  <2>1. run \in 0 .. MaxRuns /\ mode \in {"project", "change"}
    BY LimitsAssumption DEF Init
  <2>2. /\ pc \in [Task -> PC] /\ attempt \in [Task -> 0 .. MaxRetries]
        /\ again \in [Task -> 0 .. MaxAgain]
    BY LimitsAssumption, TasksAssumption DEF Init, PC, Idle
  <2>3. /\ repairing \in [Task -> BOOLEAN] /\ draft \in [Task -> SUBSET Drafts]
        /\ answer \in [Task -> {"none", "model", "engine"}]
    BY DEF Init
  <2> QED
    BY <2>1, <2>2, <2>3 DEF Init, TypeOK
<1>2. TypeOK /\ [Next]_vars => TypeOK'
  <2> SUFFICES ASSUME TypeOK, [Next]_vars PROVE TypeOK'
    OBVIOUS
  <2> USE LimitsAssumption DEF TypeOK, Goto, AnswerBy, PC, Idle, Talking
  <2>1. CASE StartRun
    <3>1. run' \in 0 .. MaxRuns /\ mode' \in {"project", "change"}
      BY <2>1 DEF StartRun
    <3>2. /\ pc' \in [Task -> PC] /\ attempt' \in [Task -> 0 .. MaxRetries]
          /\ again' \in [Task -> 0 .. MaxAgain]
      BY <2>1, TasksAssumption DEF StartRun
    <3>3. /\ repairing' \in [Task -> BOOLEAN] /\ draft' \in [Task -> SUBSET Drafts]
          /\ answer' \in [Task -> {"none", "model", "engine"}]
      BY <2>1 DEF StartRun
    <3> QED
      BY <3>1, <3>2, <3>3, <2>1 DEF StartRun, DropBundle
  <2>2. ASSUME NEW s \in Task, Call(s) PROVE TypeOK'
    <3>1. pc' \in [Task -> PC] /\ answer' \in [Task -> {"none", "model", "engine"}]
      BY <2>2 DEF Call
    <3>2. again' \in [Task -> 0 .. MaxAgain]
      <4>1. again' = again \/ (again[s] < MaxAgain /\ again' = [again EXCEPT ![s] = @ + 1])
        BY <2>2 DEF Call, MayCall
      <4> QED
        BY <4>1, TasksAssumption
    <3>3. attempt' \in [Task -> 0 .. MaxRetries] /\ repairing' \in [Task -> BOOLEAN]
      BY <2>2 DEF Call
    <3> QED
      BY <3>1, <3>2, <3>3, <2>2 DEF Call, bundleVars, metricsVars
  <2>3. ASSUME NEW s \in Task, EnsureBundle(s) PROVE TypeOK'
    BY <2>3 DEF EnsureBundle, metricsVars
  <2>4. ASSUME NEW s \in Task, CheckBudget(s) PROVE TypeOK'
    BY <2>4 DEF CheckBudget, bundleVars, metricsVars
  <2>5. ASSUME NEW s \in Task, Reply(s) PROVE TypeOK'
    <3>1. draft' \in [Task -> SUBSET Drafts]
      BY <2>5 DEF Reply
    <3> QED
      BY <3>1, RecordType, <2>5 DEF Reply, bundleVars
  <2>6. ASSUME NEW s \in Task, Attempt(s) PROVE TypeOK'
    <3>1. attempt' \in [Task -> 0 .. MaxRetries]
      BY <2>6 DEF Attempt, MoreAttempts
    <3> QED
      BY <3>1, RecordType, <2>6 DEF Attempt, bundleVars
  <2>7. ASSUME NEW s \in Task, Truncated(s) PROVE TypeOK'
    BY RecordType, <2>7 DEF Truncated, bundleVars
  <2>8. ASSUME NEW s \in Task, TakeReply(s) PROVE TypeOK'
    BY <2>8 DEF TakeReply, bundleVars, metricsVars
  <2>9. ASSUME NEW s \in Task, TakeDraft(s) PROVE TypeOK'
    BY <2>9 DEF TakeDraft, bundleVars, metricsVars
  <2>10. ASSUME NEW s \in Task, Accept(s) PROVE TypeOK'
    <3>1. PICK d \in draft[s] :
            \/ bundle' = {[draft |-> d, run |-> run]} /\ lock' = {}
            \/ UNCHANGED <<bundle, lock>>
      BY <2>10 DEF Accept
    <3>2. d \in Drafts /\ run \in Nat
      BY LimitsAssumption
    <3>3. bundle' \subseteq [draft : Drafts, run : Nat] /\ lock' \subseteq Task
      BY <3>1, <3>2
    <3> QED
      BY <3>3, <2>10 DEF Accept, metricsVars
  <2>11. ASSUME NEW s \in Task, Reject(s) PROVE TypeOK'
    <3>1. attempt' \in [Task -> 0 .. MaxRetries] /\ events' \in Nat
      <4>1. attempt' = attempt \/ attempt' = [attempt EXCEPT ![s] = 1]
        BY <2>11 DEF Reject
      <4>2. events' = events \/ events' = events + 1
        BY <2>11 DEF Reject
      <4> QED
        BY <4>1, <4>2
    <3>2. repairing' \in [Task -> BOOLEAN]
      <4>1. repairing' = repairing \/ repairing' = [repairing EXCEPT ![s] = TRUE]
        BY <2>11 DEF Reject
      <4> QED
        BY <4>1
    <3>3. pc' \in [Task -> PC]
      BY <2>11 DEF Reject
    <3> QED
      BY <3>1, <3>2, <3>3, <2>11 DEF Reject, bundleVars
  <2>12. ASSUME NEW s \in Task, FallBack(s) PROVE TypeOK'
    <3>1. fallbacks' \subseteq Asked \cup {"codegen"}
      BY <2>12, TasksAssumption DEF FallBack, FallBackRecord, RecordOf, Asks
    <3>2. requests' \in Nat /\ events' \in Nat /\ cost' \in Nat
      BY <2>12 DEF FallBack, FallBackRecord
    <3>3. pc' \in [Task -> PC] /\ answer' \in [Task -> {"none", "model", "engine"}]
      BY <2>12 DEF FallBack
    <3>4. bundleFailed' \in BOOLEAN /\ lock' \subseteq Task
      BY <2>12 DEF FallBack, GiveUp
    <3> QED
      BY <3>1, <3>2, <3>3, <3>4, <2>12 DEF FallBack
  <2>13. ASSUME NEW s \in Task, Serve(s) PROVE TypeOK'
    BY <2>13 DEF Serve, bundleVars, metricsVars
  <2>14. ASSUME NEW s \in Task, SandboxFails(s) PROVE TypeOK'
    BY <2>14 DEF SandboxFails, bundleVars, metricsVars
  <2>15. CASE UNCHANGED vars
    BY <2>15 DEF vars, callVars, bundleVars, metricsVars
  <2> QED
    BY <2>1, <2>2, <2>3, <2>4, <2>5, <2>6, <2>7, <2>8, <2>9, <2>10, <2>11,
       <2>12, <2>13, <2>14, <2>15 DEF Next, StageStep
<1> QED
  BY <1>1, <1>2, PTL DEF Spec
-----------------------------------------------------------------------------
(***************************************************************************)
(* The invariants.                                                         *)
(***************************************************************************)

(* The tasks that share the bundle.                                        *)
Writers == {t \in Task : Emits(t)}

(* A call needs the answers its agent was given; only the parts of a       *)
(* project wait for the bundle and are served from it; the model is asked  *)
(* for changes only when it authors them.                                  *)
CallInv ==
  /\ \A t \in Task : answer[t] # "none" <=> pc[t] = "answered"
  /\ \A t \in Task : pc[t] # "idle" =>
       /\ StageOf[t] = "decompose" => Answered("analyze")
       /\ StageOf[t] = "design" => Answered("decompose")
       /\ t \in Writers => mode = "project" /\ Answered("design")
       /\ Changes(t) => mode = "change" /\ Answered("design")
  /\ \A t \in Task \ Writers : pc[t] \notin {"waiting", "serve"}
  /\ \A t \in Task : Changes(t) /\ (pc[t] \in Talking \/ answer[t] = "model") => EnableCodegen

(* The calls of one stage exclude each other, and the design is over when  *)
(* it is answered.                                                         *)
AloneInv ==
  /\ \A t, u \in Task : StageOf[t] = StageOf[u] /\ pc[t] \notin Idle /\ pc[u] \notin Idle => t = u
  /\ \A t \in Task : StageOf[t] = "design" /\ pc[t] \notin Idle => ~Answered("design")

(* The bundle's lock is held by the part that talks to the model.          *)
LockInv ==
  /\ \A t \in Writers : pc[t] \in Talking => lock = {t}
  /\ \A t \in lock : t \in Writers /\ pc[t] \in Talking /\ lock = {t}

(* The project is authored once: while the lock is held it is undecided,   *)
(* a part is served after it was decided, and always by the same author.   *)
BundleInv ==
  /\ bundle # {} => ~bundleFailed /\ EnableCodegen
  /\ lock # {} => bundle = {} /\ ~bundleFailed /\ EnableCodegen
  /\ \A t \in Writers : pc[t] \in {"serve", "answered"} => bundle # {} \/ bundleFailed
  /\ \A t \in Writers : /\ answer[t] = "model" => bundle # {}
                        /\ answer[t] = "engine" => bundle = {}

(* What is in the sandbox has a suite, what is in the bundle passed.       *)
TriedInv ==
  /\ \A t \in Writers : pc[t] = "sandbox" => \A d \in draft[t] : "tests" \in d.parts
  /\ \A b \in bundle : /\ b.run = run
                       /\ b.draft.verdict = "passing" /\ "tests" \in b.draft.parts

(* The tasks between their check of the budget and their record, each of   *)
(* which may still add a call and its cost to what is recorded.            *)
Out == {t \in Task : pc[t] = "calling"}
BudgetInv ==
  /\ BreakerHolds
  /\ Out # {} => requests < MaxCalls /\ cost < MaxCost

(* A fallback is recorded by the call that gives up, and by it alone.      *)
RecordInv ==
  /\ \A t \in Task : answer[t] = "engine" /\ (Asks(t) \/ EnableCodegen) => RecordOf(t) \in fallbacks
  /\ EnableCodegen /\ bundleFailed => "codegen" \in fallbacks
  /\ mode = "project" /\ "codegen" \in fallbacks => bundleFailed

(* A task's stage is of one of the three kinds.                            *)
LEMMA Kinds ==
  ASSUME NEW t \in Task
  PROVE  /\ StageOf[t] \in Stage /\ (t \in Writers <=> Emits(t))
         /\ Asks(t) <=> ~Emits(t) /\ ~Changes(t)
         /\ Emits(t) => ~Changes(t)
         /\ Asks(t) => StageOf[t] \in {"analyze", "decompose", "design"}
BY TasksAssumption DEF Writers, Emits, Asks, Changes, Stage, Asked, Parts
-----------------------------------------------------------------------------
(***************************************************************************)
(* Calls and the lock.                                                     *)
(***************************************************************************)

(* What a call's step does: it moves the task's program counter to w.      *)
Moves(s, w) ==
  /\ pc[s] \notin Idle /\ w \in PC \ {"idle", "waiting"}
  /\ pc' = [pc EXCEPT ![s] = w] /\ mode' = mode
  /\ w # "answered" => answer' = answer
  /\ \/ w # "answered"
     \/ answer' = [answer EXCEPT ![s] = "engine"]
     \/ answer' = [answer EXCEPT ![s] = "model"] /\ (pc[s] \in Talking \/ s \in Writers)
  /\ w = "serve" => s \in Writers
  /\ \/ pc[s] = "waiting" /\ w = "ask" /\ lock = {} /\ lock' = {s}
     \/ pc[s] = "waiting" /\ w = "serve" /\ lock' = lock
     \/ pc[s] = "serve" /\ w = "answered" /\ lock' = lock
     \/ pc[s] \in Talking /\ w \in Talking /\ lock' = lock
     \/ pc[s] \in Talking /\ w = "serve" /\ lock' = {}
     \/ pc[s] \in Talking /\ w = "answered" /\ s \notin Writers /\ lock' = lock

LEMMA StepMoves ==
  ASSUME TypeOK, CallInv, NEW s \in Task, StageStep(s)
  PROVE  \E w \in PC \ {"idle", "waiting"} : Moves(s, w)
<1> USE Kinds DEF Moves, PC, Idle, Talking, Goto, AnswerBy
<1>1. CASE EnsureBundle(s)
  <2>1. s \in Writers /\ pc[s] = "waiting" /\ lock = {}
    BY <1>1 DEF EnsureBundle, LockIsFree, CallInv
  <2>2. \/ pc' = [pc EXCEPT ![s] = "ask"] /\ lock' = {s}
        \/ pc' = [pc EXCEPT ![s] = "serve"] /\ lock' = lock
    BY <1>1 DEF EnsureBundle
  <2>3. mode' = mode /\ answer' = answer
    BY <1>1 DEF EnsureBundle
  <2>4. Moves(s, "ask") \/ Moves(s, "serve")
    BY <2>1, <2>2, <2>3
  <2> QED
    BY <2>4
<1>2. CASE CheckBudget(s)
  <2>1. Moves(s, "failed") \/ Moves(s, "calling")
    BY <1>2 DEF CheckBudget, bundleVars
  <2> QED
    BY <2>1
<1>3. CASE Reply(s)
  <2>1. Moves(s, "reply")
    BY <1>3 DEF Reply, bundleVars
  <2> QED
    BY <2>1
<1>4. CASE Attempt(s)
  <2>1. Moves(s, "ask") \/ Moves(s, "failed")
    BY <1>4 DEF Attempt, bundleVars
  <2> QED
    BY <2>1
<1>5. CASE Truncated(s)
  <2>1. Moves(s, "failed")
    BY <1>5 DEF Truncated, bundleVars
  <2> QED
    BY <2>1
<1>6. CASE TakeReply(s)
  <2>1. s \notin Writers
    BY <1>6 DEF TakeReply
  <2>2. Moves(s, "answered") \/ Moves(s, "failed")
    BY <2>1, <1>6 DEF TakeReply, bundleVars
  <2> QED
    BY <2>2
<1>7. CASE TakeDraft(s)
  <2>1. Moves(s, "sandbox") \/ Moves(s, "failed")
    BY <1>7 DEF TakeDraft, bundleVars
  <2> QED
    BY <2>1
<1>8. CASE Accept(s)
  <2>1. Changes(s) => s \notin Writers
    OBVIOUS
  <2>2. Moves(s, "serve") \/ Moves(s, "answered")
    BY <2>1, <1>8 DEF Accept
  <2> QED
    BY <2>2
<1>9. CASE Reject(s)
  <2>1. Moves(s, "ask") \/ Moves(s, "failed")
    BY <1>9 DEF Reject, bundleVars
  <2> QED
    BY <2>1
<1>10. CASE FallBack(s)
  <2>1. Moves(s, "serve") \/ Moves(s, "answered")
    BY <1>10 DEF FallBack, GiveUp
  <2> QED
    BY <2>1
<1>11. CASE Serve(s)
  <2>1. Moves(s, "answered")
    BY <1>11 DEF Serve, bundleVars, CallInv
  <2> QED
    BY <2>1
<1>12. CASE SandboxFails(s)
  <2>1. Moves(s, "failed")
    BY <1>12 DEF SandboxFails, bundleVars
  <2> QED
    BY <2>1
<1> QED
  BY <1>1, <1>2, <1>3, <1>4, <1>5, <1>6, <1>7, <1>8, <1>9, <1>10, <1>11, <1>12 DEF StageStep

(* Before a task talks to the model, what its stage needs was answered.    *)
LEMMA Chain ==
  ASSUME TypeOK, CallInv, NEW t \in Task, pc[t] # "idle"
  PROVE  /\ StageOf[t] # "analyze" => Answered("analyze")
         /\ StageOf[t] \notin {"analyze", "decompose"} => Answered("decompose")
<1>1. ASSUME NEW u \in Task, StageOf[u] = "design", pc[u] # "idle"
      PROVE  Answered("decompose")
  BY <1>1 DEF CallInv
<1>2. Answered("design") => Answered("decompose")
  BY <1>1 DEF Answered, Tasks
<1>3. Answered("decompose") => Answered("analyze")
  BY DEF Answered, Tasks, CallInv
<1>4. StageOf[t] \notin {"analyze", "decompose", "design"} => Answered("design")
  BY Kinds DEF CallInv
<1> QED
  BY <1>1, <1>2, <1>3, <1>4 DEF CallInv

(* The analysis and the plan are made alone: their tasks are unique, and   *)
(* whoever else talks has seen their answer.                               *)
LEMMA AskedAlone ==
  ASSUME TypeOK, CallInv, NEW t \in Task, NEW u \in Task,
         pc[t] \in Talking, pc[u] \in Talking, StageOf[t] \in {"analyze", "decompose"}
  PROVE  u = t
<1>1. pc[u] # "idle" /\ pc[t] # "idle" /\ pc[t] # "answered" /\ pc[u] # "answered"
  BY DEF Talking
<1>2. CASE StageOf[u] = StageOf[t]
  BY <1>2, TasksAssumption
<1>3. CASE StageOf[u] # StageOf[t]
  <2>1. Answered(StageOf[t]) => FALSE
    BY <1>1, TasksAssumption DEF Answered, Tasks
  <2>2. Answered(StageOf[u]) /\ StageOf[u] \in {"analyze", "decompose"} => FALSE
    BY <1>1, TasksAssumption DEF Answered, Tasks
  <2> QED
    BY <1>1, <1>3, <2>1, <2>2, Chain
<1> QED
  BY <1>2, <1>3

(* Only one task at a time talks to the model: the design is answered      *)
(* before changes and parts begin, and the parts wait for the lock.        *)
LEMMA OneTalks ==
  ASSUME TypeOK, CallInv, AloneInv, LockInv, NEW t \in Task, NEW u \in Task,
         pc[t] \in Talking, pc[u] \in Talking
  PROVE  t = u
<1>1. pc[t] \notin Idle /\ pc[u] \notin Idle /\ pc[t] # "idle" /\ pc[u] # "idle"
  BY DEF Talking, Idle
<1>2. CASE StageOf[t] = StageOf[u]
  BY <1>1, <1>2 DEF AloneInv
<1>3. CASE StageOf[t] \in {"analyze", "decompose"} \/ StageOf[u] \in {"analyze", "decompose"}
  BY <1>3, AskedAlone
<1>4. ASSUME NEW x \in Task, NEW y \in Task, pc[x] \notin Idle, pc[y] # "idle",
             StageOf[x] = "design", y \in Writers \/ Changes(y)
      PROVE  FALSE
  BY <1>4 DEF CallInv, AloneInv
<1>5. CASE /\ t \in Writers \/ Changes(t)
           /\ u \in Writers \/ Changes(u)
  <2>1. CASE t \in Writers /\ u \in Writers
    BY <2>1 DEF LockInv
  <2>2. CASE Changes(t) /\ Changes(u)
    BY <2>2, <1>2 DEF Changes
  <2> QED
    BY <1>1, <1>5, <2>1, <2>2 DEF CallInv
<1>6. ASSUME NEW x \in Task
      PROVE  \/ StageOf[x] \in {"analyze", "decompose", "design"}
             \/ x \in Writers \/ Changes(x)
  BY Kinds
<1> QED
  BY <1>1, <1>2, <1>3, <1>4, <1>5, <1>6

(* What a call needs is answered: for tests, by way of the code.           *)
LEMMA NeedsAnswered ==
  ASSUME CallInv, NEW s \in Task, MayCall(s)
  PROVE  /\ StageOf[s] # "analyze"
         /\ StageOf[s] = "decompose" => Answered("analyze")
         /\ StageOf[s] = "design" => Answered("decompose")
         /\ s \in Writers => mode = "project" /\ Answered("design")
         /\ Changes(s) => mode = "change" /\ Answered("design")
<1>1. StageOf[s] # "analyze" /\ Answered(Before(StageOf[s]))
      /\ (Emits(s) => mode = "project") /\ (Changes(s) => mode = "change")
  BY DEF MayCall
<1>2. Answered("code") => Answered("design")
  <2> SUFFICES ASSUME NEW u \in Task, StageOf[u] = "code", pc[u] = "answered"
               PROVE  Answered("design")
    BY DEF Answered, Tasks
  <2>1. u \in Writers
    BY DEF Writers, Emits, Parts
  <2> QED
    BY <2>1 DEF CallInv
<1>3. CASE Emits(s)
  <2>1. Before(StageOf[s]) \in {"code", "design"}
    BY <1>3 DEF Before, Emits, Parts
  <2> QED
    BY <1>1, <1>2, <1>3, <2>1, Kinds DEF Changes, Emits, Parts
<1>4. CASE Changes(s)
  BY <1>1, <1>4, Kinds DEF Changes, Before
<1>5. CASE Asks(s)
  BY <1>1, <1>5, Kinds DEF Before
<1> QED
  BY <1>3, <1>4, <1>5, Kinds

(* The analysis, the plan and the designs are asked for once per task.     *)
LEMMA AnswersStay ==
  ASSUME TypeOK, CallInv, NEW s \in Task, NEW w \in PC, pc' = [pc EXCEPT ![s] = w],
         pc[s] # "answered" \/ ~Asks(s), NEW x \in Asked
  PROVE  Answered(x) => Answered(x)'
<1> SUFFICES ASSUME NEW u \in Task, StageOf[u] = x, pc[u] = "answered" PROVE Answered(x)'
  BY DEF Answered, Tasks
<1>1. u # s
  BY DEF Asks
<1>2. pc'[u] = "answered"
  BY <1>1 DEF TypeOK
<1> QED
  BY <1>2 DEF Answered, Tasks

LEMMA CallsHold == Spec => [](CallInv /\ LockInv)
<1>1. Init => CallInv /\ LockInv
  BY DEF Init, CallInv, LockInv, Talking, Writers
<1>2. TypeOK /\ CallInv /\ LockInv /\ [Next]_vars => CallInv' /\ LockInv'
  <2> SUFFICES ASSUME TypeOK, CallInv, LockInv, [Next]_vars PROVE CallInv' /\ LockInv'
    OBVIOUS
  <2>0. Writers \subseteq Task /\ {"analyze", "decompose", "design"} \subseteq Asked
    BY DEF Writers, Asked
  <2>1. CASE StartRun
    <3>1. \A t \in Task : /\ pc'[t] = (IF StageOf[t] = "analyze" THEN "ask" ELSE "idle")
                          /\ answer'[t] = "none"
      BY <2>1 DEF StartRun
    <3>2. lock' = {}
      BY <2>1 DEF StartRun
    <3>3. \A t \in Task : StageOf[t] = "analyze" => t \notin Writers /\ ~Changes(t)
      BY DEF Writers, Emits, Parts, Changes
    <3> QED
      BY <2>0, <3>1, <3>2, <3>3 DEF CallInv, LockInv, Talking
  <2>2. ASSUME NEW s \in Task, Call(s) PROVE CallInv' /\ LockInv'
    <3>1. /\ MayCall(s) /\ mode' = mode /\ lock' = lock
          /\ pc[s] = "idle" \/ (pc[s] = "answered" /\ (Changes(s) \/ StageOf[s] = "code"))
      BY <2>2 DEF Call, MayCall, MayLackResult, Answered, Tasks, Changes, bundleVars
    <3>2. PICK w \in {"answered", "ask", "waiting"}, a \in {"none", "engine"} :
            /\ pc' = [pc EXCEPT ![s] = w] /\ answer' = [answer EXCEPT ![s] = a]
            /\ w = "answered" <=> a = "engine"
            /\ w = "waiting" <=> s \in Writers
            /\ w = "ask" /\ Changes(s) => EnableCodegen
      BY <2>2, Kinds DEF Call, Goto, AnswerBy
    <3>3. w \in PC
      BY DEF PC, Idle, Talking
    <3>4. pc[s] # "answered" \/ ~Asks(s)
      BY <3>1, Kinds
    <3>5. \A x \in Asked : Answered(x) => Answered(x)'
      BY <3>2, <3>3, <3>4, AnswersStay
    <3>6. CallInv'
      <4>1. \A t \in Task : answer'[t] # "none" <=> pc'[t] = "answered"
        BY <3>2 DEF CallInv, TypeOK
      <4>2. ASSUME NEW t \in Task, pc'[t] # "idle"
            PROVE  /\ StageOf[t] = "decompose" => Answered("analyze")'
                   /\ StageOf[t] = "design" => Answered("decompose")'
                   /\ t \in Writers => mode' = "project" /\ Answered("design")'
                   /\ Changes(t) => mode' = "change" /\ Answered("design")'
        <5>1. CASE t = s
          BY <2>0, <3>1, <3>5, <5>1, NeedsAnswered
        <5>2. CASE t # s
          BY <2>0, <3>1, <3>2, <3>5, <4>2, <5>2 DEF CallInv, TypeOK
        <5> QED
          BY <5>1, <5>2
      <4>3. /\ \A t \in Task \ Writers : pc'[t] \notin {"waiting", "serve"}
            /\ \A t \in Task : Changes(t) /\ (pc'[t] \in Talking \/ answer'[t] = "model")
                                 => EnableCodegen
        BY <3>2 DEF CallInv, TypeOK, Talking
      <4> QED
        BY <4>1, <4>2, <4>3 DEF CallInv, Writers, Emits, Changes
    <3>7. LockInv'
      <4>1. s \in Writers => w = "waiting"
        BY <3>2
      <4>2. pc[s] \notin Talking /\ "waiting" \notin Talking
        BY <3>1 DEF Talking
      <4>3. Writers' = Writers
        BY DEF Writers, Emits
      <4> QED
        BY <2>0, <3>1, <3>2, <4>1, <4>2, <4>3 DEF LockInv, TypeOK
    <3> QED
      BY <3>6, <3>7
  <2>3. ASSUME NEW s \in Task, StageStep(s) PROVE CallInv' /\ LockInv'
    <3>1. PICK w \in PC \ {"idle", "waiting"} : Moves(s, w)
      BY <2>3, StepMoves
    <3>2. pc[s] # "answered" /\ pc[s] # "idle" /\ pc' = [pc EXCEPT ![s] = w] /\ mode' = mode
      BY <3>1 DEF Moves, Idle
    <3>3. \A x \in Asked : Answered(x) => Answered(x)'
      BY <3>2, AnswersStay
    <3>4. CallInv'
      <4>1. \A t \in Task : answer'[t] # "none" <=> pc'[t] = "answered"
        BY <3>1 DEF Moves, CallInv, TypeOK, Idle
      <4>2. ASSUME NEW t \in Task, pc'[t] # "idle"
            PROVE  /\ StageOf[t] = "decompose" => Answered("analyze")'
                   /\ StageOf[t] = "design" => Answered("decompose")'
                   /\ t \in Writers => mode' = "project" /\ Answered("design")'
                   /\ Changes(t) => mode' = "change" /\ Answered("design")'
        <5>1. pc[t] # "idle"
          BY <3>2, <4>2 DEF TypeOK
        <5> QED
          BY <2>0, <3>2, <3>3, <5>1 DEF CallInv
      <4>3. \A t \in Task \ Writers : pc'[t] \notin {"waiting", "serve"}
        BY <3>1 DEF Moves, CallInv, TypeOK
      <4>4. \A t \in Task : Changes(t) /\ (pc'[t] \in Talking \/ answer'[t] = "model")
                              => EnableCodegen
        <5>1. Changes(s) => s \notin Writers /\ pc[s] # "waiting" /\ pc[s] # "serve"
          BY Kinds DEF CallInv
        <5> QED
          BY <5>1, <3>1 DEF Moves, CallInv, TypeOK, Talking
      <4> QED
        BY <4>1, <4>2, <4>3, <4>4 DEF CallInv, Writers, Emits, Changes
    <3>5. LockInv'
      <4>1. w # "serve" \/ pc[s] = "waiting" \/ lock = {s}
        BY <3>1 DEF Moves, LockInv
      <4>2. pc[s] = "waiting" => s \in Writers
        BY DEF CallInv
      <4>3. Writers' = Writers
        BY DEF Writers, Emits
      <4> QED
        BY <2>0, <4>1, <4>2, <4>3, <3>1 DEF Moves, LockInv, TypeOK, Talking
    <3> QED
      BY <3>4, <3>5
  <2>4. CASE UNCHANGED vars
    BY <2>4 DEF vars, callVars, bundleVars, CallInv, LockInv, Answered, Tasks, Writers,
                Emits, Changes
  <2> QED
    BY <2>1, <2>2, <2>3, <2>4 DEF Next
<1> QED
  BY <1>1, <1>2, TypeCorrect, PTL DEF Spec
(* The agents' locks: no two calls of one stage, and one design.           *)
LEMMA AloneHolds == Spec => []AloneInv
<1>1. Init => AloneInv
  BY DEF Init, AloneInv, Idle
<1>2. TypeOK /\ CallInv /\ AloneInv /\ [Next]_vars => AloneInv'
  <2> SUFFICES ASSUME TypeOK, CallInv, AloneInv, [Next]_vars PROVE AloneInv'
    OBVIOUS
  <2>1. CASE StartRun
    <3>1. \A t \in Task : pc'[t] = IF StageOf[t] = "analyze" THEN "ask" ELSE "idle"
      BY <2>1 DEF StartRun
    <3>2. \A t \in Task : pc'[t] \notin Idle => StageOf[t] = "analyze"
      BY <3>1 DEF Idle
    <3> QED
      BY <3>2, TasksAssumption DEF AloneInv
  <2>2. ASSUME NEW s \in Task, Call(s) PROVE AloneInv'
    <3>1. PICK w \in {"answered", "ask", "waiting"} :
            /\ pc' = [pc EXCEPT ![s] = w]
            /\ StageOf[s] = "design" => w = "ask"
      BY <2>2, Kinds DEF Call, Goto, AnswerBy, Emits, Changes, Parts
    <3>2. /\ \A t \in Task : StageOf[t] = StageOf[s] => pc[t] \in Idle
          /\ StageOf[s] = "design" => ~Answered("design")
      BY <2>2 DEF Call, MayCall, AgentIsFree, MayLackResult, Tasks
    <3>3. \A t \in Task : t # s => pc'[t] = pc[t]
      BY <3>1 DEF TypeOK
    <3>4. ASSUME NEW t \in Task, NEW u \in Task, StageOf[t] = StageOf[u],
                 pc'[t] \notin Idle, pc'[u] \notin Idle
          PROVE  t = u
      BY <3>2, <3>3, <3>4 DEF AloneInv
    <3>5. ASSUME NEW t \in Task, StageOf[t] = "design", pc'[t] \notin Idle
          PROVE  ~Answered("design")'
      <4>1. ~Answered("design")
        BY <3>2, <3>3, <3>5 DEF AloneInv
      <4>2. StageOf[s] = "design" => pc'[s] # "answered"
        BY <3>1 DEF TypeOK
      <4> QED
        BY <3>3, <4>1, <4>2 DEF Answered, Tasks
    <3> QED
      BY <3>4, <3>5 DEF AloneInv
  <2>3. ASSUME NEW s \in Task, StageStep(s) PROVE AloneInv'
    <3>1. PICK w \in PC : pc[s] \notin Idle /\ pc' = [pc EXCEPT ![s] = w]
      BY <2>3, StepMoves DEF Moves
    <3>2. \A t \in Task : (t # s => pc'[t] = pc[t]) /\ (pc'[t] \notin Idle => pc[t] \notin Idle)
      BY <3>1 DEF TypeOK
    <3>3. ASSUME NEW t \in Task, StageOf[t] = "design", pc'[t] \notin Idle
          PROVE  ~Answered("design")'
      <4>1. ~Answered("design") /\ pc[t] \notin Idle
        BY <3>2, <3>3 DEF AloneInv
      <4>2. ASSUME NEW u \in Task, StageOf[u] = "design" PROVE pc'[u] # "answered"
        <5>1. CASE u = s
          <6>1. u = t
            BY <3>1, <3>3, <4>1, <4>2, <5>1 DEF AloneInv
          <6> QED
            BY <3>3, <6>1 DEF Idle
        <5>2. CASE u # s
          BY <3>2, <4>1, <4>2, <5>2 DEF Answered, Tasks
        <5> QED
          BY <5>1, <5>2
      <4> QED
        BY <4>2 DEF Answered, Tasks
    <3> QED
      BY <3>2, <3>3 DEF AloneInv
  <2>4. CASE UNCHANGED vars
    BY <2>4 DEF vars, callVars, AloneInv, Answered, Tasks
  <2> QED
    BY <2>1, <2>2, <2>3, <2>4 DEF Next
<1> QED
  BY <1>1, <1>2, TypeCorrect, CallsHold, PTL DEF Spec
-----------------------------------------------------------------------------
(***************************************************************************)
(* The circuit breaker.                                                    *)
(***************************************************************************)

(* For any number of tasks, runs, retries and drafts: no call is made      *)
(* beyond the limit, and the cost passes its limit by less than one call.  *)
THEOREM BreakerBound == Spec => []BreakerHolds
<1>1. Init => BudgetInv
  BY LimitsAssumption DEF Init, BudgetInv, BreakerHolds, Out
<1>2. TypeOK /\ CallInv /\ AloneInv /\ LockInv /\ BudgetInv /\ [Next]_vars => BudgetInv'
  <2> SUFFICES ASSUME TypeOK, CallInv, AloneInv, LockInv, BudgetInv, [Next]_vars
               PROVE  BudgetInv'
    OBVIOUS
  <2>1. ASSUME Out' = Out, UNCHANGED <<requests, cost>> PROVE BudgetInv'
    BY <2>1 DEF BudgetInv, BreakerHolds
  <2>2. CASE StartRun
    <3>1. Out = {} /\ Out' = {}
      BY <2>2 DEF StartRun, Out, Idle
    <3> QED
      BY <2>1, <2>2, <3>1 DEF StartRun
  <2>3. ASSUME NEW s \in Task, NEW w \in PC \ {"calling"}, pc[s] # "calling",
               pc' = [pc EXCEPT ![s] = w], UNCHANGED <<requests, cost>>
        PROVE  BudgetInv'
    <3>1. Out' = Out
      BY <2>3 DEF Out, TypeOK
    <3> QED
      BY <2>1, <2>3, <3>1
  <2>4. ASSUME NEW s \in Task, Call(s) PROVE BudgetInv'
    <3>1. pc[s] # "calling" /\ UNCHANGED <<requests, cost>>
      BY <2>4 DEF Call, MayCall, metricsVars
    <3>2. \E w \in PC \ {"calling"} : pc' = [pc EXCEPT ![s] = w]
      BY <2>4 DEF Call, Goto, AnswerBy, PC, Idle, Talking
    <3> QED
      BY <2>3, <3>1, <3>2
  <2>5. ASSUME NEW s \in Task, CheckBudget(s) PROVE BudgetInv'
    <3>1. pc[s] = "ask" /\ UNCHANGED <<requests, cost>>
      BY <2>5 DEF CheckBudget, metricsVars
    <3>2. CASE Spent
      <4>1. pc' = [pc EXCEPT ![s] = "failed"] /\ "failed" \in PC \ {"calling"}
        BY <2>5, <3>2 DEF CheckBudget, Goto, PC, Talking
      <4> QED
        BY <2>3, <3>1, <4>1
    <3>3. CASE ~Spent
      <4>1. requests < MaxCalls /\ cost < MaxCost
        BY <3>3, LimitsAssumption DEF Spent, TypeOK
      <4> QED
        BY <3>1, <4>1 DEF BudgetInv, BreakerHolds
    <3> QED
      BY <3>2, <3>3
  <2>6. ASSUME NEW s \in Task, Reply(s) \/ Attempt(s) \/ Truncated(s) PROVE BudgetInv'
    <3>1. pc[s] = "calling"
      BY <2>6 DEF Reply, Attempt, Truncated
    <3>2. PICK w \in PC \ {"calling"} : pc' = [pc EXCEPT ![s] = w]
      BY <2>6 DEF Reply, Attempt, Truncated, Goto, PC, Talking
    <3>3. PICK spent \in 0 .. CallCost : requests' = requests + 1 /\ cost' = cost + spent
      BY <2>6 DEF Reply, Attempt, Truncated, Record
    <3>4. \A t \in Out : t = s
      BY <3>1, OneTalks DEF Out, Talking
    <3>5. Out' = {}
      BY <3>2, <3>4 DEF Out, TypeOK
    <3>6. requests < MaxCalls /\ cost < MaxCost
      BY <3>1 DEF BudgetInv, Out
    <3>7. BreakerHolds'
      BY <3>3, <3>6, LimitsAssumption DEF TypeOK, BreakerHolds
    <3> QED
      BY <3>5, <3>7 DEF BudgetInv
  <2>7. ASSUME NEW s \in Task,
               \/ EnsureBundle(s) \/ TakeReply(s) \/ TakeDraft(s) \/ Accept(s)
               \/ Reject(s) \/ SandboxFails(s) \/ FallBack(s) \/ Serve(s)
        PROVE  BudgetInv'
    <3>1. pc[s] # "calling" /\ UNCHANGED <<requests, cost>>
      BY <2>7 DEF EnsureBundle, TakeReply, TakeDraft, Accept, Reject, SandboxFails, FallBack,
                  FallBackRecord, Serve, metricsVars
    <3>2. \E w \in PC \ {"calling"} : pc' = [pc EXCEPT ![s] = w]
      BY <2>7 DEF EnsureBundle, TakeReply, TakeDraft, Accept, Reject, SandboxFails, FallBack, Serve,
                  Goto, AnswerBy, PC, Idle, Talking
    <3> QED
      BY <2>3, <3>1, <3>2
  <2>8. CASE UNCHANGED vars
    BY <2>1, <2>8 DEF vars, callVars, metricsVars, Out
  <2> QED
    BY <2>2, <2>4, <2>5, <2>6, <2>7, <2>8 DEF Next, StageStep
<1>3. BudgetInv => BreakerHolds
  BY DEF BudgetInv
<1> QED
  BY <1>1, <1>2, <1>3, TypeCorrect, CallsHold, AloneHolds, PTL DEF Spec
-----------------------------------------------------------------------------
(***************************************************************************)
(* The bundle.                                                             *)
(***************************************************************************)

(* In the sandbox a part of a project holds the lock.                      *)
LEMMA TalkersHoldTheLock ==
  ASSUME LockInv, NEW s \in Writers, pc[s] \in Talking
  PROVE  lock = {s} /\ \A t \in Writers : pc[t] \in Talking => t = s
BY DEF LockInv

(* As long as nobody is served or answered anew, nothing is decided.       *)
LEMMA KeepsBundle ==
  ASSUME BundleInv, UNCHANGED <<bundle, bundleFailed, lock, answer>>, Writers' = Writers,
         \A t \in Writers : pc'[t] \in {"serve", "answered"} => pc[t] \in {"serve", "answered"}
  PROVE  BundleInv'
<1>1. \A t \in Writers : pc'[t] \in {"serve", "answered"} => bundle # {} \/ bundleFailed
  BY DEF BundleInv
<1>2. /\ bundle' # {} => ~bundleFailed' /\ EnableCodegen
      /\ lock' # {} => bundle' = {} /\ ~bundleFailed' /\ EnableCodegen
      /\ \A t \in Writers : /\ answer'[t] = "model" => bundle' # {}
                            /\ answer'[t] = "engine" => bundle' = {}
  BY DEF BundleInv
<1> QED
  BY <1>1, <1>2 DEF BundleInv

LEMMA BundleHolds == Spec => [](BundleInv /\ TriedInv)
<1>1. Init => BundleInv /\ TriedInv
  BY DEF Init, BundleInv, TriedInv, Writers
<1>2. TypeOK /\ CallInv /\ LockInv /\ BundleInv /\ TriedInv /\ [Next]_vars
        => BundleInv' /\ TriedInv'
  <2> SUFFICES ASSUME TypeOK, CallInv, LockInv, BundleInv, TriedInv, [Next]_vars
               PROVE  BundleInv' /\ TriedInv'
    OBVIOUS
  <2> USE DEF Goto, AnswerBy
  <2>0. Writers \subseteq Task /\ Writers' = Writers
    BY DEF Writers, Emits
  <2>1. CASE StartRun
    <3>1. \A t \in Task : pc'[t] \in {"ask", "idle"} /\ answer'[t] = "none"
      BY <2>1 DEF StartRun
    <3>2. bundle' = {} /\ bundleFailed' = FALSE /\ lock' = {}
      BY <2>1 DEF StartRun, DropBundle
    <3> QED
      BY <3>1, <3>2, <2>0 DEF BundleInv, TriedInv
  <2>2. ASSUME NEW s \in Task, Call(s) PROVE BundleInv' /\ TriedInv'
    <3>1. UNCHANGED <<bundle, bundleFailed, lock, run, draft>>
      BY <2>2 DEF Call, bundleVars
    <3>2. \A t \in Writers : \/ answer'[t] = answer[t] /\ pc'[t] = pc[t]
                             \/ answer'[t] = "none" /\ pc'[t] = "waiting"
      <4>1. CASE s \in Writers
        <5>1. ~Asks(s) /\ ~Changes(s)
          BY <4>1, Kinds
        <5> QED
          BY <5>1, <2>0, <2>2 DEF Call, TypeOK
      <4>2. CASE s \notin Writers
        BY <4>2, <2>0, <2>2 DEF Call, TypeOK
      <4> QED
        BY <4>1, <4>2
    <3> QED
      BY <2>0, <3>1, <3>2 DEF BundleInv, TriedInv
  <2>3. ASSUME NEW s \in Task, EnsureBundle(s) PROVE BundleInv' /\ TriedInv'
    <3>1. s \in Writers
      BY <2>3 DEF EnsureBundle, CallInv
    <3>2. \A t \in Writers : t # s => pc'[t] = pc[t]
      BY <2>0, <2>3 DEF EnsureBundle, TypeOK
    <3>3. UNCHANGED <<bundle, run, draft, answer>>
      BY <2>3 DEF EnsureBundle
    <3>4. CASE ToAuthor
      <4>1. pc'[s] = "ask" /\ UNCHANGED bundleFailed
        BY <3>4, <2>3 DEF EnsureBundle, TypeOK
      <4> QED
        BY <2>0, <3>2, <3>3, <3>4, <4>1 DEF BundleInv, TriedInv, ToAuthor
    <3>5. CASE ~ToAuthor
      <4>1. /\ pc'[s] = "serve" /\ lock' = lock
            /\ bundleFailed' = (bundleFailed \/ ~EnableCodegen) /\ lock = {}
        BY <3>5, <2>3 DEF EnsureBundle, LockIsFree, TypeOK
      <4>2. bundle # {} \/ bundleFailed'
        BY <3>5, <4>1 DEF ToAuthor
      <4> QED
        BY <2>0, <3>2, <3>3, <4>1, <4>2 DEF BundleInv, TriedInv
    <3> QED
      BY <3>4, <3>5
  <2>4. ASSUME NEW s \in Task, NEW w \in Talking \ {"sandbox"},
               pc' = [pc EXCEPT ![s] = w],
               UNCHANGED <<bundle, bundleFailed, lock, run, answer>>,
               \A t \in Writers : t # s => draft'[t] = draft[t]
        PROVE  BundleInv' /\ TriedInv'
    <3>1. \A t \in Writers : /\ pc'[t] \in {"serve", "answered"} => pc[t] \in {"serve", "answered"}
                             /\ pc'[t] = "sandbox" => pc[t] = "sandbox" /\ t # s
      BY <2>0, <2>4 DEF TypeOK, Talking
    <3>0. UNCHANGED <<bundle, bundleFailed, lock, answer>>
      BY <2>4
    <3>5. \A t \in Writers : pc'[t] \in {"serve", "answered"} => pc[t] \in {"serve", "answered"}
      BY <3>1
    <3>2. BundleInv'
      BY <2>0, <3>0, <3>5, KeepsBundle
    <3>3. /\ \A t \in Writers : pc'[t] = "sandbox" => \A d \in draft'[t] : "tests" \in d.parts
      BY <3>1, <2>4 DEF TriedInv
    <3>4. TriedInv'
      BY <2>0, <2>4, <3>3 DEF TriedInv
    <3> QED
      BY <3>2, <3>4
  <2>5. ASSUME NEW s \in Task,
               \/ CheckBudget(s) \/ Attempt(s) \/ Truncated(s)
               \/ Reject(s) \/ SandboxFails(s)
        PROVE  BundleInv' /\ TriedInv'
    <3>1. UNCHANGED <<bundle, bundleFailed, lock, run, answer, draft>>
      BY <2>5 DEF CheckBudget, Attempt, Truncated, Reject, SandboxFails, bundleVars
    <3>2. PICK w \in Talking \ {"sandbox"} : pc' = [pc EXCEPT ![s] = w]
      BY <2>5 DEF CheckBudget, Attempt, Truncated, Reject, SandboxFails, Talking
    <3> QED
      BY <2>4, <3>1, <3>2
  <2>6. ASSUME NEW s \in Task, Reply(s) PROVE BundleInv' /\ TriedInv'
    <3>1. UNCHANGED <<bundle, bundleFailed, lock, run, answer>>
      BY <2>6 DEF Reply, bundleVars
    <3>2. \A t \in Writers : t # s => draft'[t] = draft[t]
      BY <2>0, <2>6 DEF Reply, TypeOK
    <3>3. pc' = [pc EXCEPT ![s] = "reply"] /\ "reply" \in Talking \ {"sandbox"}
      BY <2>6 DEF Reply, Talking
    <3> QED
      BY <2>4, <3>1, <3>2, <3>3
  <2>7. ASSUME NEW s \in Task, TakeReply(s) PROVE BundleInv' /\ TriedInv'
    <3>1. UNCHANGED <<bundle, bundleFailed, lock, run, draft>>
      BY <2>7 DEF TakeReply, bundleVars
    <3>2. \A t \in Writers : answer'[t] = answer[t] /\ pc'[t] = pc[t]
      BY <2>0, <2>7, Kinds DEF TakeReply, TypeOK
    <3> QED
      BY <2>0, <3>1, <3>2 DEF BundleInv, TriedInv
  <2>8. ASSUME NEW s \in Task, TakeDraft(s) PROVE BundleInv' /\ TriedInv'
    <3>1. UNCHANGED <<bundle, bundleFailed, lock, run, draft, answer>>
      BY <2>8 DEF TakeDraft, bundleVars
    <3>2. \/ pc' = [pc EXCEPT ![s] = "failed"]
          \/ pc' = [pc EXCEPT ![s] = "sandbox"] /\ \A d \in draft[s] : Enough(s, d)
      BY <2>8 DEF TakeDraft
    <3>3. CASE pc' = [pc EXCEPT ![s] = "failed"]
      BY <2>4, <3>1, <3>3 DEF Talking
    <3>4. CASE pc' = [pc EXCEPT ![s] = "sandbox"] /\ \A d \in draft[s] : Enough(s, d)
      <4>2. s \in Writers => \A d \in draft[s] : "tests" \in d.parts
        BY <3>4, Kinds DEF Enough
      <4>3. \A t \in Writers : /\ pc'[t] \in {"serve", "answered"} => pc[t] \in {"serve", "answered"}
                               /\ pc'[t] = "sandbox" => pc[t] = "sandbox" \/ t = s
        BY <2>0, <3>4 DEF TypeOK
      <4>7. \A t \in Writers : pc'[t] \in {"serve", "answered"} => pc[t] \in {"serve", "answered"}
        BY <4>3
      <4>4. BundleInv'
        BY <2>0, <3>1, <4>7, KeepsBundle
      <4>5. \A t \in Writers : pc'[t] = "sandbox" => \A d \in draft[t] : "tests" \in d.parts
        BY <4>2, <4>3 DEF TriedInv
      <4>6. TriedInv'
        BY <2>0, <3>1, <4>5 DEF TriedInv
      <4> QED
        BY <4>4, <4>6
    <3> QED
      BY <3>2, <3>3, <3>4
  <2>9. ASSUME NEW s \in Task, Accept(s) PROVE BundleInv' /\ TriedInv'
    <3>1. pc[s] = "sandbox" /\ UNCHANGED <<run, draft, bundleFailed>>
      BY <2>9 DEF Accept
    <3>2. PICK d \in draft[s] :
            /\ d.verdict = "passing"
            /\ \/ /\ Emits(s) /\ bundle' = {[draft |-> d, run |-> run]} /\ lock' = {}
                  /\ pc' = [pc EXCEPT ![s] = "serve"] /\ UNCHANGED answer
               \/ /\ Changes(s) /\ pc' = [pc EXCEPT ![s] = "answered"]
                  /\ answer' = [answer EXCEPT ![s] = "model"] /\ UNCHANGED <<bundle, lock>>
      BY <2>9 DEF Accept
    <3>3. CASE Changes(s)
      <4>1. \A t \in Writers : answer'[t] = answer[t] /\ pc'[t] = pc[t]
        BY <2>0, <3>2, <3>3, Kinds DEF TypeOK
      <4>2. UNCHANGED <<bundle, lock>>
        BY <3>2, <3>3, Kinds
      <4> QED
        BY <2>0, <3>1, <4>1, <4>2 DEF BundleInv, TriedInv
    <3>4. CASE s \in Writers
      <4>1. /\ bundle' = {[draft |-> d, run |-> run]} /\ lock' = {}
            /\ pc' = [pc EXCEPT ![s] = "serve"] /\ answer' = answer
        BY <3>2, <3>4, Kinds
      <4>2. lock = {s} /\ bundle = {} /\ ~bundleFailed /\ EnableCodegen
        BY <3>1, <3>4, TalkersHoldTheLock DEF Talking, BundleInv
      <4>3. "tests" \in d.parts
        BY <3>1, <3>4, <3>2 DEF TriedInv
      <4>4. \A t \in Writers : answer[t] = "none"
        BY <2>0, <4>2 DEF BundleInv, CallInv, TypeOK
      <4>5. \A t \in Writers : pc'[t] = "sandbox" => pc[t] = "sandbox"
        BY <2>0, <4>1 DEF TypeOK
      <4>6. BundleInv'
        BY <2>0, <3>1, <4>1, <4>2, <4>4 DEF BundleInv
      <4>7. TriedInv'
        BY <2>0, <3>1, <3>2, <4>1, <4>3, <4>5 DEF TriedInv
      <4> QED
        BY <4>6, <4>7
    <3> QED
      BY <3>2, <3>3, <3>4, Kinds
  <2>10. ASSUME NEW s \in Task, FallBack(s) PROVE BundleInv' /\ TriedInv'
    <3>1. pc[s] = "failed" /\ UNCHANGED <<run, draft, bundle>>
      BY <2>10 DEF FallBack
    <3>2. CASE s \notin Writers
      <4>1. \A t \in Writers : answer'[t] = answer[t] /\ pc'[t] = pc[t]
        BY <2>0, <3>2, <2>10, Kinds DEF FallBack, TypeOK
      <4>2. UNCHANGED <<bundleFailed, lock>>
        BY <3>2, <2>10, Kinds DEF FallBack
      <4> QED
        BY <2>0, <3>1, <4>1, <4>2 DEF BundleInv, TriedInv
    <3>3. CASE s \in Writers
      <4>1. /\ bundleFailed' = TRUE /\ lock' = {} /\ answer' = answer
            /\ pc' = [pc EXCEPT ![s] = "serve"]
        BY <3>3, <2>10, Kinds DEF FallBack, GiveUp
      <4>2. bundle = {}
        BY <3>1, <3>3, TalkersHoldTheLock DEF Talking, BundleInv
      <4>3. \A t \in Writers : pc'[t] = "sandbox" => pc[t] = "sandbox"
        BY <2>0, <4>1 DEF TypeOK
      <4> QED
        BY <2>0, <3>1, <4>1, <4>2, <4>3 DEF BundleInv, TriedInv
    <3> QED
      BY <3>2, <3>3
  <2>11. ASSUME NEW s \in Task, Serve(s) PROVE BundleInv' /\ TriedInv'
    <3>1. pc[s] = "serve" /\ UNCHANGED <<bundle, bundleFailed, lock, run, draft>>
      BY <2>11 DEF Serve, bundleVars
    <3>2. \A t \in Writers :
            /\ pc'[t] \in {"serve", "answered"} => pc[t] \in {"serve", "answered"}
            /\ pc'[t] = "sandbox" => pc[t] = "sandbox"
      BY <2>0, <2>11, <3>1 DEF Serve, TypeOK
    <3>3. \A t \in Writers : answer'[t] = answer[t] \/ answer'[t] = (IF bundle # {} THEN "model" ELSE "engine")
      BY <2>0, <2>11 DEF Serve, TypeOK
    <3> QED
      BY <2>0, <3>1, <3>2, <3>3 DEF BundleInv, TriedInv
  <2>12. CASE UNCHANGED vars
    BY <2>12, <2>0 DEF vars, callVars, bundleVars, BundleInv, TriedInv
  <2> QED
    BY <2>1, <2>2, <2>3, <2>5, <2>6, <2>7, <2>8, <2>9, <2>10, <2>11, <2>12 DEF Next, StageStep
<1> QED
  BY <1>1, <1>2, TypeCorrect, CallsHold, PTL DEF Spec

(* Whatever is served from a bundle passed the sandbox in this run.        *)
THEOREM ServedWasTried == Spec => []ServedIsTried
<1>1. BundleInv /\ TriedInv => ServedIsTried
  BY DEF BundleInv, TriedInv, ServedIsTried, Writers
<1> QED
  BY <1>1, BundleHolds, PTL
-----------------------------------------------------------------------------
(***************************************************************************)
(* The refinement.                                                         *)
(***************************************************************************)
ProjectAuthor == IF bundle # {} THEN "model" ELSE IF bundleFailed THEN "engine" ELSE "open"

LEMMA StutterMaps ==
  ASSUME UNCHANGED <<answer, bundle, bundleFailed>>
  PROVE  UNCHANGED Promise!answerVars
BY DEF Promise!answerVars

LEMMA ChoiceMaps ==
  ASSUME ProjectAuthor = "open", ProjectAuthor' \in {"model", "engine"}, answer' = answer
  PROVE  Promise!Next
BY DEF ProjectAuthor, Promise!Next, Promise!ChooseAuthor, Promise!Author

LEMMA StagesMap == Promise!Stage = Task
BY DEF Promise!Stage

LEMMA AnswerMaps ==
  ASSUME CallInv, NEW s \in Task, pc[s] # "answered", NEW a \in {"model", "engine"},
         answer' = [answer EXCEPT ![s] = a], UNCHANGED <<bundle, bundleFailed>>,
         s \in Writers => a = ProjectAuthor
  PROVE  Promise!Next
<1>1. answer[s] = "none"
  BY DEF CallInv
<1>2. Promise!Answer(s)
  BY <1>1, Kinds DEF Promise!Answer, Promise!Author, ProjectAuthor
<1> QED
  BY <1>2, StagesMap DEF Promise!Next

LEMMA AskAgainMaps ==
  ASSUME NEW s \in Task, answer' = [answer EXCEPT ![s] = "none"],
         UNCHANGED <<bundle, bundleFailed>>
  PROVE  Promise!Next
<1>1. Promise!AskAgain(s)
  BY DEF Promise!AskAgain
<1> QED
  BY <1>1, StagesMap DEF Promise!Next

(* For every number of attempts, budget and reply, the provider answers    *)
(* its callers as StageAnswers promises: the parts of a project all by the *)
(* author the bundle's fate decides, however often they are asked for.     *)
THEOREM KeepsThePromise == Spec => AnswersStages
<1>1. Init => Promise!Init
  BY StagesMap DEF Init, Promise!Init, Promise!Unanswered
<1>2. TypeOK /\ CallInv /\ LockInv /\ BundleInv /\ [Next]_vars
        => [Promise!Next]_(Promise!answerVars)
  <2> SUFFICES ASSUME TypeOK, CallInv, LockInv, BundleInv, [Next]_vars
               PROVE  Promise!Next \/ UNCHANGED Promise!answerVars
    OBVIOUS
  <2> USE DEF Goto, AnswerBy
  <2>1. CASE StartRun
    <3>1. answer' = [s \in Task |-> "none"] /\ bundle' = {} /\ bundleFailed' = FALSE
      BY <2>1 DEF StartRun, DropBundle
    <3>2. Promise!Start
      BY <3>1, StagesMap DEF Promise!Start, Promise!Unanswered
    <3> QED
      BY <3>2 DEF Promise!Next
  <2>2. ASSUME NEW s \in Task, Call(s) PROVE Promise!Next \/ UNCHANGED Promise!answerVars
    <3>1. UNCHANGED <<bundle, bundleFailed>>
      BY <2>2 DEF Call, bundleVars
    <3>2. CASE answer' = [answer EXCEPT ![s] = "none"]
      BY <3>1, <3>2, AskAgainMaps
    <3>3. CASE Changes(s) /\ ~EnableCodegen /\ answer' = [answer EXCEPT ![s] = "engine"]
      <4>1. CASE pc[s] # "answered"
        BY <3>1, <3>3, <4>1, AnswerMaps, Kinds
      <4>2. CASE pc[s] = "answered"
        <5>1. answer[s] = "engine"
          BY <3>3, <4>2 DEF CallInv, TypeOK
        <5>2. answer' = answer
          BY <3>3, <5>1 DEF TypeOK
        <5> QED
          BY <3>1, <5>2, StutterMaps
      <4> QED
        BY <4>1, <4>2
    <3> QED
      BY <2>2, <3>2, <3>3 DEF Call
  <2>3. ASSUME NEW s \in Task, EnsureBundle(s)
        PROVE  Promise!Next \/ UNCHANGED Promise!answerVars
    <3>1. /\ UNCHANGED <<answer, bundle>>
          /\ bundleFailed' \in BOOLEAN /\ (bundleFailed => bundleFailed')
      <4>1. UNCHANGED <<answer, bundle>>
        BY <2>3 DEF EnsureBundle
      <4>2. (bundleFailed' = bundleFailed) \/ (bundleFailed' = (bundleFailed \/ ~EnableCodegen))
        BY <2>3 DEF EnsureBundle
      <4>3. bundleFailed \in BOOLEAN /\ EnableCodegen \in BOOLEAN
        BY LimitsAssumption DEF TypeOK
      <4> QED
        BY <4>1, <4>2, <4>3, Zenon
    <3>2. CASE bundleFailed' = bundleFailed
      BY <3>1, <3>2, StutterMaps
    <3>3. CASE bundle # {}
      BY <3>1, <3>3 DEF Promise!answerVars
    <3>4. CASE bundleFailed' # bundleFailed /\ bundle = {}
      <4>1. ProjectAuthor = "open" /\ ProjectAuthor' = "engine"
        BY <3>1, <3>4 DEF ProjectAuthor, TypeOK
      <4> QED
        BY <3>1, <4>1, ChoiceMaps
    <3> QED
      BY <3>2, <3>3, <3>4
  <2>4. ASSUME NEW s \in Task, TakeReply(s)
        PROVE  Promise!Next \/ UNCHANGED Promise!answerVars
    <3>1. pc[s] = "reply" /\ s \notin Writers /\ UNCHANGED <<bundle, bundleFailed>>
      BY <2>4, Kinds DEF TakeReply, bundleVars
    <3>2. UNCHANGED answer \/ answer' = [answer EXCEPT ![s] = "model"]
      BY <2>4 DEF TakeReply
    <3> QED
      BY <3>1, <3>2, StutterMaps, AnswerMaps
  <2>5. ASSUME NEW s \in Task, Accept(s)
        PROVE  Promise!Next \/ UNCHANGED Promise!answerVars
    <3>1. pc[s] = "sandbox" /\ UNCHANGED bundleFailed
      BY <2>5 DEF Accept
    <3>2. \/ Emits(s) /\ bundle' # {} /\ UNCHANGED answer
          \/ /\ Changes(s) /\ UNCHANGED bundle
             /\ answer' = [answer EXCEPT ![s] = "model"]
      BY <2>5 DEF Accept
    <3>3. CASE s \in Writers
      <4>1. bundle = {} /\ ~bundleFailed
        BY <3>1, <3>3, TalkersHoldTheLock DEF Talking, BundleInv
      <4>2. bundle' # {} /\ UNCHANGED answer
        BY <3>2, <3>3, Kinds
      <4>3. ProjectAuthor = "open" /\ ProjectAuthor' = "model"
        BY <4>1, <4>2 DEF ProjectAuthor
      <4> QED
        BY <4>2, <4>3, ChoiceMaps
    <3>4. CASE s \notin Writers
      BY <3>1, <3>2, <3>4, AnswerMaps, Kinds
    <3> QED
      BY <3>3, <3>4
  <2>6. ASSUME NEW s \in Task, FallBack(s)
        PROVE  Promise!Next \/ UNCHANGED Promise!answerVars
    <3>1. pc[s] = "failed" /\ UNCHANGED bundle
      BY <2>6 DEF FallBack
    <3>2. CASE s \in Writers
      <4>1. bundle = {} /\ ~bundleFailed
        BY <3>1, <3>2, TalkersHoldTheLock DEF Talking, BundleInv
      <4>2. bundleFailed' = TRUE /\ UNCHANGED answer
        BY <3>2, <2>6, Kinds DEF FallBack, GiveUp
      <4>3. ProjectAuthor = "open" /\ ProjectAuthor' = "engine"
        BY <3>1, <4>1, <4>2 DEF ProjectAuthor
      <4> QED
        BY <4>2, <4>3, ChoiceMaps
    <3>3. CASE s \notin Writers
      <4>1. answer' = [answer EXCEPT ![s] = "engine"] /\ UNCHANGED bundleFailed
        BY <3>3, <2>6, Kinds DEF FallBack
      <4> QED
        BY <3>1, <3>3, <4>1, AnswerMaps
    <3> QED
      BY <3>2, <3>3
  <2>7. ASSUME NEW s \in Task, Serve(s)
        PROVE  Promise!Next \/ UNCHANGED Promise!answerVars
    <3>1. /\ pc[s] = "serve" /\ UNCHANGED <<bundle, bundleFailed>>
          /\ answer' = [answer EXCEPT ![s] = IF bundle # {} THEN "model" ELSE "engine"]
      BY <2>7 DEF Serve, bundleVars
    <3>2. s \in Writers /\ (bundle # {} \/ bundleFailed)
      BY <3>1 DEF CallInv, BundleInv
    <3>3. (IF bundle # {} THEN "model" ELSE "engine") = ProjectAuthor
      BY <3>2 DEF ProjectAuthor
    <3> QED
      BY <3>1, <3>3, AnswerMaps
  <2>8. ASSUME NEW s \in Task,
               \/ CheckBudget(s) \/ Reply(s) \/ Attempt(s) \/ Truncated(s)
               \/ TakeDraft(s) \/ Reject(s) \/ SandboxFails(s)
        PROVE  UNCHANGED Promise!answerVars
    <3>1. UNCHANGED <<answer, bundle, bundleFailed>>
      BY <2>8 DEF CheckBudget, Reply, Attempt, Truncated, TakeDraft, Reject, SandboxFails, bundleVars
    <3> QED
      BY <3>1, StutterMaps
  <2>9. CASE UNCHANGED vars
    BY <2>9, StutterMaps DEF vars, bundleVars
  <2> QED
    BY <2>1, <2>2, <2>3, <2>4, <2>5, <2>6, <2>7, <2>8, <2>9 DEF Next, StageStep
<1> QED
  BY <1>1, <1>2, TypeCorrect, CallsHold, BundleHolds, PTL DEF Spec, AnswersStages, Promise!Spec

(* Every project has one author: it is chosen once and answers every part  *)
(* that is asked for after that, as of whatever keeps the promise.         *)
THEOREM ProjectsHaveOneAuthor == Spec => [](Promise!TypeOK /\ Promise!OneAuthor)
<1> DEFINE Kept == /\ Promise!TypeOK /\ Promise!OneAuthor
                   /\ ProjectAuthor = "open" => \A s \in Writers : answer[s] = "none"
<1> USE DEF ProjectAuthor, Writers
<1>1. Promise!Init => Kept
  BY DEF Promise!Init, Promise!TypeOK, Promise!OneAuthor, Promise!Unanswered, Promise!Stage
<1>2. Kept /\ [Promise!Next]_(Promise!answerVars) => Kept'
  <2> SUFFICES ASSUME Kept, [Promise!Next]_(Promise!answerVars) PROVE Kept'
    OBVIOUS
  <2> USE DEF Promise!TypeOK, Promise!OneAuthor, Promise!Stage, Promise!Author
  <2>1. CASE Promise!Start
    BY <2>1 DEF Promise!Start, Promise!Unanswered
  <2>2. CASE Promise!ChooseAuthor
    BY <2>2 DEF Promise!ChooseAuthor
  <2>3. ASSUME NEW s \in Promise!Stage, Promise!Answer(s) PROVE Kept'
    <3>1. PICK a \in Promise!Author : /\ Emits(s) => a = ProjectAuthor
                                      /\ answer' = [answer EXCEPT ![s] = a]
      BY <2>3 DEF Promise!Answer
    <3>2. ProjectAuthor' = ProjectAuthor
      BY <2>3 DEF Promise!Answer
    <3> QED
      BY <3>1, <3>2
  <2>4. ASSUME NEW s \in Promise!Stage, Promise!AskAgain(s) PROVE Kept'
    BY <2>4 DEF Promise!AskAgain
  <2>5. CASE UNCHANGED Promise!answerVars
    BY <2>5 DEF Promise!answerVars
  <2> QED
    BY <2>1, <2>2, <2>3, <2>4, <2>5 DEF Promise!Next
<1> QED
  BY <1>1, <1>2, KeepsThePromise, PTL DEF AnswersStages, Promise!Spec
-----------------------------------------------------------------------------
(***************************************************************************)
(* The record.                                                             *)
(***************************************************************************)

(* The kinds of records: a stage of its own for what is asked, "codegen"   *)
(* for everything the model authors.                                       *)
LEMMA Records ==
  ASSUME NEW t \in Task
  PROVE  /\ Asks(t) => RecordOf(t) = StageOf[t] /\ RecordOf(t) # "codegen"
         /\ ~Asks(t) => RecordOf(t) = "codegen"
BY DEF RecordOf, Asks, Asked

(* The run's record names a fallback for what the engine answered in the   *)
(* model's place, and none for the parts of a project the model authored.  *)
THEOREM RecordHolds == Spec => []RecordIsTrue
<1>1. Init => RecordInv
  BY DEF Init, RecordInv
<1>2. TypeOK /\ CallInv /\ LockInv /\ BundleInv /\ RecordInv /\ [Next]_vars => RecordInv'
  <2> SUFFICES ASSUME TypeOK, CallInv, LockInv, BundleInv, RecordInv, [Next]_vars
               PROVE  RecordInv'
    OBVIOUS
  <2> USE DEF Goto, AnswerBy
  <2>0. \A t \in Task : RecordOf(t)' = RecordOf(t) /\ Asks(t)' = Asks(t)
    BY DEF RecordOf, Asks
  <2>1. CASE StartRun
    <3>1. /\ \A t \in Task : answer'[t] = "none"
          /\ bundleFailed' = FALSE /\ fallbacks' = {}
      BY <2>1 DEF StartRun, DropBundle
    <3> QED
      BY <2>0, <3>1 DEF RecordInv
  <2>2. ASSUME UNCHANGED <<fallbacks, bundleFailed, mode>>,
               \A t \in Task : answer'[t] = "engine" =>
                 answer[t] = "engine" \/ (~Asks(t) /\ ~EnableCodegen)
                                     \/ RecordOf(t) \in fallbacks
        PROVE  RecordInv'
    <3>1. \A t \in Task : answer'[t] = "engine" /\ (Asks(t) \/ EnableCodegen)
                            => RecordOf(t) \in fallbacks'
      BY <2>2 DEF RecordInv
    <3> QED
      BY <2>0, <2>2, <3>1 DEF RecordInv
  <2>3. ASSUME NEW s \in Task, Call(s) PROVE RecordInv'
    <3>1. UNCHANGED <<fallbacks, bundleFailed, mode>>
      BY <2>3 DEF Call, bundleVars, metricsVars
    <3>2. CASE answer' = [answer EXCEPT ![s] = "none"]
      BY <2>2, <3>1, <3>2 DEF TypeOK
    <3>3. CASE Changes(s) /\ ~EnableCodegen /\ answer' = [answer EXCEPT ![s] = "engine"]
      BY <2>2, <3>1, <3>3, Kinds DEF TypeOK
    <3> QED
      BY <2>3, <3>2, <3>3 DEF Call
  <2>4. ASSUME NEW s \in Task, EnsureBundle(s) PROVE RecordInv'
    <3>1. UNCHANGED <<fallbacks, answer, mode>>
      BY <2>4 DEF EnsureBundle, metricsVars
    <3>2. CASE EnableCodegen
      <4>1. (bundleFailed' = bundleFailed) \/ (bundleFailed' = (bundleFailed \/ ~EnableCodegen))
        BY <2>4 DEF EnsureBundle
      <4>2. bundleFailed' = bundleFailed
        BY <4>1, <3>2, Zenon DEF TypeOK
      <4> QED
        BY <2>2, <3>1, <4>2
    <3>3. CASE ~EnableCodegen
      <4>1. \A t \in Task : Asks(t) /\ answer[t] = "engine" => RecordOf(t) \in fallbacks
        BY DEF RecordInv
      <4>2. mode = "project" /\ "codegen" \in fallbacks => bundleFailed'
        <5>1. (bundleFailed' = bundleFailed) \/ (bundleFailed' = (bundleFailed \/ ~EnableCodegen))
          BY <2>4 DEF EnsureBundle
        <5> QED
          BY <5>1, <3>3, Zenon DEF RecordInv
      <4> QED
        BY <2>0, <3>1, <3>3, <4>1, <4>2 DEF RecordInv
    <3> QED
      BY <3>2, <3>3
  <2>5. ASSUME NEW s \in Task, TakeReply(s) \/ Accept(s) PROVE RecordInv'
    <3>1. UNCHANGED answer \/ answer' = [answer EXCEPT ![s] = "model"]
      BY <2>5 DEF TakeReply, Accept
    <3>2. UNCHANGED <<fallbacks, bundleFailed, mode>>
      BY <2>5 DEF TakeReply, Accept, bundleVars, metricsVars
    <3> QED
      BY <2>2, <3>1, <3>2 DEF TypeOK
  <2>6. ASSUME NEW s \in Task, FallBack(s) PROVE RecordInv'
    <3>1. pc[s] = "failed" /\ mode' = mode /\ fallbacks' = fallbacks \cup {RecordOf(s)}
      BY <2>6 DEF FallBack, FallBackRecord
    <3>2. CASE s \in Writers
      <4>1. bundleFailed' = TRUE /\ answer' = answer
        BY <3>2, <2>6, Kinds DEF FallBack, GiveUp
      <4>2. RecordOf(s) = "codegen"
        BY <3>2, Kinds, Records
      <4> QED
        BY <2>0, <3>1, <4>1, <4>2 DEF RecordInv
    <3>3. CASE s \notin Writers
      <4>1. bundleFailed' = bundleFailed /\ answer' = [answer EXCEPT ![s] = "engine"]
        BY <3>3, <2>6, Kinds DEF FallBack
      <4>2. \A t \in Task : answer'[t] = "engine" /\ (Asks(t) \/ EnableCodegen)
                              => RecordOf(t) \in fallbacks'
        BY <3>1, <4>1 DEF RecordInv, TypeOK
      <4>3. mode = "project" => RecordOf(s) # "codegen"
        <5>1. mode = "project" => Asks(s)
          BY <3>1, <3>3, Kinds DEF CallInv
        <5> QED
          BY <5>1, Records
      <4> QED
        BY <2>0, <3>1, <4>1, <4>2, <4>3 DEF RecordInv
    <3> QED
      BY <3>2, <3>3
  <2>7. ASSUME NEW s \in Task, Serve(s) PROVE RecordInv'
    <3>1. /\ UNCHANGED <<fallbacks, bundleFailed, mode>>
          /\ answer' = [answer EXCEPT ![s] = IF bundle # {} THEN "model" ELSE "engine"]
          /\ pc[s] = "serve"
      BY <2>7 DEF Serve, bundleVars, metricsVars
    <3>2. s \in Writers /\ (bundle # {} \/ bundleFailed)
      BY <3>1 DEF CallInv, BundleInv
    <3>3. bundle = {} => ~EnableCodegen \/ RecordOf(s) \in fallbacks
      BY <3>2, Kinds, Records DEF RecordInv
    <3> QED
      BY <2>2, <3>1, <3>2, <3>3, Kinds DEF TypeOK
  <2>8. ASSUME NEW s \in Task,
               \/ CheckBudget(s) \/ Reply(s) \/ Attempt(s) \/ Truncated(s)
               \/ TakeDraft(s) \/ Reject(s) \/ SandboxFails(s)
        PROVE  RecordInv'
    <3>1. UNCHANGED <<answer, fallbacks, bundleFailed, mode>>
      BY <2>8 DEF CheckBudget, Reply, Attempt, Truncated, TakeDraft, Reject, SandboxFails, Record,
                  bundleVars, metricsVars
    <3> QED
      BY <2>2, <3>1
  <2>9. CASE UNCHANGED vars
    BY <2>2, <2>9 DEF vars, bundleVars, metricsVars
  <2> QED
    BY <2>1, <2>3, <2>4, <2>5, <2>6, <2>7, <2>8, <2>9 DEF Next, StageStep
<1>3. TypeOK /\ CallInv /\ BundleInv /\ RecordInv => RecordIsTrue
  <2> SUFFICES ASSUME TypeOK, CallInv, BundleInv, RecordInv, NEW t \in Task,
                      answer[t] = "model", Emits(t)
               PROVE  RecordOf(t) \notin fallbacks
    BY DEF RecordIsTrue, RecordInv
  <2>1. t \in Writers /\ RecordOf(t) = "codegen"
    BY Kinds, Records
  <2>2. ~bundleFailed
    BY <2>1 DEF BundleInv
  <2>3. mode = "project"
    <3>1. pc[t] # "idle"
      BY DEF CallInv
    <3> QED
      BY <2>1, <3>1 DEF CallInv
  <2> QED
    BY <2>1, <2>2, <2>3 DEF RecordInv
<1> QED
  BY <1>1, <1>2, <1>3, TypeCorrect, CallsHold, BundleHolds, PTL DEF Spec
=============================================================================
