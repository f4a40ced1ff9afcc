--------------------------- MODULE Pipeline_proofs ---------------------------
(***************************************************************************)
(* What becomes a pull request, for every number of workflow runs, every    *)
(* traffic, every record an agent may leave, and any number of re-runs and  *)
(* failed calls to GitHub.                                                  *)
(***************************************************************************)
EXTENDS Pipeline, TLAPS

(* The agent run a workflow run points at is its own.                      *)
OwnRun ==
  \A w \in Run : out[w].id # 0 =>
    /\ made[out[w].id].by = w /\ made[out[w].id].event = event[w]
    /\ out[w].asks = made[out[w].id].record.asked

(* Where the agent job succeeded, there is a run and it is reviewable.     *)
SuccessIsReviewable ==
  \A w \in Run : job[w]["agent"] = "success" =>
    out[w].id # 0 /\ Reviewable(event[w], made[out[w].id].record)

(* What was accepted built something a maintainer could review.            *)
AcceptedIsReviewable ==
  \A id \in accepted :
    Reviewable(made[id].event, made[id].record) /\ ~made[id].record.asked

(* Only accepted runs have a branch, and it holds what they left.          *)
BranchesAreAccepted ==
  /\ DOMAIN branch \subseteq accepted
  /\ \A id \in DOMAIN branch : branch[id] = Content(made[id].record)

IInv == /\ TypeOK /\ OwnRun /\ SuccessIsReviewable
        /\ AcceptedIsReviewable /\ BranchesAreAccepted

(* An accepted run passed the gates the pull request promises.             *)
LEMMA ReviewablePasses ==
  ASSUME NEW e, NEW r, Reviewable(e, r), ~r.asked
  PROVE  /\ r.validation = "passed" /\ ~r.halted
         /\ e.provider # "deterministic" \/ OnIssue(e) => r.llm = "model"
  BY DEF Reviewable, ExitCode, Provider, OnIssue

(* apply_change.py writes only what the run listed and left, and keeps the  *)
(* endings of uniform files.                                                *)
LEMMA ContentIsFaithful ==
  ASSUME NEW r
  PROVE  /\ DOMAIN Content(r) \subseteq r.listed \cap r.found
         /\ "CHANGES.diff" \in r.found =>
              \A p \in DOMAIN Content(r) \cap DOMAIN Tree :
                Tree[p] # "mixed" => Content(r)[p] = Tree[p]
  BY TreeAssumption DEF Content, Placed, EndingOf, Ending

LEMMA InitEstablishes == Init => IInv
<1> SUFFICES ASSUME Init PROVE IInv
  OBVIOUS
<1>1. made = <<>> /\ Len(made) = 0 /\ DOMAIN branch = {}
  BY DEF Init
<1>2. made \in Seq([by : Run, event : Event, record : Records])
  BY <1>1
<1>3. TypeOK
  BY <1>1, <1>2, BoundsAssumption DEF Init, TypeOK, AllJobs, NoOutput, Job
<1>4. OwnRun /\ SuccessIsReviewable
  BY DEF Init, OwnRun, SuccessIsReviewable, AllJobs, NoOutput, Job
<1>5. AcceptedIsReviewable /\ BranchesAreAccepted
  BY <1>1 DEF Init, AcceptedIsReviewable, BranchesAreAccepted
<1> QED
  BY <1>3, <1>4, <1>5 DEF IInv

(* Steps that leave agent runs and proposals alone, and make no agent job   *)
(* a success, keep the invariant.                                           *)
LEMMA QuietStep ==
  ASSUME IInv, TypeOK', UNCHANGED <<event, made, accepted, branch, proposals>>,
         \A w \in Run : out'[w] = out[w] \/ out'[w].id = 0,
         \A w \in Run : job'[w]["agent"] = "success" =>
           job[w]["agent"] = "success" /\ out'[w] = out[w]
  PROVE  IInv'
<1>1. OwnRun'
  BY DEF IInv, OwnRun
<1>2. SuccessIsReviewable'
  BY DEF IInv, SuccessIsReviewable
<1>3. AcceptedIsReviewable' /\ BranchesAreAccepted'
  BY DEF IInv, AcceptedIsReviewable, BranchesAreAccepted
<1> QED
  BY <1>1, <1>2, <1>3 DEF IInv

(* Entering the concurrency group changes the states only.                 *)
LEMMA EnterTypes ==
  ASSUME TypeOK, NEW w \in Run, Enter(w)
  PROVE  state' \in [Run -> {"none", "queued", "active", "cancelled", "done"}]
  BY DEF TypeOK, Enter

(* An agent run is appended under a new id; the runs before it stay.       *)
LEMMA AgentRunStep ==
  ASSUME IInv, NEW w \in Run, AgentRun(w)
  PROVE  IInv'
<1> USE DEF IInv
<1>1. PICK r \in Possible(event[w]), published \in BOOLEAN :
        /\ made' = Append(made, [by |-> w, event |-> event[w], record |-> r])
        /\ out' = [out EXCEPT ![w] = [id |-> Len(made) + 1, asks |-> r.asked]]
        /\ (IF published THEN Called ELSE Failed(w))
        /\ uploaded' = [uploaded EXCEPT ![w] = IF published THEN Len(made) + 1 ELSE @]
        /\ job' = [job EXCEPT ![w]["agent"] =
                     IF published /\ Reviewable(event[w], r) THEN "success" ELSE "failure"]
  BY DEF AgentRun
<1>2. r \in Records
  BY DEF Possible
<1>3. [by |-> w, event |-> event[w], record |-> r] \in [by : Run, event : Event, record : Records]
  BY <1>2, TrafficAssumption DEF TypeOK
<1>4. /\ made' \in Seq([by : Run, event : Event, record : Records])
      /\ Len(made') = Len(made) + 1 /\ Len(made) \in Nat
      /\ \A i \in 1 .. Len(made) : made'[i] = made[i]
      /\ made'[Len(made) + 1] = [by |-> w, event |-> event[w], record |-> r]
  BY <1>1, <1>3 DEF TypeOK
<1>5. UNCHANGED <<event, state, comments, accepted, branch, proposals, reruns>>
  BY DEF AgentRun
<1>6. TypeOK'
  <2>1. hiccups' \in 0 .. MaxHiccups /\ disturbed' \subseteq Run
    BY <1>1, BoundsAssumption DEF TypeOK, Called, Failed
  <2>2. out' \in [Run -> [id : 0 .. Len(made'), asks : BOOLEAN]]
    <3>1. r.asked \in BOOLEAN
      BY <1>2, RecordsAssumption DEF Record
    <3> QED
      BY <1>1, <1>4, <3>1 DEF TypeOK
  <2>3. uploaded' \in [Run -> 0 .. Len(made')]
    BY <1>1, <1>4 DEF TypeOK
  <2>4. job' \in [Run -> [Job -> {"waiting", "success", "failure", "skipped"}]]
    BY <1>1 DEF TypeOK, Job
  <2>5. accepted' \subseteq 1 .. Len(made') /\ proposals' \subseteq DOMAIN branch'
    BY <1>4, <1>5 DEF TypeOK
  <2> QED
    BY <1>4, <1>5, <2>1, <2>2, <2>3, <2>4, <2>5 DEF TypeOK
<1>7. OwnRun'
  <2> SUFFICES ASSUME NEW v \in Run, out'[v].id # 0
               PROVE  /\ made'[out'[v].id].by = v /\ made'[out'[v].id].event = event'[v]
                      /\ out'[v].asks = made'[out'[v].id].record.asked
    BY DEF OwnRun
  <2>1. CASE v = w
    BY <1>1, <1>4, <1>5, <2>1 DEF TypeOK
  <2>2. CASE v # w
    <3>1. out'[v] = out[v] /\ out[v].id \in 1 .. Len(made)
      BY <1>1, <1>4, <2>2 DEF TypeOK
    <3> QED
      BY <1>4, <1>5, <3>1 DEF OwnRun
  <2> QED
    BY <2>1, <2>2
<1>8. SuccessIsReviewable'
  <2> SUFFICES ASSUME NEW v \in Run, job'[v]["agent"] = "success"
               PROVE  out'[v].id # 0 /\ Reviewable(event'[v], made'[out'[v].id].record)
    BY DEF SuccessIsReviewable
  <2>1. CASE v = w
    <3>1. Reviewable(event[w], r)
      BY <1>1, <2>1 DEF TypeOK, Job
    <3> QED
      BY <1>1, <1>4, <1>5, <2>1, <3>1 DEF TypeOK
  <2>2. CASE v # w
    <3>1. out'[v] = out[v] /\ job'[v] = job[v]
      BY <1>1, <2>2 DEF TypeOK
    <3>2. out[v].id # 0 /\ Reviewable(event[v], made[out[v].id].record)
      BY <3>1 DEF SuccessIsReviewable
    <3>4. out[v].id \in 1 .. Len(made)
      BY <1>4, <3>2 DEF TypeOK
    <3>3. made'[out[v].id] = made[out[v].id]
      BY <1>4, <3>4
    <3> QED
      BY <1>5, <3>1, <3>2, <3>3
  <2> QED
    BY <2>1, <2>2
<1>9. \A id \in accepted : made'[id] = made[id]
  BY <1>4 DEF TypeOK
<1>10. AcceptedIsReviewable'
  BY <1>5, <1>9 DEF AcceptedIsReviewable
<1>11. BranchesAreAccepted'
  <2> SUFFICES ASSUME NEW id \in DOMAIN branch PROVE branch[id] = Content(made'[id].record)
    BY <1>5 DEF BranchesAreAccepted
  <2>1. id \in accepted /\ branch[id] = Content(made[id].record)
    BY DEF BranchesAreAccepted
  <2> QED
    BY <1>9, <2>1
<1> QED
  BY <1>6, <1>7, <1>8, <1>10, <1>11

(* An acceptance adds at most its own run, which is reviewable, and pushes  *)
(* what that run left.                                                      *)
LEMMA AcceptStep ==
  ASSUME IInv, NEW w \in Run, Accept(w)
  PROVE  IInv'
<1> USE DEF IInv
<1> DEFINE id == out[w].id
<1>1. /\ job[w]["agent"] = "success" /\ ~out[w].asks
      /\ UNCHANGED <<event, state, out, uploaded, made, reruns>>
  BY DEF Accept, Ready, Wanted
<1>2. /\ id \in 1 .. Len(made) /\ Reviewable(event[w], made[id].record)
      /\ made[id].event = event[w] /\ ~made[id].record.asked
  BY <1>1 DEF TypeOK, OwnRun, SuccessIsReviewable
<1> DEFINE Applying == uploaded[w] = id /\ Applies(event[w], made[id].record)
<1>3. PICK steps \in (IF Applying THEN 1 .. 4 ELSE {0}) :
        /\ (IF steps \in {0, 4} THEN Called ELSE Failed(w))
        /\ accepted' = accepted \cup {id}
        /\ IF steps < 2 THEN UNCHANGED branch
           ELSE branch' = [b \in DOMAIN branch \cup {id} |->
                             IF b = id THEN Content(made[id].record) ELSE branch[b]]
        /\ proposals' = proposals \cup (IF steps >= 3 THEN {id} ELSE {})
        /\ job' = [job EXCEPT ![w]["accept"] = IF steps = 4 THEN "success" ELSE "failure"]
  BY Zenon DEF Accept, Branch
<1>0. steps \in 0 .. 4
  OBVIOUS
<1>4. /\ DOMAIN branch \subseteq DOMAIN branch' /\ DOMAIN branch' \subseteq DOMAIN branch \cup {id}
      /\ proposals' \subseteq DOMAIN branch'
  BY <1>0, <1>3 DEF TypeOK
<1>5. TypeOK'
  <2>1. hiccups' \in 0 .. MaxHiccups /\ disturbed' \subseteq Run
    BY <1>3, BoundsAssumption DEF TypeOK, Called, Failed
  <2>2. job' \in [Run -> [Job -> {"waiting", "success", "failure", "skipped"}]]
    BY <1>3 DEF TypeOK, Job
  <2>3. accepted' \subseteq 1 .. Len(made')
    BY <1>1, <1>2, <1>3 DEF TypeOK
  <2> QED
    BY <1>1, <1>4, <2>1, <2>2, <2>3 DEF TypeOK
<1>6. \A v \in Run : job'[v]["agent"] = job[v]["agent"]
  BY <1>3 DEF TypeOK, Job
<1>7. OwnRun' /\ SuccessIsReviewable'
  BY <1>1, <1>6 DEF OwnRun, SuccessIsReviewable
<1>8. AcceptedIsReviewable'
  BY <1>1, <1>2, <1>3 DEF AcceptedIsReviewable
<1>9. BranchesAreAccepted'
  BY <1>1, <1>3, <1>4 DEF BranchesAreAccepted
<1> QED
  BY <1>5, <1>7, <1>8, <1>9

LEMMA StepPreserves == IInv /\ [Next]_vars => IInv'
<1> SUFFICES ASSUME IInv, [Next]_vars PROVE IInv'
  OBVIOUS
<1> USE DEF IInv
<1>1. CASE UNCHANGED vars
  BY <1>1 DEF vars, TypeOK, OwnRun, SuccessIsReviewable, AcceptedIsReviewable,
              BranchesAreAccepted
<1>2. ASSUME NEW w \in Run, Arrive(w) PROVE IInv'
  <2>1. state' \in [Run -> {"none", "queued", "active", "cancelled", "done"}]
    BY <1>2, EnterTypes DEF Arrive
  <2>2. TypeOK'
    BY <1>2, <2>1 DEF Arrive, TypeOK
  <2> QED
    BY <1>2, <2>2, QuietStep DEF Arrive
<1>3. ASSUME NEW w \in Run, Start(w) PROVE IInv'
  <2>1. TypeOK'
    BY <1>3 DEF Start, TypeOK
  <2> QED
    BY <1>3, <2>1, QuietStep DEF Start
<1>4. ASSUME NEW w \in Run, Request(w) PROVE IInv'
  <2>1. PICK result \in {"success", "failure"} :
          job' = [job EXCEPT ![w]["request"] = result] /\ (Called \/ Failed(w))
    BY <1>4 DEF Request
  <2>2. TypeOK'
    <3>1. hiccups' \in 0 .. MaxHiccups /\ disturbed' \subseteq Run
      BY <2>1, BoundsAssumption DEF TypeOK, Called, Failed
    <3>2. job' \in [Run -> [Job -> {"waiting", "success", "failure", "skipped"}]]
      BY <2>1 DEF TypeOK, Job
    <3> QED
      BY <1>4, <3>1, <3>2 DEF Request, TypeOK
  <2>3. \A v \in Run : job'[v]["agent"] = job[v]["agent"]
    BY <2>1 DEF TypeOK, Job
  <2> QED
    BY <1>4, <2>2, <2>3, QuietStep DEF Request
<1>5. ASSUME NEW w \in Run, NEW j \in Job, Reject(w, j) PROVE IInv'
  <2>1. TypeOK'
    BY <1>5 DEF Reject, TypeOK
  <2>2. \A v \in Run : job'[v]["agent"] = "success" => job[v]["agent"] = "success"
    BY <1>5 DEF Reject, TypeOK, Job
  <2> QED
    BY <1>5, <2>1, <2>2, QuietStep DEF Reject
<1>6. ASSUME NEW w \in Run, AgentStops(w) PROVE IInv'
  <2>1. TypeOK'
    BY <1>6 DEF AgentStops, TypeOK, Job
  <2>2. \A v \in Run : job'[v]["agent"] = "success" => job[v]["agent"] = "success"
    BY <1>6 DEF AgentStops, TypeOK, Job
  <2> QED
    BY <1>6, <2>1, <2>2, QuietStep DEF AgentStops
<1>7. ASSUME NEW w \in Run, Report(w) PROVE IInv'
  <2>1. PICK result \in {"success", "failure"} :
          job' = [job EXCEPT ![w]["report"] = result] /\ (Called \/ Failed(w))
    BY <1>7 DEF Report
  <2>2. TypeOK'
    <3>1. hiccups' \in 0 .. MaxHiccups /\ disturbed' \subseteq Run
      BY <2>1, BoundsAssumption DEF TypeOK, Called, Failed
    <3>2. job' \in [Run -> [Job -> {"waiting", "success", "failure", "skipped"}]]
      BY <2>1 DEF TypeOK, Job
    <3> QED
      BY <1>7, <3>1, <3>2 DEF Report, TypeOK
  <2>3. \A v \in Run : job'[v]["agent"] = job[v]["agent"]
    BY <2>1 DEF TypeOK, Job
  <2> QED
    BY <1>7, <2>2, <2>3, QuietStep DEF Report
<1>8. ASSUME NEW w \in Run, NotAccepted(w) PROVE IInv'
  <2>1. PICK result \in {"success", "failure"} :
          job' = [job EXCEPT ![w]["not_accepted"] = result] /\ (Called \/ Failed(w))
    BY <1>8 DEF NotAccepted
  <2>2. TypeOK'
    <3>1. hiccups' \in 0 .. MaxHiccups /\ disturbed' \subseteq Run
      BY <2>1, BoundsAssumption DEF TypeOK, Called, Failed
    <3>2. job' \in [Run -> [Job -> {"waiting", "success", "failure", "skipped"}]]
      BY <2>1 DEF TypeOK, Job
    <3> QED
      BY <1>8, <3>1, <3>2 DEF NotAccepted, TypeOK
  <2>3. \A v \in Run : job'[v]["agent"] = job[v]["agent"]
    BY <2>1 DEF TypeOK, Job
  <2> QED
    BY <1>8, <2>2, <2>3, QuietStep DEF NotAccepted
<1>9. ASSUME NEW w \in Run, Finish(w) PROVE IInv'
  <2>1. \A v \in Run : job'[v]["agent"] = "success" => job[v]["agent"] = "success"
    BY <1>9 DEF Finish, TypeOK, Job
  <2>2. TypeOK'
    BY <1>9 DEF Finish, TypeOK, Job
  <2> QED
    BY <1>9, <2>1, <2>2, QuietStep DEF Finish
<1>10. ASSUME NEW w \in Run, Rerun(w) PROVE IInv'
  <2>1. PICK jobs \in {Job, Again(Again(FailedJobs(w)))} :
          /\ job' = [job EXCEPT ![w] = [j \in Job |-> IF j \in jobs THEN "waiting" ELSE @[j]]]
          /\ out' = [out EXCEPT ![w] = IF "agent" \in jobs THEN NoOutput ELSE @]
    BY <1>10 DEF Rerun
  <2>2. state' \in [Run -> {"none", "queued", "active", "cancelled", "done"}]
    BY <1>10, EnterTypes DEF Rerun
  <2>3. TypeOK'
    <3>1. job' \in [Run -> [Job -> {"waiting", "success", "failure", "skipped"}]]
      BY <2>1 DEF TypeOK
    <3>2. out' \in [Run -> [id : 0 .. Len(made), asks : BOOLEAN]]
      <4>1. Len(made) \in Nat
        BY DEF TypeOK
      <4> QED
        BY <2>1, <4>1 DEF TypeOK, NoOutput
    <3>3. reruns' \in 0 .. MaxReruns /\ disturbed' \subseteq Run
      BY <1>10, BoundsAssumption DEF Rerun, TypeOK
    <3> QED
      BY <1>10, <2>2, <3>1, <3>2, <3>3 DEF Rerun, TypeOK
  <2>4. \A v \in Run : out'[v] = out[v] \/ out'[v].id = 0
    BY <2>1 DEF TypeOK, NoOutput
  <2>5. \A v \in Run : job'[v]["agent"] = "success" =>
           job[v]["agent"] = "success" /\ out'[v] = out[v]
    BY <2>1 DEF TypeOK, Job
  <2> QED
    BY <1>10, <2>3, <2>4, <2>5, QuietStep DEF Rerun
<1> QED
  BY <1>1, <1>2, <1>3, <1>4, <1>5, <1>6, <1>7, <1>8, <1>9, <1>10, AgentRunStep, AcceptStep
  DEF Next, Step

(* The invariant the three theorems below rest on.                         *)
THEOREM Invariance == Spec => []IInv
<1> QED
  BY InitEstablishes, StepPreserves, PTL DEF Spec

(* The variables of the pipeline keep their types.                         *)
THEOREM TypeCorrect == Spec => []TypeOK
<1>1. IInv => TypeOK
  BY DEF IInv
<1> QED
  BY <1>1, Invariance, PTL

(* Every pull request is of a validated, accepted run the model did.       *)
THEOREM OnlyAcceptedIsProposed == Spec => []ProposalsAreAccepted
<1>1. IInv => ProposalsAreAccepted
  <2> SUFFICES ASSUME IInv, NEW id \in proposals
               PROVE  /\ id \in accepted
                      /\ made[id].record.validation = "passed" /\ ~made[id].record.halted
                      /\ made[id].event.provider # "deterministic" \/ OnIssue(made[id].event)
                           => made[id].record.llm = "model"
    BY DEF ProposalsAreAccepted
  <2>1. id \in accepted
    BY DEF IInv, TypeOK, BranchesAreAccepted
  <2>2. Reviewable(made[id].event, made[id].record) /\ ~made[id].record.asked
    BY <2>1 DEF IInv, AcceptedIsReviewable
  <2> QED
    BY <2>1, <2>2, ReviewablePasses
<1> QED
  BY <1>1, Invariance, PTL

(* Every branch holds what its run listed, in the repository's endings.    *)
THEOREM BranchesAreFaithful == Spec => []ProposalsAreFaithful
<1>1. IInv => ProposalsAreFaithful
  <2> SUFFICES ASSUME IInv, NEW id \in DOMAIN branch
               PROVE  /\ DOMAIN branch[id] \subseteq made[id].record.listed \cap made[id].record.found
                      /\ "CHANGES.diff" \in made[id].record.found =>
                           \A p \in DOMAIN branch[id] \cap DOMAIN Tree :
                             Tree[p] # "mixed" => branch[id][p] = Tree[p]
    BY DEF ProposalsAreFaithful
  <2>1. branch[id] = Content(made[id].record)
    BY DEF IInv, BranchesAreAccepted
  <2> QED
    BY <2>1, ContentIsFaithful
<1> QED
  BY <1>1, Invariance, PTL

(* No step, re-runs included, changes or withdraws what was proposed.      *)
THEOREM ProposalsStay == Spec => AcceptedWorkStays
<1>1. ASSUME IInv, [Next]_vars
      PROVE  [\A id \in proposals : id \in proposals' /\ branch'[id] = branch[id]]_vars
  <2>1. CASE UNCHANGED <<branch, proposals>>
    BY <2>1
  <2>2. ASSUME NEW w \in Run, Accept(w)
        PROVE  \A id \in proposals : id \in proposals' /\ branch'[id] = branch[id]
    <3> SUFFICES ASSUME NEW id \in proposals
                 PROVE  id \in proposals' /\ branch'[id] = branch[id]
      OBVIOUS
    <3>1. id \in DOMAIN branch /\ branch[id] = Content(made[id].record)
      BY <1>1 DEF IInv, TypeOK, BranchesAreAccepted
    <3>2. id \in proposals'
      BY <2>2 DEF Accept
    <3>3. \/ branch' = branch
          \/ branch' = [b \in DOMAIN branch \cup {out[w].id} |->
                          IF b = out[w].id THEN Content(made[out[w].id].record) ELSE branch[b]]
      BY <2>2 DEF Accept, Branch
    <3> QED
      BY <3>1, <3>2, <3>3
  <2>3. UNCHANGED <<branch, proposals>> \/ \E w \in Run : Accept(w)
    BY <1>1 DEF Next, Step, vars, Arrive, Start, Request, AgentRun, AgentStops, Report,
                NotAccepted, Finish, Rerun, Reject
  <2> QED
    BY <2>1, <2>2, <2>3
<1> QED
  BY <1>1, Invariance, PTL DEF Spec, AcceptedWorkStays

(* What a run tells its issue, as long as none of its calls failed and      *)
(* nothing of it was re-run: an event of an issue that starts the pipeline, *)
(* and a job that has run.                                                  *)
Calm(w)   == w \notin disturbed
Asking(w) == OnIssue(event[w]) /\ Wanted(w, "request")
Ran(w, j) == job[w][j] \in {"success", "failure"}

(* The jobs run in order: before a run is active none has, and when it is   *)
(* done every job that was wanted has.                                     *)
JobsInOrder(w) ==
  /\ state[w] \in {"none", "queued", "cancelled"} => \A j \in Job : job[w][j] = "waiting"
  /\ state[w] = "active" => \A j \in Job : job[w][j] # "skipped"
  /\ state[w] = "done" => \A j \in Job : job[w][j] # "waiting" /\ (Wanted(w, j) => Ran(w, j))
  /\ Ran(w, "request") => (job[w]["request"] = "success" <=> Accepts(event[w]))
  /\ Ran(w, "agent")  => job[w]["request"] = "success"
  /\ Ran(w, "report") => Ran(w, "agent")
  /\ Ran(w, "accept") => job[w]["agent"] = "success" /\ ~out[w].asks
  /\ Ran(w, "not_accepted") => job[w]["accept"] = "failure"

(* The agent run's outputs are its record's, and the jobs after it ended as *)
(* the record makes them.                                                  *)
Outcome(w) ==
  /\ ~Ran(w, "agent") => out[w] = NoOutput
  /\ out[w].id # 0 => uploaded[w] = out[w].id
  /\ out[w].id # 0 /\ Reviewable(event[w], made[out[w].id].record)
       => job[w]["agent"] = "success"
  /\ out[w].id = 0 => ~out[w].asks
  /\ Ran(w, "report") => (job[w]["report"] = "failure" <=> Unreportable(w))
  /\ out[w].id # 0 => (out[w].id \in proposals <=> job[w]["accept"] = "success")
  /\ job[w]["not_accepted"] # "failure"

(* Each job that ended well has said its part, and nobody else anything.   *)
Reported(w) ==
  IF out[w].id = 0 THEN "stopped" ELSE IF out[w].asks THEN "questions" ELSE "result"
SaidSoFar(w) ==
  Heard(w) =
    (IF ~Ran(w, "request") THEN {} ELSE IF Accepts(event[w]) THEN {"received"} ELSE {"refused"})
    \cup (IF job[w]["report"] = "success" THEN {Reported(w)} ELSE {})
    \cup (IF job[w]["accept"] = "success" THEN {"pull_request"} ELSE {})
    \cup (IF job[w]["not_accepted"] = "success" THEN {"no_pull_request"} ELSE {})

Tells(w) == JobsInOrder(w) /\ Outcome(w) /\ SaidSoFar(w)

TellInv ==
  /\ comments = [w \in Run |-> comments[w]]
  /\ \A w \in Run : Asking(w) /\ Calm(w) => Tells(w)

(* A run whose own part of the state a step leaves alone; it may enter its  *)
(* concurrency group, start, or lose its place.                            *)
LEMMA OthersTell ==
  ASSUME NEW v \in Run, Tells(v), event' = event, job'[v] = job[v], out'[v] = out[v],
         uploaded'[v] = uploaded[v], comments'[v] = comments[v],
         \/ state'[v] = state[v]
         \/ state[v] \in {"none", "queued"} /\ state'[v] \in {"queued", "active", "cancelled"},
         out[v].id # 0 => /\ made'[out[v].id] = made[out[v].id]
                          /\ out[v].id \in proposals' <=> out[v].id \in proposals
  PROVE  Tells(v)'
<1>1. \A j \in Job : Wanted(v, j)' <=> Wanted(v, j)
  BY DEF Wanted
<1>2. \A j : Ran(v, j)' <=> Ran(v, j)
  BY DEF Ran
<1>3. JobsInOrder(v)'
  BY <1>1, <1>2 DEF Tells, JobsInOrder
<1>4. Unreportable(v)' <=> Unreportable(v)
  BY DEF Unreportable
<1>5. Outcome(v)'
  BY <1>2, <1>4 DEF Tells, Outcome
<1>6. SaidSoFar(v)'
  BY <1>2 DEF Tells, SaidSoFar, Heard, Reported
<1> QED
  BY <1>3, <1>5, <1>6 DEF Tells

(* What a job that is ready can count on.                                  *)
LEMMA ReadyFacts ==
  ASSUME TypeOK, NEW w \in Run, JobsInOrder(w), NEW j \in Job, Ready(w, j)
  PROVE  /\ state[w] = "active" /\ job[w][j] = "waiting" /\ ~Ran(w, j) /\ Wanted(w, j)
         /\ \A n \in Job : job[w][n] # "skipped"
         /\ \A n \in Needs[j] : Ran(w, n)
<1>1. state[w] = "active" /\ job[w][j] = "waiting" /\ Wanted(w, j)
      /\ \A n \in Needs[j] : job[w][n] # "waiting"
  BY DEF Ready
<1>2. Needs[j] \subseteq Job
  BY DEF Needs, Job
<1>3. \A n \in Job : job[w][n] # "skipped"
  BY <1>1 DEF JobsInOrder
<1> QED
  BY <1>1, <1>2, <1>3 DEF TypeOK, Ran

LEMMA NeedsFacts ==
  /\ Needs["report"] = {"request", "agent"} /\ Needs["accept"] = {"request", "agent"}
  /\ Needs["not_accepted"] = {"request", "agent", "accept"} /\ Needs["agent"] = {"request"}
  BY DEF Needs, Job

(* A job ends.                                                             *)
LEMMA JobEnds ==
  ASSUME TypeOK, NEW w \in Run, NEW j \in Job, NEW x, job' = [job EXCEPT ![w][j] = x]
  PROVE  /\ job'[w][j] = x /\ \A k \in Job : k # j => job'[w][k] = job[w][k]
         /\ \A v \in Run : v # w => job'[v] = job[v]
  BY DEF TypeOK, Job

(* Something is said.                                                      *)
LEMMA SaidIsHeard ==
  ASSUME comments = [v \in Run |-> comments[v]], NEW w \in Run, NEW X,
         comments' = [comments EXCEPT ![w] = @ \cup X]
  PROVE  /\ comments' = [v \in Run |-> comments'[v]]
         /\ \A v \in Run : v # w => comments'[v] = comments[v]
         /\ Heard(w)' = Heard(w) \cup {c.text : c \in X}
<1>1. comments'[w] = comments[w] \cup X
  OBVIOUS
<1> QED
  BY <1>1 DEF Heard

LEMMA OneComment ==
  ASSUME NEW text, NEW id
  PROVE  {c.text : c \in {Says(text, id)}} = {text} /\ {c.text : c \in {}} = {}
  BY DEF Says

(* The steps of one run leave what the others have to tell alone.          *)
LEMMA StepOfOne ==
  ASSUME IInv, \A v \in Run : Asking(v) /\ Calm(v) => Tells(v), NEW w \in Run,
         UNCHANGED <<event, state>>, disturbed \subseteq disturbed',
         \A v \in Run : v # w => /\ job'[v] = job[v] /\ out'[v] = out[v]
                                 /\ uploaded'[v] = uploaded[v] /\ comments'[v] = comments[v],
         \A i \in 1 .. Len(made) : made'[i] = made[i],
         proposals' = proposals \/ proposals' = proposals \cup {out[w].id},
         Asking(w) /\ Calm(w)' => Tells(w)'
  PROVE  \A v \in Run : Asking(v)' /\ Calm(v)' => Tells(v)'
<1> SUFFICES ASSUME NEW v \in Run, Asking(v)', Calm(v)' PROVE Tells(v)'
  OBVIOUS
<1>1. Asking(v) /\ Calm(v)
  BY DEF Asking, Wanted, Calm
<1>2. CASE v = w
  BY <1>1, <1>2
<1>3. CASE v # w
  <2>1. out[v].id # 0 => out[v].id \in 1 .. Len(made) /\ out[v].id # out[w].id
    <3>1. out[v].id # 0 => out[v].id \in 1 .. Len(made)
      BY DEF IInv, TypeOK
    <3>2. out[v].id # 0 => made[out[v].id].by = v
      BY DEF IInv, OwnRun
    <3>3. out[w].id # 0 => made[out[w].id].by = w
      BY DEF IInv, OwnRun
    <3> QED
      BY <3>1, <3>2, <3>3, <1>3
  <2>2. out[v].id # 0 => (out[v].id \in proposals' <=> out[v].id \in proposals)
    BY <2>1
  <2> QED
    BY <1>1, <1>3, <2>1, <2>2, OthersTell
<1> QED
  BY <1>2, <1>3

LEMMA NotFailed == ASSUME NEW w, Calm(w)' PROVE ~Failed(w)
  BY DEF Calm, Failed

LEMMA RequestTells ==
  ASSUME IInv, comments = [v \in Run |-> comments[v]],
         NEW w \in Run, Calm(w)', Asking(w), Tells(w), Request(w)
  PROVE  Tells(w)'
<1>1. PICK result \in {"success", "failure"}, told \in BOOLEAN :
        /\ result = "success" <=> Accepts(event[w]) /\ told
        /\ IF told THEN Called ELSE Failed(w) /\ OnIssue(event[w])
        /\ job' = [job EXCEPT ![w]["request"] = result]
        /\ comments' = [comments EXCEPT ![w] = @ \cup
             IF told /\ OnIssue(event[w])
             THEN {Says(IF Accepts(event[w]) THEN "received" ELSE "refused", 0)} ELSE {}]
  BY DEF Request
<1>2. told /\ OnIssue(event[w])
  BY <1>1, NotFailed DEF Asking
<1>3. UNCHANGED <<event, state, out, uploaded, made, proposals>>
  BY DEF Request
<1>4. /\ TypeOK /\ JobsInOrder(w) /\ Outcome(w) /\ SaidSoFar(w)
      /\ "request" \in Job /\ "agent" \in Job /\ "report" \in Job /\ "accept" \in Job
      /\ "not_accepted" \in Job
  BY DEF IInv, Tells, Job
<1>5. /\ state[w] = "active" /\ job[w]["request"] = "waiting" /\ ~Ran(w, "request")
      /\ \A n \in Job : job[w][n] # "skipped"
  BY <1>4, ReadyFacts DEF Request
<1>6. /\ job'[w]["request"] = result /\ \A k \in Job : k # "request" => job'[w][k] = job[w][k]
  <2>1. job' = [job EXCEPT ![w]["request"] = result]
    BY <1>1
  <2> QED
    BY <2>1, <1>4 DEF TypeOK
<1>7. \A k \in Job : job[w][k] = "waiting"
  BY <1>4, <1>5 DEF JobsInOrder, Ran, TypeOK, Job
<1>8. JobsInOrder(w)'
  BY <1>1, <1>2, <1>3, <1>4, <1>5, <1>6, <1>7 DEF JobsInOrder, Ran, Job
<1>9. Outcome(w)'
  BY <1>3, <1>4, <1>6, <1>7 DEF Outcome, Ran, Unreportable, Job
<1>10. SaidSoFar(w)'
  <2> DEFINE text == IF Accepts(event[w]) THEN "received" ELSE "refused"
  <2>1. comments' = [comments EXCEPT ![w] = @ \cup {Says(text, 0)}]
    BY <1>1, <1>2
  <2>3. Heard(w)' = Heard(w) \cup {text}
    <3> HIDE DEF text
    <3>1. Heard(w)' = Heard(w) \cup {c.text : c \in {Says(text, 0)}}
      BY <2>1, SaidIsHeard
    <3> QED
      BY <3>1, OneComment
  <2>4. Heard(w) = {}
    BY <1>4, <1>7 DEF SaidSoFar, Ran
  <2> QED
    BY <2>3, <2>4, <1>1, <1>3, <1>4, <1>6, <1>7 DEF SaidSoFar, Ran
<1> QED
  BY <1>8, <1>9, <1>10 DEF Tells

(* The agent does not run: a reviewer refused, or it left no record.       *)
LEMMA AgentFailsTells ==
  ASSUME IInv, NEW w \in Run, Asking(w), Tells(w), Ready(w, "agent"),
         job' = [job EXCEPT ![w]["agent"] = "failure"],
         UNCHANGED <<event, state, out, uploaded, comments, made, proposals>>
  PROVE  Tells(w)'
<1>1. /\ TypeOK /\ JobsInOrder(w) /\ Outcome(w) /\ SaidSoFar(w)
      /\ "request" \in Job /\ "agent" \in Job /\ "report" \in Job /\ "accept" \in Job
      /\ "not_accepted" \in Job
  BY DEF IInv, Tells, Job
<1>2. /\ state[w] = "active" /\ ~Ran(w, "agent") /\ job[w]["request"] = "success"
      /\ \A n \in Job : job[w][n] # "skipped"
  BY <1>1, ReadyFacts DEF Wanted
<1>3. job'[w]["agent"] = "failure" /\ \A k \in Job : k # "agent" => job'[w][k] = job[w][k]
  BY <1>1, JobEnds
<1>4. \A k \in {"agent", "report", "accept", "not_accepted"} : job[w][k] = "waiting"
  BY <1>1, <1>2 DEF JobsInOrder, Ran, TypeOK, Job
<1>5. JobsInOrder(w)'
  BY <1>1, <1>2, <1>3, <1>4 DEF JobsInOrder, Ran, Job
<1>6. out[w].id = 0 /\ ~out[w].asks
  BY <1>1, <1>2 DEF Outcome, NoOutput
<1>7. Outcome(w)'
  BY <1>1, <1>3, <1>4, <1>6 DEF Outcome, Ran, Unreportable, Job
<1>8. SaidSoFar(w)'
  BY <1>1, <1>3, <1>4 DEF SaidSoFar, Ran, Heard, Reported
<1> QED
  BY <1>5, <1>7, <1>8 DEF Tells

(* The agent runs, and its record is published.                            *)
LEMMA AgentRunTells ==
  ASSUME IInv, NEW w \in Run, Calm(w)', Asking(w), Tells(w), AgentRun(w)
  PROVE  Tells(w)'
<1> DEFINE id == Len(made) + 1
<1>1. PICK r \in Possible(event[w]), published \in BOOLEAN :
        /\ made' = Append(made, [by |-> w, event |-> event[w], record |-> r])
        /\ out' = [out EXCEPT ![w] = [id |-> id, asks |-> r.asked]]
        /\ (IF published THEN Called ELSE Failed(w))
        /\ uploaded' = [uploaded EXCEPT ![w] = IF published THEN id ELSE @]
        /\ job' = [job EXCEPT ![w]["agent"] =
                     IF published /\ Reviewable(event[w], r) THEN "success" ELSE "failure"]
  BY DEF AgentRun
<1>2. published
  BY <1>1, NotFailed
<1>3. UNCHANGED <<event, state, comments, proposals>>
  BY DEF AgentRun
<1>4. /\ TypeOK /\ JobsInOrder(w) /\ Outcome(w) /\ SaidSoFar(w)
      /\ "request" \in Job /\ "agent" \in Job /\ "report" \in Job /\ "accept" \in Job
      /\ "not_accepted" \in Job
  BY DEF IInv, Tells, Job
<1>5. /\ state[w] = "active" /\ ~Ran(w, "agent") /\ job[w]["request"] = "success"
      /\ \A n \in Job : job[w][n] # "skipped"
  BY <1>4, ReadyFacts DEF AgentRun, Wanted
<1>6. /\ job'[w]["agent"] = IF Reviewable(event[w], r) THEN "success" ELSE "failure"
      /\ \A k \in Job : k # "agent" => job'[w][k] = job[w][k]
  <2> DEFINE x == IF Reviewable(event[w], r) THEN "success" ELSE "failure"
  <2>1. job' = [job EXCEPT ![w]["agent"] = x]
    BY <1>1, <1>2
  <2> HIDE DEF x
  <2>2. job'[w]["agent"] = x /\ \A k \in Job : k # "agent" => job'[w][k] = job[w][k]
    BY <2>1, <1>4, JobEnds
  <2> QED
    BY <2>2 DEF x
<1>7. \A k \in {"agent", "report", "accept", "not_accepted"} : job[w][k] = "waiting"
  BY <1>4, <1>5 DEF JobsInOrder, Ran, TypeOK, Job
<1>8. JobsInOrder(w)'
  BY <1>3, <1>4, <1>5, <1>6, <1>7 DEF JobsInOrder, Ran, Job
<1>9. /\ Len(made) \in Nat /\ id # 0 /\ id \notin proposals
  BY <1>4 DEF TypeOK, IInv, BranchesAreAccepted
<1>10. /\ out'[w] = [id |-> id, asks |-> r.asked] /\ uploaded'[w] = id
  BY <1>1, <1>2, <1>4 DEF TypeOK
<1>11. made'[id].record = r
  <2> DEFINE e == [by |-> w, event |-> event[w], record |-> r]
  <2>1. made \in Seq([by : Run, event : Event, record : Records]) /\ e.record = r
    BY <1>4 DEF TypeOK
  <2>2. made' = Append(made, e)
    BY <1>1
  <2> HIDE DEF e
  <2>3. made'[id] = e
    BY <2>1, <2>2
  <2> QED
    BY <2>1, <2>3
<1> HIDE DEF id
<1>12. out'[w].id = id /\ out'[w].asks = r.asked
  BY <1>10
<1>13. Outcome(w)'
  BY <1>3, <1>6, <1>7, <1>9, <1>10, <1>11, <1>12 DEF Outcome, Ran, Unreportable, Job
<1>14. SaidSoFar(w)'
  BY <1>3, <1>4, <1>6, <1>7 DEF SaidSoFar, Ran, Heard, Reported
<1> QED
  BY <1>8, <1>13, <1>14 DEF Tells

(* The report reads the published record, or there is none.                *)
LEMMA ReportTells ==
  ASSUME IInv, comments = [v \in Run |-> comments[v]],
         NEW w \in Run, Calm(w)', Asking(w), Tells(w), Report(w)
  PROVE  Tells(w)'
<1>1. UNCHANGED <<event, state, out, uploaded, made, proposals>>
  BY DEF Report
<1>2. /\ TypeOK /\ JobsInOrder(w) /\ Outcome(w) /\ SaidSoFar(w)
      /\ "request" \in Job /\ "agent" \in Job /\ "report" \in Job /\ "accept" \in Job
      /\ "not_accepted" \in Job
  BY DEF IInv, Tells, Job
<1>3. /\ state[w] = "active" /\ job[w]["report"] = "waiting" /\ ~Ran(w, "report")
      /\ Ran(w, "agent") /\ \A n \in Job : job[w][n] # "skipped"
  BY <1>2, ReadyFacts, NeedsFacts DEF Report
<1> DEFINE told == ~Unreportable(w)
<1>4. /\ job' = [job EXCEPT ![w]["report"] = IF told THEN "success" ELSE "failure"]
      /\ comments' = [comments EXCEPT ![w] = @ \cup
           IF told THEN {Says(Reported(w), out[w].id)} ELSE {}]
  <2>1. PICK fault \in {None, "download", "comment"} :
          LET id     == out[w].id
              record == fault # "download" /\ id # 0 /\ uploaded[w] = id
              raises == record /\ ~out[w].asks /\ made[id].record.validation = None
              said   == fault # "comment" /\ ~raises
          IN /\ IF fault = None THEN Called ELSE Failed(w)
             /\ job' = [job EXCEPT ![w]["report"] = IF said THEN "success" ELSE "failure"]
             /\ comments' = [comments EXCEPT ![w] = @ \cup
                  IF ~said THEN {}
                  ELSE IF ~record THEN {Says("stopped", id)}
                  ELSE {Says(IF out[w].asks THEN "questions" ELSE "result", id)}]
    BY DEF Report
  <2>2. fault = None
    BY <2>1, NotFailed
  <2>3. out[w].id # 0 => uploaded[w] = out[w].id
    BY <1>2 DEF Outcome
  <2>4. CASE out[w].id = 0
    BY <2>1, <2>2, <2>4 DEF Unreportable, Reported, None
  <2>5. CASE out[w].id # 0
    BY <2>1, <2>2, <2>3, <2>5 DEF Unreportable, Reported, None
  <2> QED
    BY <2>4, <2>5
<1>5. /\ job'[w]["report"] = (IF told THEN "success" ELSE "failure")
      /\ \A k \in Job : k # "report" => job'[w][k] = job[w][k]
  <2> DEFINE x == IF told THEN "success" ELSE "failure"
  <2>1. job' = [job EXCEPT ![w]["report"] = x]
    BY <1>4
  <2> HIDE DEF x
  <2>2. job'[w]["report"] = x /\ \A k \in Job : k # "report" => job'[w][k] = job[w][k]
    BY <2>1, <1>2, JobEnds
  <2> QED
    BY <2>2 DEF x
<1>6. Unreportable(w)' <=> Unreportable(w)
  BY <1>1 DEF Unreportable
<1>7. JobsInOrder(w)'
  BY <1>1, <1>2, <1>3, <1>5 DEF JobsInOrder, Ran, Job
<1>8. Outcome(w)'
  BY <1>1, <1>2, <1>5, <1>6 DEF Outcome, Ran, Job
<1>9. SaidSoFar(w)'
  <2>1. Reported(w)' = Reported(w)
    BY <1>1 DEF Reported
  <2>2. Heard(w)' = Heard(w) \cup IF told THEN {Reported(w)} ELSE {}
    <3> DEFINE X == IF told THEN {Says(Reported(w), out[w].id)} ELSE {}
    <3>1. {c.text : c \in X} = IF told THEN {Reported(w)} ELSE {}
      BY OneComment
    <3>2. comments' = [comments EXCEPT ![w] = @ \cup X]
      BY <1>4
    <3> HIDE DEF X
    <3>3. Heard(w)' = Heard(w) \cup {c.text : c \in X}
      BY <3>2, SaidIsHeard
    <3> QED
      BY <3>1, <3>3
  <2>3. job[w]["report"] # "success"
    BY <1>3
  <2>4. \A k \in Job : k # "report" => (Ran(w, k)' <=> Ran(w, k))
    BY <1>5 DEF Ran
  <2> QED
    BY <2>1, <2>2, <2>3, <2>4, <1>1, <1>2, <1>5 DEF SaidSoFar, Job
<1> QED
  BY <1>7, <1>8, <1>9 DEF Tells

(* An accepted run is proposed, or nothing of it could be applied.         *)
LEMMA AcceptTells ==
  ASSUME IInv, comments = [v \in Run |-> comments[v]],
         NEW w \in Run, Calm(w)', Asking(w), Tells(w), Accept(w)
  PROVE  Tells(w)'
<1>1. UNCHANGED <<event, state, out, uploaded, made>>
  BY DEF Accept
<1>2. /\ TypeOK /\ JobsInOrder(w) /\ Outcome(w) /\ SaidSoFar(w)
      /\ "request" \in Job /\ "agent" \in Job /\ "report" \in Job /\ "accept" \in Job
      /\ "not_accepted" \in Job
  BY DEF IInv, Tells, Job
<1>3. /\ state[w] = "active" /\ job[w]["accept"] = "waiting" /\ ~Ran(w, "accept")
      /\ job[w]["agent"] = "success" /\ ~out[w].asks
      /\ \A n \in Job : job[w][n] # "skipped"
  BY <1>2, ReadyFacts DEF Accept, Wanted
<1>4. out[w].id # 0 /\ out[w].id \notin proposals /\ out[w].id \in Nat
  BY <1>2, <1>3 DEF IInv, SuccessIsReviewable, Outcome, TypeOK
<1>0. PICK steps \in (IF uploaded[w] = out[w].id /\ Applies(event[w], made[out[w].id].record)
                      THEN 1 .. 4 ELSE {0}) :
        /\ (IF steps \in {0, 4} THEN Called ELSE Failed(w))
        /\ proposals' = proposals \cup (IF steps >= 3 THEN {out[w].id} ELSE {})
        /\ job' = [job EXCEPT ![w]["accept"] = IF steps = 4 THEN "success" ELSE "failure"]
        /\ comments' = [comments EXCEPT ![w] = @ \cup
             IF steps = 4 /\ OnIssue(event[w]) THEN {Says("pull_request", out[w].id)} ELSE {}]
  BY Zenon DEF Accept, Branch
<1> DEFINE ok == steps = 4
<1>5. /\ job' = [job EXCEPT ![w]["accept"] = IF ok THEN "success" ELSE "failure"]
      /\ proposals' = proposals \cup (IF ok THEN {out[w].id} ELSE {})
      /\ comments' = [comments EXCEPT ![w] = @ \cup
           IF ok THEN {Says("pull_request", out[w].id)} ELSE {}]
  <2>1. steps = 0 \/ steps = 4
    BY <1>0, NotFailed
  <2>2. OnIssue(event[w])
    BY DEF Asking
  <2>3. steps >= 3 <=> ok
    BY <2>1
  <2>4. proposals' = proposals \cup (IF ok THEN {out[w].id} ELSE {})
    BY <1>0, <2>3
  <2> QED
    BY <1>0, <2>2, <2>4
<1> HIDE DEF ok
<1>6. /\ job'[w]["accept"] = (IF ok THEN "success" ELSE "failure")
      /\ \A k \in Job : k # "accept" => job'[w][k] = job[w][k]
  <2> DEFINE x == IF ok THEN "success" ELSE "failure"
  <2>1. job' = [job EXCEPT ![w]["accept"] = x]
    BY <1>5
  <2> HIDE DEF x
  <2>2. job'[w]["accept"] = x /\ \A k \in Job : k # "accept" => job'[w][k] = job[w][k]
    BY <2>1, <1>2, JobEnds
  <2> QED
    BY <2>2 DEF x
<1>7. job[w]["not_accepted"] = "waiting"
  BY <1>2, <1>3 DEF JobsInOrder, Ran, TypeOK, Job
<1>8. JobsInOrder(w)'
  BY <1>1, <1>2, <1>3, <1>6, <1>7 DEF JobsInOrder, Ran, Job
<1>9. Outcome(w)'
  <2>1. Unreportable(w)' <=> Unreportable(w)
    BY <1>1 DEF Unreportable
  <2>2. out[w].id \in proposals' <=> ok
    BY <1>4, <1>5
  <2> QED
    BY <2>1, <2>2, <1>1, <1>2, <1>4, <1>6, <1>7 DEF Outcome, Ran, Job
<1>10. SaidSoFar(w)'
  <2>1. Heard(w)' = Heard(w) \cup IF ok THEN {"pull_request"} ELSE {}
    <3> DEFINE X == IF ok THEN {Says("pull_request", out[w].id)} ELSE {}
    <3>1. {c.text : c \in X} = IF ok THEN {"pull_request"} ELSE {}
      BY OneComment
    <3>2. comments' = [comments EXCEPT ![w] = @ \cup X]
      BY <1>5
    <3> HIDE DEF X
    <3>3. Heard(w)' = Heard(w) \cup {c.text : c \in X}
      BY <3>2, SaidIsHeard
    <3> QED
      BY <3>1, <3>3
  <2>2. \A k \in Job : k # "accept" => (Ran(w, k)' <=> Ran(w, k))
    BY <1>6 DEF Ran
  <2>3. Reported(w)' = Reported(w)
    BY <1>1 DEF Reported
  <2> QED
    BY <2>1, <2>2, <2>3, <1>1, <1>2, <1>3, <1>6, <1>7 DEF SaidSoFar, Job
<1> QED
  BY <1>8, <1>9, <1>10 DEF Tells

(* A reviewer refuses the result.                                          *)
LEMMA RefusedTells ==
  ASSUME IInv, NEW w \in Run, Asking(w), Tells(w), Ready(w, "accept"),
         job' = [job EXCEPT ![w]["accept"] = "failure"],
         UNCHANGED <<event, state, out, uploaded, comments, made, proposals>>
  PROVE  Tells(w)'
<1>1. /\ TypeOK /\ JobsInOrder(w) /\ Outcome(w) /\ SaidSoFar(w)
      /\ "request" \in Job /\ "agent" \in Job /\ "report" \in Job /\ "accept" \in Job
      /\ "not_accepted" \in Job
  BY DEF IInv, Tells, Job
<1>2. /\ state[w] = "active" /\ job[w]["accept"] = "waiting" /\ ~Ran(w, "accept")
      /\ job[w]["agent"] = "success" /\ ~out[w].asks
      /\ \A n \in Job : job[w][n] # "skipped"
  BY <1>1, ReadyFacts DEF Wanted
<1>3. job'[w]["accept"] = "failure" /\ \A k \in Job : k # "accept" => job'[w][k] = job[w][k]
  BY <1>1, JobEnds
<1>4. job[w]["not_accepted"] = "waiting"
  BY <1>1, <1>2 DEF JobsInOrder, Ran, TypeOK, Job
<1>5. JobsInOrder(w)'
  BY <1>1, <1>2, <1>3, <1>4 DEF JobsInOrder, Ran, Job
<1>6. Outcome(w)'
  BY <1>1, <1>2, <1>3 DEF Outcome, Ran, Unreportable, Job
<1>7. SaidSoFar(w)'
  BY <1>1, <1>2, <1>3 DEF SaidSoFar, Ran, Heard, Reported, Job
<1> QED
  BY <1>5, <1>6, <1>7 DEF Tells

(* A result that was not accepted is said not to be.                       *)
LEMMA NotAcceptedTells ==
  ASSUME IInv, comments = [v \in Run |-> comments[v]],
         NEW w \in Run, Calm(w)', Asking(w), Tells(w), NotAccepted(w)
  PROVE  Tells(w)'
<1>1. UNCHANGED <<event, state, out, uploaded, made, proposals>>
  BY DEF NotAccepted
<1>2. /\ TypeOK /\ JobsInOrder(w) /\ Outcome(w) /\ SaidSoFar(w)
      /\ "request" \in Job /\ "agent" \in Job /\ "report" \in Job /\ "accept" \in Job
      /\ "not_accepted" \in Job
  BY DEF IInv, Tells, Job
<1>3. /\ state[w] = "active" /\ job[w]["not_accepted"] = "waiting"
      /\ job[w]["accept"] = "failure" /\ \A n \in Job : job[w][n] # "skipped"
  <2>1. Ready(w, "not_accepted")
    BY DEF NotAccepted
  <2>2. /\ state[w] = "active" /\ job[w]["not_accepted"] = "waiting" /\ Wanted(w, "not_accepted")
        /\ Ran(w, "accept") /\ \A n \in Job : job[w][n] # "skipped"
    BY <2>1, <1>2, ReadyFacts, NeedsFacts
  <2>3. job[w]["accept"] # "success"
    BY <2>2 DEF Wanted
  <2> QED
    BY <2>2, <2>3 DEF Ran
<1>4. /\ job' = [job EXCEPT ![w]["not_accepted"] = "success"]
      /\ comments' = [comments EXCEPT ![w] = @ \cup {Says("no_pull_request", out[w].id)}]
  BY NotFailed DEF NotAccepted
<1>5. /\ job'[w]["not_accepted"] = "success"
      /\ \A k \in Job : k # "not_accepted" => job'[w][k] = job[w][k]
  BY <1>2, <1>4, JobEnds
<1>6. JobsInOrder(w)'
  BY <1>1, <1>2, <1>3, <1>5 DEF JobsInOrder, Ran, Job
<1>7. Outcome(w)'
  BY <1>1, <1>2, <1>5 DEF Outcome, Ran, Unreportable, Job
<1>8. SaidSoFar(w)'
  <2>1. Heard(w)' = Heard(w) \cup {c.text : c \in {Says("no_pull_request", out[w].id)}}
    BY <1>4, SaidIsHeard
  <2>2. Heard(w)' = Heard(w) \cup {"no_pull_request"}
    BY <2>1, OneComment
  <2>3. \A k \in Job : k # "not_accepted" => (Ran(w, k)' <=> Ran(w, k))
    BY <1>5 DEF Ran
  <2>4. Reported(w)' = Reported(w)
    BY <1>1 DEF Reported
  <2> QED
    BY <2>2, <2>3, <2>4, <1>1, <1>2, <1>3, <1>5 DEF SaidSoFar, Job
<1> QED
  BY <1>6, <1>7, <1>8 DEF Tells

(* A run is over only when every job that is wanted has run.               *)
LEMMA FinishTells ==
  ASSUME IInv, NEW w \in Run, Asking(w), Tells(w), Finish(w)
  PROVE  Tells(w)'
<1>1. /\ state[w] = "active" /\ \A j \in Job : ~Ready(w, j)
      /\ state' = [state EXCEPT ![w] = "done"]
      /\ job' = [job EXCEPT ![w] = [j \in Job |-> IF @[j] = "waiting" THEN "skipped" ELSE @[j]]]
      /\ UNCHANGED <<event, out, uploaded, comments, made, proposals>>
  BY DEF Finish
<1>2. /\ TypeOK /\ JobsInOrder(w) /\ Outcome(w) /\ SaidSoFar(w) /\ Wanted(w, "request")
      /\ "request" \in Job /\ "agent" \in Job /\ "report" \in Job /\ "accept" \in Job
      /\ "not_accepted" \in Job
  BY DEF IInv, Tells, Job, Asking
<1>3. state'[w] = "done" /\ \A j \in Job : job[w][j] # "skipped"
  BY <1>1, <1>2 DEF TypeOK, JobsInOrder
<1>4. \A j \in Job : job'[w][j] = IF job[w][j] = "waiting" THEN "skipped" ELSE job[w][j]
  BY <1>1, <1>2 DEF TypeOK
<1>5. \A j \in Job : Ran(w, j)' <=> Ran(w, j)
  BY <1>4 DEF Ran
<1>6. \A j \in Job : Wanted(w, j)' <=> Wanted(w, j)
  BY <1>1, <1>2, <1>4 DEF Wanted
<1>7. \A j \in Job : Wanted(w, j) => Ran(w, j)
  <2>1. \A j \in Job : ~Ran(w, j) => job[w][j] = "waiting"
    BY <1>2, <1>3 DEF TypeOK, Ran
  <2>2. ASSUME NEW j \in Job, ~Ran(w, j), \A n \in Needs[j] : job[w][n] # "waiting"
        PROVE  ~Wanted(w, j)
    BY <2>1, <2>2, <1>1 DEF Ready
  <2>3. Ran(w, "request")
    <3>1. Needs["request"] = {}
      BY DEF Needs, Job
    <3> QED
      BY <3>1, <2>2, <1>2
  <2>4. Wanted(w, "agent") => Ran(w, "agent")
    BY <2>2, <2>3, <1>2, NeedsFacts DEF Ran
  <2>5. ~Ran(w, "agent") => job[w]["request"] # "success" /\ job[w]["agent"] # "success"
    BY <2>4 DEF Ran, Wanted
  <2>6. Wanted(w, "report") => Ran(w, "report")
    <3>1. CASE Ran(w, "agent")
      BY <3>1, <2>2, <2>3, <1>2, NeedsFacts DEF Ran
    <3>2. CASE ~Ran(w, "agent")
      BY <3>2, <2>5 DEF Wanted
    <3> QED
      BY <3>1, <3>2
  <2>7. Wanted(w, "accept") => Ran(w, "accept")
    <3>1. CASE Ran(w, "agent")
      BY <3>1, <2>2, <2>3, <1>2, NeedsFacts DEF Ran
    <3>2. CASE ~Ran(w, "agent")
      BY <3>2, <2>5 DEF Wanted
    <3> QED
      BY <3>1, <3>2
  <2>8. Wanted(w, "not_accepted") => Ran(w, "not_accepted")
    <3> SUFFICES ASSUME Wanted(w, "not_accepted") PROVE Ran(w, "not_accepted")
      OBVIOUS
    <3>1. job[w]["agent"] = "success" /\ ~out[w].asks
      BY DEF Wanted
    <3>2. Ran(w, "agent")
      BY <3>1 DEF Ran
    <3>3. job[w]["request"] = "success"
      BY <3>2, <1>2 DEF JobsInOrder
    <3>4. Ran(w, "accept")
      BY <3>1, <3>3, <2>7 DEF Wanted
    <3> QED
      BY <3>2, <3>4, <2>2, <2>3, <1>2, NeedsFacts DEF Ran
  <2> QED
    BY <2>3, <2>4, <2>6, <2>7, <2>8 DEF Job
<1>8. \A j \in Job : job'[w][j] # "waiting"
  BY <1>4
<1>9. \A j \in Job : (job'[w][j] = "success" <=> job[w][j] = "success")
                     /\ (job'[w][j] = "failure" <=> job[w][j] = "failure")
  BY <1>4
<1>10. JobsInOrder(w)'
  BY <1>1, <1>2, <1>3, <1>5, <1>6, <1>7, <1>8, <1>9 DEF JobsInOrder
<1>11. Outcome(w)'
  BY <1>1, <1>2, <1>5, <1>9 DEF Outcome, Unreportable
<1>12. SaidSoFar(w)'
  BY <1>1, <1>2, <1>5, <1>9 DEF SaidSoFar, Heard, Reported
<1> QED
  BY <1>10, <1>11, <1>12 DEF Tells

LEMMA TellsAlways == Spec => []TellInv
<1>1. Init => TellInv
  <2> SUFFICES ASSUME Init PROVE TellInv
    OBVIOUS
  <2>1. /\ comments = [w \in Run |-> comments[w]] /\ proposals = {}
        /\ \A w \in Run : /\ comments[w] = {} /\ out[w] = NoOutput /\ state[w] = "none"
                          /\ uploaded[w] = 0 /\ \A j \in Job : job[w][j] = "waiting"
    BY DEF Init, AllJobs
  <2>2. ASSUME NEW w \in Run PROVE Tells(w)
    <3>1. out[w].id = 0 /\ ~out[w].asks /\ \A j \in Job : ~Ran(w, j)
      BY <2>1 DEF NoOutput, Ran
    <3>2. JobsInOrder(w)
      BY <2>1, <3>1 DEF JobsInOrder, Job
    <3>3. Outcome(w)
      BY <2>1, <3>1 DEF Outcome, Job
    <3>4. SaidSoFar(w)
      BY <2>1, <3>1 DEF SaidSoFar, Heard, Job
    <3> QED
      BY <3>2, <3>3, <3>4 DEF Tells
  <2> QED
    BY <2>1, <2>2 DEF TellInv
<1>2. IInv /\ TellInv /\ [Next]_vars => TellInv'
  <2> SUFFICES ASSUME IInv, TellInv, [Next]_vars PROVE TellInv'
    OBVIOUS
  <2>1. comments' = [w \in Run |-> comments'[w]]
    <3>1. \/ comments' = comments
          \/ \E w \in Run : \E X : comments' = [comments EXCEPT ![w] = @ \cup X]
      BY DEF Next, Step, vars, Arrive, Start, Request, AgentRun, AgentStops, Report, Accept,
             NotAccepted, Finish, Rerun, Reject
    <3> QED
      BY <3>1, SaidIsHeard DEF TellInv
  <2> SUFFICES \A w \in Run : Asking(w)' /\ Calm(w)' => Tells(w)'
    BY <2>1 DEF TellInv
  <2>2. disturbed \subseteq disturbed'
    BY DEF Next, Step, vars, Arrive, Start, Request, AgentRun, AgentStops, Report, Accept,
           NotAccepted, Finish, Rerun, Reject, Called, Failed
  <2>3. /\ \A v \in Run : Asking(v) /\ Calm(v) => Tells(v)
        /\ comments = [v \in Run |-> comments[v]]
    BY DEF TellInv
  <2>17. \A v \in Run : Calm(v)' => Calm(v)
    BY <2>2 DEF Calm
  <2>4. TypeOK
    BY DEF IInv
  <2>5. CASE UNCHANGED vars
    <3>1. \A v \in Run : Asking(v)' /\ Calm(v)' => Asking(v) /\ Calm(v)
      BY <2>5 DEF vars, Asking, Wanted, Calm
    <3> QED
      BY <2>3, <2>5, <3>1, OthersTell DEF vars
  <2>6. ASSUME NEW w \in Run, Arrive(w) \/ Start(w)
        PROVE  \A v \in Run : Asking(v)' /\ Calm(v)' => Tells(v)'
    <3>1. UNCHANGED <<event, job, out, uploaded, comments, made, proposals>>
      BY <2>6 DEF Arrive, Start
    <3>2. \A v \in Run : \/ state'[v] = state[v]
                         \/ /\ state[v] \in {"none", "queued"}
                            /\ state'[v] \in {"queued", "active", "cancelled"}
      BY <2>4, <2>6 DEF Arrive, Start, Enter, TypeOK
    <3>3. \A v \in Run : Asking(v)' /\ Calm(v)' => Asking(v) /\ Calm(v)
      BY <2>2, <3>1 DEF Asking, Wanted, Calm
    <3> QED
      BY <2>3, <3>1, <3>2, <3>3, OthersTell
  <2>7. ASSUME NEW w \in Run, Request(w) PROVE \A v \in Run : Asking(v)' /\ Calm(v)' => Tells(v)'
    <3>1. Asking(w) /\ Calm(w)' => Tells(w)'
      BY <2>3, <2>7, <2>17, RequestTells
    <3>2. UNCHANGED <<event, state, out, uploaded, made, proposals>>
      BY <2>7 DEF Request
    <3>3. \A v \in Run : v # w => job'[v] = job[v] /\ comments'[v] = comments[v]
      <4>1. /\ \E x : job' = [job EXCEPT ![w]["request"] = x]
            /\ \E X : comments' = [comments EXCEPT ![w] = @ \cup X]
        BY <2>7 DEF Request
      <4> QED
        BY <4>1, <2>3, <2>4, SaidIsHeard DEF TypeOK
    <3> QED
      BY <2>2, <2>3, <3>1, <3>2, <3>3, StepOfOne
  <2>8. ASSUME NEW w \in Run, Ready(w, "agent"), job' = [job EXCEPT ![w]["agent"] = "failure"],
               UNCHANGED <<event, state, out, uploaded, comments, made, proposals>>
        PROVE  \A v \in Run : Asking(v)' /\ Calm(v)' => Tells(v)'
    <3>1. Asking(w) /\ Calm(w)' => Tells(w)'
      BY <2>3, <2>8, <2>17, AgentFailsTells
    <3>2. \A v \in Run : v # w => job'[v] = job[v]
      BY <2>4, <2>8 DEF TypeOK
    <3> QED
      BY <2>2, <2>3, <2>8, <3>1, <3>2, StepOfOne
  <2>9. ASSUME NEW w \in Run, Ready(w, "accept"), job' = [job EXCEPT ![w]["accept"] = "failure"],
               UNCHANGED <<event, state, out, uploaded, comments, made, proposals>>
        PROVE  \A v \in Run : Asking(v)' /\ Calm(v)' => Tells(v)'
    <3>1. Asking(w) /\ Calm(w)' => Tells(w)'
      BY <2>3, <2>9, <2>17, RefusedTells
    <3>2. \A v \in Run : v # w => job'[v] = job[v]
      BY <2>4, <2>9 DEF TypeOK
    <3> QED
      BY <2>2, <2>3, <2>9, <3>1, <3>2, StepOfOne
  <2>10. ASSUME NEW w \in Run, NEW j \in Job, Reject(w, j)
         PROVE  \A v \in Run : Asking(v)' /\ Calm(v)' => Tells(v)'
    BY <2>8, <2>9, <2>10 DEF Reject
  <2>11. ASSUME NEW w \in Run, AgentStops(w) PROVE \A v \in Run : Asking(v)' /\ Calm(v)' => Tells(v)'
    BY <2>8, <2>11 DEF AgentStops
  <2>12. ASSUME NEW w \in Run, AgentRun(w) PROVE \A v \in Run : Asking(v)' /\ Calm(v)' => Tells(v)'
    <3>1. Asking(w) /\ Calm(w)' => Tells(w)'
      BY <2>3, <2>12, <2>17, AgentRunTells
    <3>2. UNCHANGED <<event, state, comments, proposals>>
      BY <2>12 DEF AgentRun
    <3>3. /\ \E x : job' = [job EXCEPT ![w]["agent"] = x]
          /\ \E x : out' = [out EXCEPT ![w] = x] /\ \E y : uploaded' = [uploaded EXCEPT ![w] = y]
          /\ \E r \in Records :
               made' = Append(made, [by |-> w, event |-> event[w], record |-> r])
      BY <2>12 DEF AgentRun, Possible
    <3>4. \A v \in Run : v # w =>
            job'[v] = job[v] /\ out'[v] = out[v] /\ uploaded'[v] = uploaded[v]
      BY <2>4, <3>3 DEF TypeOK
    <3>5. \A i \in 1 .. Len(made) : made'[i] = made[i]
      BY <2>4, <3>3 DEF TypeOK
    <3> QED
      BY <2>2, <2>3, <3>1, <3>2, <3>4, <3>5, StepOfOne
  <2>13. ASSUME NEW w \in Run, Report(w) \/ NotAccepted(w)
         PROVE  \A v \in Run : Asking(v)' /\ Calm(v)' => Tells(v)'
    <3>1. Asking(w) /\ Calm(w)' => Tells(w)'
      BY <2>3, <2>13, <2>17, ReportTells, NotAcceptedTells
    <3>2. UNCHANGED <<event, state, out, uploaded, made, proposals>>
      BY <2>13 DEF Report, NotAccepted
    <3>3. \A v \in Run : v # w => job'[v] = job[v] /\ comments'[v] = comments[v]
      <4>1. /\ \E j \in Job : \E x : job' = [job EXCEPT ![w][j] = x]
            /\ \E X : comments' = [comments EXCEPT ![w] = @ \cup X]
        BY <2>13 DEF Report, NotAccepted, Job
      <4> QED
        BY <4>1, <2>3, <2>4, SaidIsHeard DEF TypeOK
    <3> QED
      BY <2>2, <2>3, <3>1, <3>2, <3>3, StepOfOne
  <2>14. ASSUME NEW w \in Run, Accept(w) PROVE \A v \in Run : Asking(v)' /\ Calm(v)' => Tells(v)'
    <3>1. Asking(w) /\ Calm(w)' => Tells(w)'
      BY <2>3, <2>14, <2>17, AcceptTells
    <3>2. UNCHANGED <<event, state, out, uploaded, made>>
      BY <2>14 DEF Accept
    <3>3. \A v \in Run : v # w => job'[v] = job[v] /\ comments'[v] = comments[v]
      <4>1. /\ \E x : job' = [job EXCEPT ![w]["accept"] = x]
            /\ \E X : comments' = [comments EXCEPT ![w] = @ \cup X]
        BY <2>14 DEF Accept
      <4> QED
        BY <4>1, <2>3, <2>4, SaidIsHeard DEF TypeOK
    <3>4. proposals' = proposals \/ proposals' = proposals \cup {out[w].id}
      BY <2>14 DEF Accept, Branch
    <3> QED
      BY <2>2, <2>3, <3>1, <3>2, <3>3, <3>4, StepOfOne
  <2>15. ASSUME NEW w \in Run, Finish(w) PROVE \A v \in Run : Asking(v)' /\ Calm(v)' => Tells(v)'
    <3> SUFFICES ASSUME NEW v \in Run, Asking(v)', Calm(v)' PROVE Tells(v)'
      OBVIOUS
    <3>1. UNCHANGED <<event, out, uploaded, comments, made, proposals>>
      BY <2>15 DEF Finish
    <3>2. Asking(v) /\ Calm(v)
      BY <2>2, <3>1 DEF Asking, Wanted, Calm
    <3>3. CASE v = w
      BY <2>3, <2>15, <3>2, <3>3, FinishTells
    <3>4. CASE v # w
      <4>1. job'[v] = job[v] /\ state'[v] = state[v]
        BY <2>4, <2>15, <3>4 DEF Finish, TypeOK
      <4> QED
        BY <2>3, <3>1, <3>2, <4>1, OthersTell
    <3> QED
      BY <3>3, <3>4
  <2>16. ASSUME NEW w \in Run, Rerun(w)
         PROVE  \A v \in Run : Asking(v)' /\ Calm(v)' => Tells(v)'
    <3> SUFFICES ASSUME NEW v \in Run, Asking(v)', Calm(v)' PROVE Tells(v)'
      OBVIOUS
    <3>1. v # w /\ UNCHANGED <<event, uploaded, comments, made, proposals>>
      BY <2>16 DEF Rerun, Calm
    <3>2. Asking(v) /\ Calm(v)
      <4>1. OnIssue(event[v]) /\ Wanted(v, "request")
        BY <3>1 DEF Asking, Wanted
      <4> QED
        BY <2>2, <4>1 DEF Asking, Calm
    <3>3. /\ \E x : job' = [job EXCEPT ![w] = x]
          /\ \E x : out' = [out EXCEPT ![w] = x]
      BY <2>16 DEF Rerun
    <3>4. job'[v] = job[v] /\ out'[v] = out[v]
      BY <2>4, <3>1, <3>3 DEF TypeOK
    <3>5. \/ state'[v] = state[v]
          \/ state[v] = "queued" /\ state'[v] = "cancelled"
      BY <2>4, <2>16, <3>1 DEF Rerun, Enter, TypeOK
    <3> QED
      BY <2>3, <3>1, <3>2, <3>4, <3>5, OthersTell
  <2> QED
    BY <2>5, <2>6, <2>7, <2>10, <2>11, <2>12, <2>13, <2>14, <2>15, <2>16 DEF Next, Step
<1> QED
  BY <1>1, <1>2, Invariance, PTL DEF Spec

(* agent.yml: of a run none of whose calls failed and nothing of which was  *)
(* re-run, the issue is told exactly what became of it, unless it left a    *)
(* record the report raises on.                                             *)
THEOREM OutcomeIsTold == Spec => []EndedIsTold
<1>1. IInv /\ TellInv => EndedIsTold
  <2> SUFFICES ASSUME IInv, TellInv, NEW w \in Run \ disturbed, state[w] = "done",
                      Wanted(w, "request"), OnIssue(event[w])
               PROVE  Heard(w) =
                 IF ~Accepts(event[w]) THEN {"refused"}
                 ELSE {"received"} \cup
                      (IF Unreportable(w) THEN {}
                       ELSE IF out[w].id = 0 THEN {"stopped"}
                       ELSE IF out[w].asks THEN {"questions"}
                       ELSE IF ~Reviewable(event[w], made[out[w].id].record) THEN {"result"}
                       ELSE {"result", IF out[w].id \in proposals THEN "pull_request"
                                       ELSE "no_pull_request"})
    BY DEF EndedIsTold
  <2>1. JobsInOrder(w) /\ Outcome(w) /\ SaidSoFar(w)
    BY DEF TellInv, Calm, Asking, Tells
  <2>2. Ran(w, "request")
    BY <2>1 DEF JobsInOrder, Job
  <2>3. CASE ~Accepts(event[w])
    <3>1. job[w]["request"] = "failure"
      BY <2>1, <2>2, <2>3 DEF JobsInOrder, Ran
    <3>2. \A j \in {"agent", "report", "accept", "not_accepted"} : job[w][j] # "success"
      BY <2>1, <3>1 DEF JobsInOrder, Ran
    <3> QED
      BY <2>1, <2>2, <2>3, <3>2 DEF SaidSoFar
  <2>4. CASE Accepts(event[w])
    <3>1. job[w]["request"] = "success"
      BY <2>1, <2>2, <2>4 DEF JobsInOrder
    <3>2. Ran(w, "agent") /\ Ran(w, "report")
      BY <2>1, <3>1 DEF JobsInOrder, Job, Wanted
    <3>3. job[w]["report"] = "success" <=> ~Unreportable(w)
      BY <2>1, <3>2 DEF Outcome, Ran
    <3>4. job[w]["agent"] = "success" =>
            out[w].id # 0 /\ Reviewable(event[w], made[out[w].id].record)
      BY DEF IInv, SuccessIsReviewable
    <3>5. CASE job[w]["agent"] # "success" \/ out[w].asks
      <4>1. job[w]["accept"] # "success" /\ job[w]["not_accepted"] # "success"
        BY <2>1, <3>5 DEF JobsInOrder, Ran
      <4>2. Heard(w) = {"received"} \cup IF Unreportable(w) THEN {} ELSE {Reported(w)}
        BY <2>1, <2>2, <2>4, <3>3, <4>1 DEF SaidSoFar
      <4>3. out[w].id # 0 /\ ~out[w].asks => ~Reviewable(event[w], made[out[w].id].record)
        BY <2>1, <3>5 DEF Outcome
      <4> QED
        BY <2>4, <4>2, <4>3 DEF Reported
    <3>6. CASE job[w]["agent"] = "success" /\ ~out[w].asks
      <4>1. out[w].id # 0 /\ Reviewable(event[w], made[out[w].id].record)
        BY <3>4, <3>6
      <4>2. ~Unreportable(w)
        <5>1. ~made[out[w].id].record.asked
          BY <4>1, <3>6 DEF IInv, OwnRun
        <5>2. made[out[w].id].record.validation = "passed"
          BY <4>1, <5>1, ReviewablePasses
        <5> QED
          BY <5>2 DEF Unreportable, None
      <4>3. Ran(w, "accept")
        BY <2>1, <3>1, <3>6 DEF JobsInOrder, Job, Wanted
      <4>4. out[w].id \in proposals <=> job[w]["accept"] = "success"
        BY <2>1, <4>1 DEF Outcome
      <4>5. CASE job[w]["accept"] = "success"
        <5>1. job[w]["not_accepted"] # "success"
          BY <2>1, <4>5 DEF JobsInOrder, Ran
        <5> QED
          BY <2>1, <2>2, <2>4, <3>3, <3>6, <4>1, <4>2, <4>4, <4>5, <5>1 DEF SaidSoFar, Reported
      <4>6. CASE job[w]["accept"] # "success"
        <5>1. Wanted(w, "not_accepted")
          BY <3>6, <4>6 DEF Wanted
        <5>2. job[w]["not_accepted"] = "success"
          BY <2>1, <5>1 DEF JobsInOrder, Outcome, Ran, Job
        <5> QED
          BY <2>1, <2>2, <2>4, <3>3, <3>6, <4>1, <4>2, <4>4, <4>6, <5>2 DEF SaidSoFar, Reported
      <4> QED
        BY <4>5, <4>6
    <3> QED
      BY <3>5, <3>6
  <2> QED
    BY <2>3, <2>4
<1> QED
  BY <1>1, Invariance, TellsAlways, PTL

(* What is added to the comments keeps what was told true.                  *)
Fits(w, c) ==
  /\ c.text \in {"received", "refused"} => (c.text = "received" <=> Accepts(event[w]))
  /\ c.text \in {"questions", "result"} =>
       Own(w, c.id) /\ (c.text = "questions" <=> made[c.id].record.asked)
  /\ c.text = "pull_request" => Own(w, c.id) /\ c.id \in proposals
  /\ c.text = "no_pull_request" => Own(w, c.id) /\ ExitCode(made[c.id].record) = 0

Kept == comments = [w \in Run |-> comments[w]] /\ ToldIsTrue

(* An agent run that was made stays, and what is proposed too.             *)
LEMMA MadeStays ==
  ASSUME IInv, [Next]_vars
  PROVE  /\ \A i \in DOMAIN made : i \in DOMAIN made' /\ made'[i] = made[i]
         /\ proposals \subseteq proposals' /\ event' = event
<1>1. \/ made' = made
      \/ \E e : /\ made' = Append(made, e)
               /\ e \in [by : Run, event : Event, record : Records]
  <2>1. ASSUME NEW w \in Run, AgentRun(w)
        PROVE  \E e : /\ made' = Append(made, e)
                      /\ e \in [by : Run, event : Event, record : Records]
    <3>1. PICK r \in Records : made' = Append(made, [by |-> w, event |-> event[w], record |-> r])
      BY <2>1 DEF AgentRun, Possible
    <3>2. [by |-> w, event |-> event[w], record |-> r] \in [by : Run, event : Event, record : Records]
      BY TrafficAssumption DEF IInv, TypeOK
    <3> QED
      BY <3>1, <3>2
  <2> QED
    BY <2>1 DEF Next, Step, vars, Arrive, Start, Request, AgentStops, Report, Accept,
                NotAccepted, Finish, Rerun, Reject
<1>2. \A i \in DOMAIN made : i \in DOMAIN made' /\ made'[i] = made[i]
  <2>1. CASE made' = made
    BY <2>1
  <2>2. ASSUME NEW e \in [by : Run, event : Event, record : Records], made' = Append(made, e)
        PROVE  \A i \in DOMAIN made : i \in DOMAIN made' /\ made'[i] = made[i]
    <3>1. made \in Seq([by : Run, event : Event, record : Records])
      BY DEF IInv, TypeOK
    <3> QED
      BY <2>2, <3>1
  <2> QED
    BY <1>1, <2>1, <2>2
<1>3. proposals \subseteq proposals' /\ event' = event
  BY DEF Next, Step, vars, Arrive, Start, Request, AgentRun, AgentStops, Report, Accept,
         NotAccepted, Finish, Rerun, Reject
<1> QED
  BY <1>2, <1>3

(* The steps that tell something tell what is true.                        *)
LEMMA NewsIsTrue ==
  ASSUME IInv, [Next]_vars, NEW w \in Run, NEW X, comments' = [comments EXCEPT ![w] = @ \cup X],
         comments = [v \in Run |-> comments[v]], ToldIsTrue,
         \A c \in X : Fits(w, c)'
  PROVE  Kept'
<1>1. comments' = [v \in Run |-> comments'[v]]
  OBVIOUS
<1>2. ASSUME NEW v \in Run, NEW c \in comments'[v] PROVE Fits(v, c)'
  <2>1. CASE c \in comments[v]
    <3>1. Fits(v, c)
      BY <2>1 DEF ToldIsTrue, Fits
    <3> QED
      BY <3>1, MadeStays DEF Fits, Own
  <2>2. CASE c \notin comments[v]
    BY <1>2, <2>2
  <2> QED
    BY <2>1, <2>2
<1> QED
  BY <1>1, <1>2 DEF Kept, ToldIsTrue, Fits

(* Whatever fails or is re-run, what the issue is told is true.             *)
THEOREM WhatIsToldIsTrue == Spec => []ToldIsTrue
<1>1. Init => Kept
  BY DEF Init, Kept, ToldIsTrue
<1>2. IInv /\ Kept /\ [Next]_vars => Kept'
  <2> SUFFICES ASSUME IInv, comments = [v \in Run |-> comments[v]], ToldIsTrue, [Next]_vars
               PROVE  Kept'
    BY DEF Kept
  <2>1. ASSUME comments' = comments PROVE Kept'
    <3>1. ASSUME NEW v \in Run, NEW c \in comments[v] PROVE Fits(v, c)'
      <4>1. Fits(v, c)
        BY DEF ToldIsTrue, Fits
      <4> QED
        BY <4>1, MadeStays DEF Fits, Own
    <3> QED
      BY <2>1, <3>1 DEF Kept, ToldIsTrue, Fits
  <2>2. ASSUME NEW w \in Run, Request(w) PROVE Kept'
    <3> DEFINE text == IF Accepts(event[w]) THEN "received" ELSE "refused"
    <3>1. PICK told \in BOOLEAN : comments' = [comments EXCEPT ![w] = @ \cup
            IF told /\ OnIssue(event[w]) THEN {Says(text, 0)} ELSE {}]
      BY <2>2 DEF Request
    <3> DEFINE X == IF told /\ OnIssue(event[w]) THEN {Says(text, 0)} ELSE {}
    <3>2. ASSUME NEW c \in X PROVE Fits(w, c)'
      <4>1. c.text = text
        BY DEF Says
      <4>2. Accepts(event'[w]) <=> Accepts(event[w])
        BY MadeStays
      <4> QED
        BY <4>1, <4>2 DEF Fits
    <3>3. comments' = [comments EXCEPT ![w] = @ \cup X]
      BY <3>1
    <3> HIDE DEF X
    <3> QED
      BY <3>2, <3>3, NewsIsTrue
  <2>3. ASSUME NEW w \in Run, Report(w) PROVE Kept'
    <3> DEFINE id   == out[w].id
               text == IF out[w].asks THEN "questions" ELSE "result"
    <3>1. PICK X \in {{}, {Says("stopped", id)}} \cup (IF id # 0 THEN {{Says(text, id)}} ELSE {}) :
            comments' = [comments EXCEPT ![w] = @ \cup X]
      BY <2>3 DEF Report
    <3>2. ASSUME NEW c \in X PROVE Fits(w, c)'
      <4>1. c.text = "stopped" \/ (id # 0 /\ c.text = text /\ c.id = id)
        BY <3>1 DEF Says
      <4>2. CASE c.text = "stopped"
        BY <4>2 DEF Fits
      <4>3. CASE id # 0 /\ c.text = text /\ c.id = id
        <5>1. Own(w, id) /\ (text = "questions" <=> made[id].record.asked)
          BY <4>3 DEF IInv, TypeOK, OwnRun, Own
        <5>2. Own(w, id)' /\ made'[id] = made[id]
          <6>1. out' = out
            BY <2>3 DEF Report
          <6> QED
            BY <5>1, <6>1, MadeStays DEF Own
        <5>3. text \in {"questions", "result"}
          OBVIOUS
        <5>4. out' = out
          BY <2>3 DEF Report
        <5> QED
          BY <4>3, <5>1, <5>2, <5>3, <5>4 DEF Fits
      <4> QED
        BY <4>1, <4>2, <4>3
    <3> QED
      BY <3>1, <3>2, NewsIsTrue
  <2>4. ASSUME NEW w \in Run, Accept(w) PROVE Kept'
    <3> DEFINE id == out[w].id
    <3>1. Own(w, id)
      BY <2>4 DEF Accept, Ready, Wanted, IInv, TypeOK, OwnRun, SuccessIsReviewable, Own
    <3>2. PICK steps \in (IF uploaded[w] = id /\ Applies(event[w], made[id].record)
                         THEN 1 .. 4 ELSE {0}) :
            /\ proposals' = proposals \cup (IF steps >= 3 THEN {id} ELSE {})
            /\ comments' = [comments EXCEPT ![w] = @ \cup
                 IF steps = 4 /\ OnIssue(event[w]) THEN {Says("pull_request", id)} ELSE {}]
      BY <2>4, Zenon DEF Accept, Branch
    <3> DEFINE X == IF steps = 4 /\ OnIssue(event[w]) THEN {Says("pull_request", id)} ELSE {}
    <3>3. comments' = [comments EXCEPT ![w] = @ \cup X]
      BY <3>2
    <3>4. ASSUME NEW c \in X PROVE Fits(w, c)'
      <4>1. c.text = "pull_request" /\ c.id = id /\ steps = 4
        BY DEF Says
      <4>2. c.id \in proposals'
        BY <3>2, <4>1
      <4>3. c.id \in DOMAIN made' /\ made'[c.id].by = w
        BY <3>1, <4>1, MadeStays DEF Own
      <4> QED
        BY <4>1, <4>2, <4>3 DEF Fits, Own
    <3> HIDE DEF X
    <3> QED
      BY <3>3, <3>4, NewsIsTrue
  <2>5. ASSUME NEW w \in Run, NotAccepted(w) PROVE Kept'
    <3> DEFINE id == out[w].id
    <3>1. job[w]["agent"] = "success" /\ ~out[w].asks
      BY <2>5 DEF NotAccepted, Ready, Wanted
    <3>2. Own(w, id) /\ Reviewable(event[w], made[id].record) /\ ~made[id].record.asked
      BY <3>1 DEF IInv, TypeOK, OwnRun, SuccessIsReviewable, Own
    <3>3. ExitCode(made[id].record) = 0
      BY <3>2 DEF Reviewable, ExitCode
    <3>4. PICK told \in BOOLEAN : comments' = [comments EXCEPT ![w] = @ \cup
            IF told THEN {Says("no_pull_request", id)} ELSE {}]
      BY <2>5 DEF NotAccepted
    <3> DEFINE X == IF told THEN {Says("no_pull_request", id)} ELSE {}
    <3>5. comments' = [comments EXCEPT ![w] = @ \cup X]
      BY <3>4
    <3>6. ASSUME NEW c \in X PROVE Fits(w, c)'
      <4>1. c.text = "no_pull_request" /\ c.id = id
        BY DEF Says
      <4>2. c.id \in DOMAIN made' /\ made'[c.id].by = w /\ made'[c.id] = made[c.id]
        BY <3>2, <4>1, MadeStays DEF Own
      <4> QED
        BY <3>3, <4>1, <4>2 DEF Fits, Own
    <3> HIDE DEF X
    <3> QED
      BY <3>5, <3>6, NewsIsTrue
  <2> QED
    BY <2>1, <2>2, <2>3, <2>4, <2>5 DEF Next, Step, vars, Arrive, Start, AgentRun, AgentStops,
       Finish, Rerun, Reject
<1> QED
  BY <1>1, <1>2, Invariance, PTL DEF Spec, Kept
===============================================================================
