------------------------------- MODULE Pipeline -------------------------------
(***************************************************************************)
(* The team pipeline of .github/workflows/agent.yml: events become workflow *)
(* runs, a run walks its five jobs, two of which wait for a maintainer, and *)
(* an accepted agent run becomes a branch and a pull request.  The scripts  *)
(* the jobs call (pipeline_request.py, the command line, apply_change.py)   *)
(* are modelled; GitHub is external and modelled from how they use it.      *)
(***************************************************************************)
EXTENDS Naturals, Sequences

CONSTANTS
  Run,        \* workflow runs
  Issue,      \* issues of the repository
  Traffic,    \* the events that may trigger them: [Run -> Event]
  File,       \* paths of generated and existing files
  Records,    \* what an agent run may leave behind
  Tree,       \* the target repository: path -> line endings
  MaxReruns,  \* bound: how often someone re-runs a workflow run
  MaxHiccups  \* bound: how often a call to GitHub fails

None == "none"

(* A text as the length checks of resolve() see it.                        *)
Text   == {"empty", "fits", "long"}
Ending == {"lf", "crlf", "mixed"}

(* An event.  Issue forms come in two generations; a scenario of the older  *)
(* one may bring its own requirement.                                       *)
Event ==
  [kind     : {"issues", "issue_comment", "workflow_dispatch"},
   issue    : Issue \cup {None},
   agent    : BOOLEAN,     \* the title starts with [agent]
   answers  : BOOLEAN,     \* says /answer, by the author or a maintainer
   form     : {"target", "scenario", None},
   known    : BOOLEAN,     \* the chosen option is on the list
   preset   : BOOLEAN,     \* the scenario has a requirement of its own
   written  : Text,        \* the requirement typed in
   repo     : {None, "demo", "missing"},
   answer   : Text,        \* the text after an /answer at a line's start
   provider : {"claude", "openai", "deterministic", "other"}]

(* The record of an agent run: how it ended, who did the model stages, the  *)
(* files result.json lists and those found in the artifacts folder.         *)
Record ==
  [asked      : BOOLEAN,   \* clarification.json was written
   validation : {None, "passed", "failed"},
   halted     : BOOLEAN,
   llm        : {None, "model", "fallback"},
   listed     : SUBSET File, found : SUBSET File]

ASSUME TrafficAssumption ==
  /\ None \notin Issue /\ Issue \cap Run = {}
  /\ Traffic \subseteq [Run -> {e \in Event : e.issue = None <=> e.kind = "workflow_dispatch"}]

ASSUME RecordsAssumption ==
  Records \subseteq {r \in Record : r.asked => r.validation = None /\ ~r.halted}

ASSUME TreeAssumption == DOMAIN Tree \subseteq File /\ \A p \in DOMAIN Tree : Tree[p] \in Ending

ASSUME BoundsAssumption == MaxReruns \in Nat /\ MaxHiccups \in Nat
-----------------------------------------------------------------------------
(* resolve(): which events become a request, and what the request says.    *)

(* _from_issue: the requirement typed in, or else the scenario's.          *)
Requirement(e) ==
  IF e.kind # "workflow_dispatch" /\ e.form = "scenario" /\ e.preset /\ e.written = "empty"
  THEN "fits" ELSE e.written

Accepts(e) ==
  /\ Requirement(e) = "fits"
  /\ e.kind = "workflow_dispatch" => e.provider # "other" /\ e.repo # "missing"
  /\ e.kind # "workflow_dispatch" => e.form # None /\ e.known
  /\ e.kind = "issue_comment" => e.answer = "fits"

Provider(e) == IF e.kind = "workflow_dispatch" THEN e.provider ELSE "claude"
AskFirst(e) == e.kind = "issues"
OnIssue(e)  == e.kind # "workflow_dispatch"

(* The exit status of the command line: 0 only for a validated run that was *)
(* not halted, 3 when it stopped to ask.                                    *)
ExitCode(r) ==
  IF r.asked THEN 3 ELSE IF r.validation = "passed" /\ ~r.halted THEN 0 ELSE 1

(* A model run is sent on only if the model did the work: it built or asked, *)
(* and no stage fell back.                                                  *)
(* mutant: a run without model calls counts as the model's. *)
Reviewable_mutant(e, r) ==
  ExitCode(r) \in {0, 3} /\ (Provider(e) = "deterministic" \/ r.llm # "fallback")
Reviewable(e, r) ==
  ExitCode(r) \in {0, 3} /\ (Provider(e) = "deterministic" \/ r.llm = "model")

(* The records an event's agent run may leave: it asks only ask-first, and  *)
(* has a change set only against a repository.                              *)
Possible(e) ==
  {r \in Records : /\ r.asked => AskFirst(e)
                   /\ "CHANGES.diff" \in r.listed => e.repo # None}

(* apply_change.py: the files it places, each with its line endings.  Those *)
(* of a change set keep the endings of the file they replace.               *)
(* mutant: everything in the folder is placed. *)
Placed_mutant(r) ==
  r.found \ (IF "CHANGES.diff" \in r.found
               THEN {"CHANGES.diff", "ENGINEERING_SUMMARY.md"} ELSE {})
Placed(r) ==
  (r.listed \cap r.found) \ (IF "CHANGES.diff" \in r.found
                               THEN {"CHANGES.diff", "ENGINEERING_SUMMARY.md"} ELSE {})

EndingOf(r, p) ==
  IF "CHANGES.diff" \in r.found /\ p \in DOMAIN Tree /\ Tree[p] # "lf" THEN "crlf" ELSE "lf"

Content(r) == [p \in Placed(r) |-> EndingOf(r, p)]

(* It refuses a change set without a folder; git refuses an empty commit.  *)
Applies(e, r) == Placed(r) # {} /\ ("CHANGES.diff" \in r.found => e.repo # None)
-----------------------------------------------------------------------------
VARIABLES
  event,      \* what triggers each workflow run, chosen at the start
  state,      \* [Run -> "none", "queued", "active", "cancelled" or "done"]
  job,        \* [Run -> [Job -> "waiting", "success", "failure", "skipped"]]
  out,        \* outputs of run-agent: the run id (0: none), needs_clarification
  uploaded,   \* the run id of the published record (0: none)
  comments,   \* [Run -> what it said on the issue]
  made,       \* the agent runs, by run id
  accepted,   \* run ids a maintainer accepted
  branch,     \* branches pushed: run id -> content
  proposals,  \* run ids with a pull request
  reruns, hiccups,  \* how many are left
  disturbed   \* runs of which a call failed or a job was re-run, for the properties only

vars == <<event, state, job, out, uploaded, comments, made, accepted, branch,
          proposals, reruns, hiccups, disturbed>>

Job == {"request", "agent", "report", "accept", "not_accepted"}

Needs == [j \in Job |->
  CASE j = "request"      -> {}
    [] j = "agent"        -> {"request"}
    [] j = "report"       -> {"request", "agent"}
    [] j = "accept"       -> {"request", "agent"}
    [] j = "not_accepted" -> {"request", "agent", "accept"}]

NoOutput == [id |-> 0, asks |-> FALSE]
AllJobs(result) == [j \in Job |-> result]

(* The jobs' if: conditions; without always() a job also needs the ones it  *)
(* depends on to have succeeded.                                            *)
(* mutant: the report waits for a success, as jobs do by default. *)
Wanted_mutant(w, j) ==
  CASE j = "request" ->
         event[w].kind = "workflow_dispatch" \/
           (event[w].agent /\ (event[w].kind = "issue_comment" => event[w].answers))
    [] j = "agent"   -> job[w]["request"] = "success"
    [] j = "report"  -> OnIssue(event[w]) /\ job[w]["agent"] = "success"
    [] j = "accept"  -> /\ job[w]["request"] = "success" /\ job[w]["agent"] = "success"
                        /\ ~out[w].asks
    [] j = "not_accepted" -> /\ OnIssue(event[w]) /\ job[w]["agent"] = "success"
                             /\ job[w]["accept"] # "success" /\ ~out[w].asks
Wanted(w, j) ==
  CASE j = "request" ->
         event[w].kind = "workflow_dispatch" \/
           (event[w].agent /\ (event[w].kind = "issue_comment" => event[w].answers))
    [] j = "agent"   -> job[w]["request"] = "success"
    [] j = "report"  -> OnIssue(event[w]) /\ job[w]["request"] = "success"
    [] j = "accept"  -> /\ job[w]["request"] = "success" /\ job[w]["agent"] = "success"
                        /\ ~out[w].asks
    [] j = "not_accepted" -> /\ OnIssue(event[w]) /\ job[w]["agent"] = "success"
                             /\ job[w]["accept"] # "success" /\ ~out[w].asks

Ready(w, j) ==
  /\ state[w] = "active" /\ job[w][j] = "waiting"
  /\ \A n \in Needs[j] : job[w][n] # "waiting"
  /\ Wanted(w, j)

Says(text, id) == [text |-> text, id |-> id]

(* A run's call to GitHub succeeds, or fails while hiccups are left.       *)
Called == UNCHANGED <<hiccups, disturbed>>
Failed(w) ==
  hiccups > 0 /\ hiccups' = hiccups - 1 /\ disturbed' = disturbed \cup {w}

Init ==
  /\ event \in Traffic /\ state = [w \in Run |-> "none"]
  /\ job = [w \in Run |-> AllJobs("waiting")]
  /\ out = [w \in Run |-> NoOutput] /\ uploaded = [w \in Run |-> 0]
  /\ comments = [w \in Run |-> {}]
  /\ made = <<>> /\ accepted = {} /\ branch = <<>> /\ proposals = {}
  /\ reruns = MaxReruns /\ hiccups = MaxHiccups /\ disturbed = {}
-----------------------------------------------------------------------------
(* The concurrency group: the issue, or the workflow run itself.           *)
Group(w) == IF event[w].issue = None THEN w ELSE event[w].issue

Idle(g) == \A v \in Run : state[v] = "active" => Group(v) # g

(* A group has one active and one waiting run: a newcomer starts if the     *)
(* group is idle, or else takes the place of the one that waits.            *)
Enter(w) ==
  state' = [v \in Run |->
              IF v = w THEN (IF Idle(Group(w)) THEN "active" ELSE "queued")
              ELSE IF state[v] = "queued" /\ Group(v) = Group(w) THEN "cancelled"
              ELSE state[v]]

(* An event fires; an issue is opened before anyone comments on it.        *)
Arrive(w) ==
  /\ state[w] = "none"
  /\ event[w].kind = "issues" => \A v \in Run : Group(v) = Group(w) => state[v] = "none"
  /\ Enter(w)
  /\ UNCHANGED <<event, job, out, uploaded, comments, made, accepted, branch, proposals,
                 reruns, hiccups, disturbed>>

Start(w) ==
  /\ state[w] = "queued" /\ Idle(Group(w))
  /\ state' = [state EXCEPT ![w] = "active"]
  /\ UNCHANGED <<event, job, out, uploaded, comments, made, accepted, branch, proposals,
                 reruns, hiccups, disturbed>>

(* request: resolve() and the acknowledgement.                             *)
Request(w) ==
  /\ Ready(w, "request")
  /\ \E result \in {"success", "failure"}, told \in BOOLEAN :
       /\ result = "success" <=> Accepts(event[w]) /\ told
       /\ IF told THEN Called ELSE Failed(w) /\ OnIssue(event[w])
       /\ job' = [job EXCEPT ![w]["request"] = result]
       /\ comments' = [comments EXCEPT ![w] = @ \cup
            IF told /\ OnIssue(event[w])
            THEN {Says(IF Accepts(event[w]) THEN "received" ELSE "refused", 0)} ELSE {}]
  /\ UNCHANGED <<event, state, out, uploaded, made, accepted, branch, proposals, reruns>>

(* An environment's reviewer refuses, or lets the request expire.          *)
Reject(w, j) ==
  /\ j \in {"agent", "accept"} /\ Ready(w, j)
  /\ job' = [job EXCEPT ![w][j] = "failure"]
  /\ UNCHANGED <<event, state, out, uploaded, comments, made, accepted, branch, proposals,
                 reruns, hiccups, disturbed>>

(* run-agent, approved: the agent runs to its end and its record is         *)
(* published.                                                              *)
AgentRun(w) ==
  /\ Ready(w, "agent")
  /\ \E r \in Possible(event[w]), published \in BOOLEAN :
       LET id == Len(made) + 1
           ok == published /\ Reviewable(event[w], r)
       IN /\ made' = Append(made, [by |-> w, event |-> event[w], record |-> r])
          /\ out' = [out EXCEPT ![w] = [id |-> id, asks |-> r.asked]]
          /\ IF published THEN Called ELSE Failed(w)
          /\ uploaded' = [uploaded EXCEPT ![w] = IF published THEN id ELSE @]
          /\ job' = [job EXCEPT ![w]["agent"] = IF ok THEN "success" ELSE "failure"]
  /\ UNCHANGED <<event, state, comments, accepted, branch, proposals, reruns>>

(* run-agent, approved, but without a key, over its 45 minutes or crashed: *)
(* there is no record and no run id.                                       *)
AgentStops(w) ==
  /\ Ready(w, "agent")
  /\ job' = [job EXCEPT ![w]["agent"] = "failure"]
  /\ UNCHANGED <<event, state, out, uploaded, comments, made, accepted, branch, proposals,
                 reruns, hiccups, disturbed>>

(* report: the questions, the result, or that there is none.  The script    *)
(* raises on a result without validation, and then nothing is posted.       *)
(* mutant: it is tried again until it posts. *)
Report_mutant(w) ==
  /\ Ready(w, "report")
  /\ \E fault \in {None, "download", "comment"} :
       LET id     == out[w].id
           record == fault # "download" /\ id # 0 /\ uploaded[w] = id
           raises == record /\ ~out[w].asks /\ made[id].record.validation = None
           told   == fault # "comment" /\ ~raises
       IN /\ IF fault = None THEN Called ELSE Failed(w)
          /\ job' = [job EXCEPT ![w]["report"] = IF told THEN "success" ELSE "waiting"]
          /\ comments' = [comments EXCEPT ![w] = @ \cup
               IF ~told THEN {}
               ELSE IF ~record THEN {Says("stopped", id)}
               ELSE {Says(IF out[w].asks THEN "questions" ELSE "result", id)}]
  /\ UNCHANGED <<event, state, out, uploaded, made, accepted, branch, proposals, reruns>>
Report(w) ==
  /\ Ready(w, "report")
  /\ \E fault \in {None, "download", "comment"} :
       LET id     == out[w].id
           record == fault # "download" /\ id # 0 /\ uploaded[w] = id
           raises == record /\ ~out[w].asks /\ made[id].record.validation = None
           told   == fault # "comment" /\ ~raises
       IN /\ IF fault = None THEN Called ELSE Failed(w)
          /\ job' = [job EXCEPT ![w]["report"] = IF told THEN "success" ELSE "failure"]
          /\ comments' = [comments EXCEPT ![w] = @ \cup
               IF ~told THEN {}
               ELSE IF ~record THEN {Says("stopped", id)}
               ELSE {Says(IF out[w].asks THEN "questions" ELSE "result", id)}]
  /\ UNCHANGED <<event, state, out, uploaded, made, accepted, branch, proposals, reruns>>

(* agent/<run id>: the branch of the agent run.                            *)
(* mutant: the branch of the workflow run. *)
Branch_mutant(w) == CHOOSE i \in DOMAIN made : made[i].by = w /\ \A k \in 1 .. i - 1 : made[k].by # w
Branch(w) == out[w].id

(* accept, approved: apply the files and commit, push --force, reuse or     *)
(* open the pull request, tell the issue; the first step to fail is the     *)
(* last.                                                                   *)
Accept(w) ==
  /\ Ready(w, "accept")
  /\ LET id == out[w].id
         r  == made[id].record
         applies == uploaded[w] = id /\ Applies(event[w], r)
     IN \E steps \in (IF applies THEN 1 .. 4 ELSE {0}) :
          /\ IF steps \in {0, 4} THEN Called ELSE Failed(w)
          /\ steps = 3 => OnIssue(event[w])
          /\ accepted' = accepted \cup {id}
          /\ IF steps < 2 THEN UNCHANGED branch
             ELSE branch' = [b \in DOMAIN branch \cup {Branch(w)} |->
                               IF b = Branch(w) THEN Content(r) ELSE branch[b]]
          /\ proposals' = proposals \cup (IF steps >= 3 THEN {Branch(w)} ELSE {})
          /\ job' = [job EXCEPT ![w]["accept"] = IF steps = 4 THEN "success" ELSE "failure"]
          /\ comments' = [comments EXCEPT ![w] = @ \cup
               IF steps = 4 /\ OnIssue(event[w]) THEN {Says("pull_request", id)} ELSE {}]
  /\ UNCHANGED <<event, state, out, uploaded, made, reruns>>

(* not-accepted: "No pull request will be opened for this run."            *)
NotAccepted(w) ==
  /\ Ready(w, "not_accepted")
  /\ \E told \in BOOLEAN :
       /\ IF told THEN Called ELSE Failed(w)
       /\ job' = [job EXCEPT ![w]["not_accepted"] = IF told THEN "success" ELSE "failure"]
       /\ comments' = [comments EXCEPT ![w] = @ \cup
            IF told THEN {Says("no_pull_request", out[w].id)} ELSE {}]
  /\ UNCHANGED <<event, state, out, uploaded, made, accepted, branch, proposals, reruns>>

(* The run is over when no job is left to run; the others were skipped.    *)
Finish(w) ==
  /\ state[w] = "active" /\ \A j \in Job : ~Ready(w, j)
  /\ state' = [state EXCEPT ![w] = "done"]
  /\ job' = [job EXCEPT ![w] = [j \in Job |-> IF @[j] = "waiting" THEN "skipped" ELSE @[j]]]
  /\ UNCHANGED <<event, out, uploaded, comments, made, accepted, branch, proposals,
                 reruns, hiccups, disturbed>>

(* The jobs that run again: those given and all that need one of them.     *)
Again(jobs) == {j \in Job : j \in jobs \/ Needs[j] \cap jobs # {}}
FailedJobs(w) == {j \in Job : job[w][j] = "failure"}

(* Someone re-runs the failed jobs of a workflow run, or all of them.      *)
Rerun(w) ==
  /\ state[w] \in {"done", "cancelled"} /\ reruns > 0 /\ reruns' = reruns - 1
  /\ disturbed' = disturbed \cup {w}
  /\ \E jobs \in {Job, Again(Again(FailedJobs(w)))} :
       /\ jobs # {}
       /\ job' = [job EXCEPT ![w] = [j \in Job |-> IF j \in jobs THEN "waiting" ELSE @[j]]]
       /\ out' = [out EXCEPT ![w] = IF "agent" \in jobs THEN NoOutput ELSE @]
  /\ Enter(w)
  /\ UNCHANGED <<event, uploaded, comments, made, accepted, branch, proposals, hiccups>>

Step(w) ==
  \/ Start(w) \/ Request(w) \/ AgentRun(w) \/ AgentStops(w)
  \/ Report(w) \/ Accept(w) \/ NotAccepted(w) \/ Finish(w)
  \/ \E j \in Job : Reject(w, j)

Next == \E w \in Run : Arrive(w) \/ Step(w) \/ Rerun(w)

Spec == Init /\ [][Next]_vars

(* GitHub schedules the jobs, and a review nobody decides expires after     *)
(* thirty days, which rejects it.  Nobody has to send events or re-run.     *)
FairSpec == Spec /\ \A w \in Run : WF_vars(Step(w))
-----------------------------------------------------------------------------
(* The variables keep their types; run ids in use are those of agent runs. *)
TypeOK ==
  /\ event \in Traffic
  /\ state \in [Run -> {"none", "queued", "active", "cancelled", "done"}]
  /\ job \in [Run -> [Job -> {"waiting", "success", "failure", "skipped"}]]
  /\ made \in Seq([by : Run, event : Event, record : Records])
  /\ out \in [Run -> [id : 0 .. Len(made), asks : BOOLEAN]]
  /\ uploaded \in [Run -> 0 .. Len(made)]
  /\ accepted \subseteq 1 .. Len(made) /\ proposals \subseteq DOMAIN branch
  /\ reruns \in 0 .. MaxReruns /\ hiccups \in 0 .. MaxHiccups /\ disturbed \subseteq Run

(* Only an accepted run becomes a pull request (agent.yml): behind every    *)
(* one is an agent run that validated, was not halted and, for a model      *)
(* run, had no stage fall back, and that a maintainer accepted.             *)
ProposalsAreAccepted ==
  \A id \in proposals :
    /\ id \in accepted /\ made[id].record.validation = "passed" /\ ~made[id].record.halted
    /\ made[id].event.provider # "deterministic" \/ OnIssue(made[id].event)
         => made[id].record.llm = "model"

(* A branch holds files its own run listed and nothing else; a change set   *)
(* leaves the line endings of uniform files as they are, whatever was       *)
(* re-run or failed in between.                                             *)
ProposalsAreFaithful ==
  \A id \in DOMAIN branch :
    LET r == made[id].record
    IN /\ DOMAIN branch[id] \subseteq r.listed \cap r.found
       /\ "CHANGES.diff" \in r.found =>
            \A p \in DOMAIN branch[id] \cap DOMAIN Tree :
              Tree[p] # "mixed" => branch[id][p] = Tree[p]

(* What was proposed stays proposed and stays the same: a re-run pushes     *)
(* with --force, but only ever onto its own run's branch.                   *)
AcceptedWorkStays ==
  [][\A id \in proposals : id \in proposals' /\ branch'[id] = branch[id]]_vars

(* What a workflow run has to tell its issue when it is over.              *)
Heard(w) == {c.text : c \in comments[w]}

(* A result without a validation: the report raises on it.                 *)
Unreportable(w) ==
  out[w].id # 0 /\ ~out[w].asks /\ made[out[w].id].record.validation = None

(* If no call to GitHub failed for a run and nothing of it was re-run, its  *)
(* issue is told, when it is over, exactly what became of it, whatever      *)
(* happened to other runs: that the request is refused, or that it was      *)
(* received and the questions, the result or that there is none, and if a   *)
(* maintainer could review it, whether there is a pull request.  A record   *)
(* the report cannot read is left out: of that nothing is told.             *)
EndedIsTold ==
  \A w \in Run \ disturbed :
    state[w] = "done" /\ Wanted(w, "request") /\ OnIssue(event[w]) =>
      Heard(w) =
        IF ~Accepts(event[w]) THEN {"refused"}
        ELSE {"received"} \cup
             (IF Unreportable(w) THEN {}
              ELSE IF out[w].id = 0 THEN {"stopped"}
              ELSE IF out[w].asks THEN {"questions"}
              ELSE IF ~Reviewable(event[w], made[out[w].id].record) THEN {"result"}
              ELSE {"result", IF out[w].id \in proposals THEN "pull_request"
                              ELSE "no_pull_request"})

(* Whatever fails or is re-run: a run is told to be received only if it is  *)
(* accepted; questions and results told are of an agent run of its own that *)
(* asked or did not; of a pull request only if it is there, for a run of    *)
(* its own; of none only for a run of its own that a maintainer could       *)
(* review.                                                                  *)
Own(w, id) == id \in DOMAIN made /\ made[id].by = w

ToldIsTrue ==
  \A w \in Run : \A c \in comments[w] :
    /\ c.text \in {"received", "refused"} => (c.text = "received" <=> Accepts(event[w]))
    /\ c.text \in {"questions", "result"} =>
         Own(w, c.id) /\ (c.text = "questions" <=> made[c.id].record.asked)
    /\ c.text = "pull_request" => Own(w, c.id) /\ c.id \in proposals
    /\ c.text = "no_pull_request" => Own(w, c.id) /\ ExitCode(made[c.id].record) = 0

(* "No pull request will be opened for this run" (agent.yml:346): there is  *)
(* none then, nor later.                                                    *)
NoPullRequestIsTrue ==
  \A w \in Run : \A c \in comments[w] : c.text = "no_pull_request" => c.id \notin proposals

(* "otherwise it builds, and the result is posted here" (agent.yml:119): a  *)
(* request that was received is told, when it is over, of its questions,    *)
(* its result or that there is none, if no call failed.                     *)
ResultIsPosted ==
  \A w \in Run \ disturbed :
    state[w] = "done" /\ "received" \in Heard(w) =>
      Heard(w) \cap {"questions", "result", "stopped"} # {}

(* Every workflow run ends: none of its group waits for ever, as long as    *)
(* newcomers do not take its place.                                         *)
RequestsEnd == \A w \in Run : state[w] = "queued" ~> state[w] \in {"done", "cancelled"}

(* "a queue would drop waiting requests" (agent.yml:61), so there is to be  *)
(* none, and "other comments start nothing" (agent.yml:69): a valid answer  *)
(* is not cancelled.                                                        *)
AnswersAreNotDropped ==
  \A w \in Run :
    state[w] = "cancelled" => ~(event[w].kind = "issue_comment" /\ event[w].agent
                                /\ event[w].answers /\ Accepts(event[w]))
=============================================================================
