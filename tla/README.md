# A verification of the agentic SDLC pipeline

The program under `src/src/agentic_sdlc` turns a requirement into a project: it analyses the
requirement, plans a task graph, runs agents over it (design, code, tests, docs, validation,
summary), repairs what it can and accepts the result or not. This directory holds TLA+
modules that model it, the workflow that runs it for a team, and two services it built that
the repository keeps; TLC configurations that check them; and proofs of what holds for every
plan, configuration, provider and request. Run from here:

    tlasany Orchestrator.tla
    tlc -workers 2 -config MC_Runs.cfg MC_Runs
    tlapm Orchestrator_proofs.tla

## The system

| Part | State it keeps | Operations | Hard behaviour |
| --- | --- | --- | --- |
| Orchestrator (`orchestrator/orchestrator.py`) | phase of the run, level in progress, attempt numbers, fault budget | bootstrap, ask, plan, execute level by level (a thread per task), repair loop, accept | threads of a level, retries, degrading and halting, bounded repair |
| Blackboard (`orchestrator/state.py`) | design, code / tests / docs, report and the fingerprint it was computed on, event log | merge, log, fingerprint | shared by all threads; only merge and log are locked |
| Agents (`agents/*.py`) | a run lock per agent; everything else is on the blackboard | perceive, decide, act | tasks of one category in one level; an act that raises half-way and is retried |
| Validator, repair agent, summary writer | the published report; the summary artifact | validate, add contract / README, rewrite the summary | reports that are stale, files read while others write them |
| Providers (`llm/deterministic.py`, `llm/llm_provider.py`) | the project bundle authored once and its lock, the records of calls, fallbacks and cost | analyze, decompose, design, generate, propose a change, fall back | retries, a budget and a bundle shared by threads, plans a model wrote |
| Model client (`llm/client.py`) | the parameters of a request | choose a client, complete | renegotiating rejected parameters, with a restart at a smaller ceiling; streamed requests |
| Tools (`tools/*.py`) | the output folder | write, compile, run tests, scan, overlay | failing writes, missing files |
| Gates (`hitl/approval.py`) | none | review | an operator who rejects, or is not there |
| Command line (`cli.py`) | a run folder | run, ask first, exit code | what a stopped or failed run leaves behind |
| GitHub pipeline (`.github/workflows/agent.yml`, `scripts/*.py`) | jobs and outputs of a workflow run, the published record, branch, pull request, comments | request, answer, approve, run, report, accept | queued and dropped runs, reviews, re-runs, steps that fail half-way |
| Demo service (`demo/url_shortener`) | links, an index by URL, clicks, an id sequence; in dictionaries or in SQLite | shorten, redirect, stats | expiry, aliases that are also codes, restarts |
| Inventory service (`examples/llm-run-inventory`) | stock, its history, alerts, idempotency keys; one SQLite connection | create, add, adjust, thresholds, resolve, read | a thread per request on one connection, retries, half-done transactions, crashes |
| Rate limiter (`examples/llm-run-brownfield`) | rules, a window of times per rule and client, counters | check, change a rule, metrics | three locks and a clock read under none, rules changed in between |

The orchestrator calls agents; agents call the provider and the tools and communicate only
through the blackboard; the report flows back into the repair loop and the last gate. The
workflow starts the command line in one job, hands its record on as an uploaded artifact, and
acts on exit code, record and listed files in others. The two example services stand for what
an accepted run delivers: one as a project, one as a change set to the demo service.

What makes each part correct, and where it could go wrong, is listed line by line in
`PROJECT.json` (`hazards`), with the property that covers it or the reason none does yet.

## Modules

| Module | Models | How |
| --- | --- | --- |
| `Artifacts` | files on the blackboard and on disk, `merge`, the validator's checks, `only_changes` | a folder is a function from file to text, a text is a number, 0 = absent; what can be told about a Python text (does not compile, unsafe, fails its suite, is a suite without tests) is a set of texts each; what a write that breaks off may leave is another |
| `PlanGraph` | task graphs: ancestors, cycles, the linking rule, the deterministic provider's plan | operators over a task set and a dependency function; ancestors and acyclicity by their meaning (no recursion), so that they can be proved about |
| `PlanInvariants` | `LLMProvider.decompose` with `_enforce_plan_invariants` | one action per linked task, in any order inside a round |
| `Orchestrator` | one run: main thread, a thread per task, every agent, the blackboard, the disk | one action per step a thread takes between two points at which another thread can interfere |
| `LlmProvider` | `LLMProvider`: every stage's call, from the budget check to the fallback, and the bundle | one action per step of a task's thread at which another may interfere |
| `StageAnswers` | what a provider promises its callers | abstract: who answered each call, who authors the project; `LlmProvider` implements it |
| `ClientNegotiation` | both clients' `complete`, with `_call` and `_call_with_ceiling`, against any API | one action per request, adaptation, reply or exception; the API and its SDK are external |
| `Pipeline` | `agent.yml` with the scripts and the command line it calls | one action per job and outcome, events, queue, reviews, re-runs; GitHub is external |
| `Shortener` | `ShortenerService` over both stores, behind the WSGI routes | one action per request, as the server handles them one after the other; clock, restart |
| `LinkMap` | what a URL shortener promises | abstract: a growing map from codes to URLs; `Shortener` implements it |
| `Inventory` | the inventory service's HTTP handlers, service and database | one action per section under the service's lock; crash |
| `RateLimit` | `RateLimiter`, its store and metrics, and the routes that use it | one action per lock and one for the clock |
| `MC_*` | instances for TLC | see the runs |
| `*_proofs` | theorems about the module they are named after | see the proofs |

### Orchestrator: state and steps

`phase` follows `run`: `bootstrap` (analysis and clarification gate), `clarify`
(`_ask_if_blocked`), `plan` (`_plan`), `execute` (`_execute`), `repair` (the test of
`_repair_loop`), `mend` (one round of it), `accept` (`_accept`), `ended`. `outcome` is
"exhausted" when a required task gave up, "asking" when the requester is asked first.
`request` is what the run was started with and does not change: the options that differ
between runs (parallel, ask-first, interactive, injected faults), whether a repository is to
be changed, the plan and the project the provider will answer with, and how many file writes
will fail. `Requests` are the combinations an instance looks at.

`job` is the graph being walked. A repair round is modelled as a chain of three tasks
`repair -> revalidate -> resummary`, which is the order `_repair_loop` runs them in, so one
walk serves both. `EnterLevel` takes the next level of `topological_levels`: the tasks whose
dependencies all lie in earlier levels. If `parallel` is on and the level has several tasks,
all their threads start; otherwise `RunNext` starts them one at a time in the order
(priority, id). `HaltLevel` waits for the siblings of a failed task, as the futures' loop does.

`pc[t]` is where a task's thread is: `attempt` (fault injection; check and decrement are one
step because of `_fault_lock`), `enter` (the agent's run lock, perceive, decide), `act`, then
the steps inside an act: `write` after artifacts were put on the blackboard, `publish` after
the validator looked at the files, `assign` and `merge` in the summary writer, and `raised`
for the handler in `_run_task`. The lock is held in exactly the states `Inside`; it is one per
agent, so per category.

Steps inside an act are separated where the code leaves state visible in between: merge then
write (`generators.py`, `repair.py`); examine then publish together with the fingerprint of
that later moment (`validator.py`); filter `bb.docs` then assign it back (`summary.py`). The
last one needs a thread switch inside one statement: `pyproject.toml` asks for Python 3.10 or
later, and 3.10 may switch threads when the comprehension's call returns. Examining the files
is one step: code and tests do not change while a validation runs on any plan `PlanInvariants`
accepts except the sequenced ones, and documents are looked at once.

Abstractions: texts are numbers; the text the repair agent synthesizes is one opaque number,
the summary is identified by the number of reports before it, so "the summary is current" is
expressible; the event log is kept only where an agent reads it back (`changeLogged`); the
impact list, risks, monitoring, metrics and `_persist` are left out because nothing in the run
reads them. A category without an agent ("generic") is skipped by `_run_task`, but no plan a
provider returns has one. Bundles with defects stand for providers without a sandbox, and for
suites that pass in one place and fail in another.

A failing write may do more than leave its file alone: `ArtifactStore.write` uses `write_text`,
which opens the file and empties it first (`filesystem.py:32`). `Torn` says what can be left: the
old file, or any text of `Cuts`, the empty one among them, which then is there and readable.
`Idle` are the suites without a test; whether running one passes is a constant (`IdlePasses`):
unittest does before Python 3.12, and `pyproject.toml` asks for 3.10 or later.

`request.writeErrors` bounds the failing writes of a run, `request.faults` is `inject_fault`;
rounds and attempts are bounded by the program itself.

### PlanInvariants: state and steps

`raw` is the plan the model wrote (dependencies may name nothing that exists), `dep` the
dependencies as linked so far. `Screen` rejects unknown categories and missing stages,
`NextRound` and `LinkTask` are the four calls of `link`, `Validate` is `validate_acyclic`.
A rejected plan is replaced by the deterministic one. The code links in the order the model
listed the tasks; the model allows any order, which covers all lists. The inner loop over the
upstream tasks is one step: a link of `d` changes what is upstream of tasks below `d` only,
and those are skipped by the test itself.

### LlmProvider: state and steps

A call to the provider is made by a task's thread, so the per-call state is per task: `pc` (`idle`,
`waiting` for the bundle's lock, `ask` before the budget check, `calling` the model, `reply`,
`sandbox`, `failed`, `serve`, `answered`), the attempt at the current question, the repair pass,
the last draft, and who answered. `StageOf` says which stage a task asks; a model's plan may have
several tasks of one stage. `Call` starts a call and may repeat it up to `MaxAgain` times, which
are the orchestrator's retries. `MayCall` is what the agents let through: an agent's run lock
(`base.py:42`) makes its looking at the blackboard and its call one, so calls of one stage exclude
each other (`AgentIsFree`) and see each other's results; what was answered is not asked again,
unless code was asked for and there was none, or a change's files may not have been written
(`MayLackResult`).

`_budget_check` is a step of its own (`CheckBudget`) and the call's record a later one, since the
code holds nothing over both; that nobody else asks in between is not assumed but proved. Three
numbers stand for the list of records: model calls (`requests`), fallback and repair notes
(`events`), and cost; the code counts all records. `EnsureBundle` takes `_bundle_lock` and authors
the project or finds that this was done; the lock is then held through drafting, sandbox, repair
pass and fallback, as in the code. `StartRun` is `analyze_requirement` of the next run. A draft is
the set of parts it has and the sandbox's verdict on it; the sandbox may also raise
(`SandboxFails`), which ends in the fallback without a repair pass. Prompts, parsing, backoff and
console events are left out: a reply parses or not, has a good shape or not, is cut at the ceiling
or not, by choice.

Bounds: `MaxRuns` runs on one provider (two: what one leaves behind meets the next), two
attempts, one repeated call, a task for each stage and a second design; `MaxCalls` and `MaxCost`
are the program's own limits, six calls and a cost of three, so low that the breaker trips in
every stage.

### ClientNegotiation: state and steps

`client` is what `detect_backend` finds. `ceiling` is the argument `_call_with_ceiling` starts
over with, `name` and `heated` are the parameters of the current request as `_call` has changed
them. The API is chosen at the start: its limit, its name for the ceiling, the name its
rejections use, whether it takes a temperature; of several objections it reports any. A
repeated `Rename` is impossible because the code only renames what is still called
`max_tokens`. The Claude client streams above `StreamAbove`; whether the SDK sends the request
when `messages.stream` is called or when the stream is entered is the SDK's choice (`lazy`). In
the second case objections end in the caller (`Outside`). `ReadOpenAI` and `ReadAnthropic` are
the ends of the two `complete` methods. Ceilings are the program's, among them the default of
4096 that is never streamed; limits lie at, between and below them.

### Pipeline: state and steps

`event[w]` is what triggers workflow run `w`: an issue, a comment or the dispatch form, with the
facts `resolve` decides on. `Arrive` and `Start` are GitHub's concurrency group, keyed by the
issue: one active run, one waiting, and a newcomer takes the place of the one that waits.
`job[w]` has a result for each of the five jobs; `Wanted` is their `if:` conditions, `Needs`
their `needs:`, `Ready` both. A job is one action (jobs of one run read only outputs of jobs
they need, and `report` and `accept` share nothing they write) that picks how far its steps
got: the agent run ends with any record `Records` offers, or stops without one; `Report`
downloads, renders, posts; `Accept` applies, commits, pushes, opens the pull request, comments.
`Reject` is an environment's reviewer. `Finish` is GitHub's end of a run, `Rerun` someone who
starts the failed jobs, or all, again.

A run id is the position in `made` of the agent run it names: run folders have unique names.
`uploaded[w]` is the run whose record the artifact of `w` holds; a re-run overwrites it. A record
says how the agent run ended, whether it asked, who did the model's stages, and two sets of
files: those `result.json` lists and those found in the folder, which code run during
validation may have added to. Files are reduced to their line endings, which is what
`apply_change.py` changes about them. `disturbed` only records, for the properties, which runs
had a call that failed or a job re-run. `MaxHiccups` bounds the calls to GitHub that fail,
`MaxReruns` the re-runs; one of each meets every step of every job, and one re-run is enough for
two agent runs of one workflow run.

### Inventory: state and steps

The service takes one lock for each of its methods and shares one connection between the
threads of `ThreadingHTTPServer`, so a method is a step; `h_adjust_stock` with a key is three:
`Lookup`, `AdjustStock`, `StoreResponse`. The tables' variables are what the connection sees,
`disk` is what was last committed; `Commit` writes all of it, as there is one transaction at a
time whoever opened it. `Move` is what `add_stock` and `adjust_stock` share. A request whose
actor or reason is not a scalar (`storable`) raises at the history's insert, after the update
and before the commit. `Crash` goes back to `disk`. Integers beyond what SQLite stores raise
(`MaxInt`). `torn`, `raced`, `touched` and `moves` only record, for the properties, which items a
failed request half wrote, for which keys a lookup came between another's lookup and its store or
the process died there, where a threshold or alert was set by hand, and how often each key moved
stock; `moves` is committed and lost with the tables.

### RateLimit: state and steps

`check` takes the rules' lock (`GetRule`), reads the clock under no lock (`ReadClock`), takes the
store's lock (`Hit`) and the metrics' lock (`Record`); each is a step of a request's thread.
`UpdateRule` is the admin route, guarded by the limiter itself, and changes rules under the others'
feet. `admitted` and `ever` record, for the properties, every time put into a window and every rule
ever in force. Time is in ticks, `Second` of them a second, as what a refused client is told is
rounded: `Retry-After` is the time to the reset in whole seconds, a half to the even one, by the
clock when the answer is written (`SecondsUntil`; `api.py:104`). The clock is assumed not to go
back, which `time.time` does not promise. Limits are sent in halves, as the admin route cuts
fractions off.

### Shortener: state and steps

A request is one step: `WSGIServer` handles requests one after the other. `reply` is the status
and whether the request was well formed: what is not ends in a 400 or, where nothing looks at it
(a lifetime that is no number, a body that is no object), in the defensive handler's 500
(`RefuseInput`). `durable` says which
store is used and never changes. `byUrl` is the dictionary store's index; for the database,
which has none, it is kept beside it for comparison only, so that `BackendsAgree` can say
that both find the same link. The database hands out ids by an insert of its own, so `Restart`
may lose one; the dictionaries lose everything. Two links of one second are possible; `Oldest`
then has several links and the query returns any. base62 is an injective function (`AutoCode`);
aliases may be in its range. The rate limiter and the analytics report are not modelled, and
clicks are only counted. `MaxIds`, `MaxTime` and `MaxClicks` bound ids, clock and clicks: two
instants for an expiry between requests, three ids so that one can collide and one can be lost.

## What TLC checks

| Run | Instance | Properties |
| --- | --- | --- |
| `runs` | deterministic plans with and without the impact task; 16 projects (sound, failing, uncompilable or unsafe code, with and without contract and README), two designs (one with an API). Unattended with a fault in any two stages or a lasting one in an optional stage; unattended with two failing writes, each of which may leave the old file, an empty one or one that fails its tests; sequential with a person at the gates, a fault and two failing writes; eight change sets (none, identical, sound, failing, uncompilable, unsafe, tests only, docs only) against a repository without README, with faults | an autonomous run is only accepted with a passing report; accepted artifacts would pass again; the summary is the last report's; the board is on disk unless a write fails, and then passing code and tests are, as written or cut off; uncompiled code comes to no gate; repairable findings never turn a run down; no file is lost |
| `model_plans` | the plans over up to seven tasks `PlanInvariants` accepts, among them two designs in a level, tests beside the code, docs beside or after validation and summary; without faults, or one in design and in code | dependencies settle first; nothing runs outside levels; one design; termination; a plan that orders design, code and tests never exhausts a task |
| `plan_invariants` | some 10 000 raw plans of six tasks: missing stages, unknown categories, dangling names, back edges, cycles | no new cycle; fixpoint; validation ordered against all other work |
| `llm_provider` | two runs of either kind, a task per stage and a second design, four kinds of draft (sound, failing, without code, without files), six calls or a cost of three | no call beyond the limit, the cost passes its limit by less than one call; what is served passed the sandbox in this run; fallbacks are recorded; `StageAnswers` is implemented; every call is answered |
| `negotiation` | either client, four ceilings, seven limits, both names, with and without temperature, streamed requests sent at once or late | the largest ceiling is granted; what the adapting call sends is not turned down over a parameter, but for a ceiling when no smaller one is allowed or the objection does not say `max_tokens`; it ends |
| `shortener` | two URLs, two aliases (one is the second id's code), lifetimes of one or none, either store | `LinkMap` is implemented; both stores find the same link; only an alias can make a well-formed request meet a server error |
| `pipeline` | three workflow runs: an issue with an answer and a stray comment, with an unusable answer, the form beside an issue; ten kinds of record; one re-run, one failed call to GitHub | a pull request is an accepted run's that passed, by the model; a branch holds what its run listed, in the target's line endings; a proposal stays as it is; comments are true when written, and a run without a failed call or a re-run tells its issue exactly the outcome, unless its record has no validation; a run that waits ends or is replaced |
| `inventory` | three requests out of 23 kinds on two items, a new or a filled catalogue, one crash | the history accounts for the stock of items no failed request half wrote; alerts follow the threshold; a key leaves one row and one answer, and moves stock once if its requests can be stored, unless retries overlap or the process dies in between; acknowledged movements are on disk |
| `rate_limit` | three requests of two clients, one of them also behind a trusted proxy, under limits of one and two; rules raised, lowered, shortened and widened; two ticks to the second | no window holds more than the limit; a refused client finds room half a second after the rounded time it was told; admissions and refusals are each counted once |

Two attempts and one repair round are the program's defaults; three of either add no
new kind of step, since retry and round only compare a counter with its bound. Two design
tasks are enough for the lock (it is pairwise), two faults for a failure before and after any
other.

Three threads are enough for the services: every race in them is between two requests, with a
third one to change a rule, commit another's transaction or retry. Three workflow runs are
enough for the group: one active, one waiting, one that takes its place.

Three runs show a disagreement between the code and what is written about it; each checks the
written sentence and TLC finds it violated (`findings` in `PROJECT.json` quotes the sentences):

- `not_on_disk`: artifacts are recorded before they are written; when a write fails the retry
  reuses the record and the run is accepted with a missing document. Of code and tests the
  validator notices that a file is missing (`PassingCodeIsOnDisk` in `runs`), not that it was cut.
- `docs_lost`: a docs task and a summary task in one level both write `bb.docs`; the files of
  the former can vanish.
- `dropped_answer`: a valid answer that waits behind a run of its issue is cancelled by the
  issue's next event, which may be a comment that starts nothing.

Nine more configurations are kept beside these runs for whoever mends what they show. Each names
one sentence of the repository as its property, and TLC stops at a state or step that violates it:

| Configuration | Module, property | The sentence, and what happens |
| --- | --- | --- |
| `V_EmptySuite` | `MC_Runs`, `GeneratedSuitePassed` | the validator "executes the generated test suite" (`validator.py:3`): a write of the tests that breaks off leaves an empty suite, which the retry takes for written and which passes, before Python 3.12 |
| `V_UnsafePlan` | `MC_ModelPlans`, `SafePlansComplete` | the linking makes a plan "safe to execute" (`llm_provider.py:154`): one without a design before its code, or with tests beside the code, is accepted and halts on the agents' assertions; `OrderedPlansComplete` says which do not |
| `V_UnseenWork` | `MC_ModelPlans`, `AcceptedWorkPasses` | "validation depends on the work it reports on" (`ARCHITECTURE.md:79`): work the model placed after the validation is not linked before it (`llm_provider.py:183`), and a run whose suite fails is accepted with a passing report |
| `V_CeilingFails` | `MC_ClientNegotiation`, `CeilingsNeverFail` | a ceiling is "never a reason for a stage to fail" (`client.py:82`): with an SDK that sends a streamed request late, one above 8192 that the model does not allow is never adapted on Claude (`client.py:368`) |
| `V_DuplicateSlugs` | `MC_Shortener`, `NoDuplicateSlugs` | "we never mint duplicate slugs for the same destination" (`service.py:57`): either store finds only the oldest link of a URL; once that has expired every further request mints a code beside a valid one |
| `V_RetriedTwice` | `MC_Inventory`, `KeysMoveStockOnce` | "safe client retries" (the example's `README.md:21`): two requests with one key that overlap are both applied, and so is, when retried, one that failed between its update and its history row |
| `V_UnexplainedStock` | `MC_Inventory`, `AuditTrailIsComplete` | "every stock adjustment" (the example's `README.md:20`): an update whose history row raised stays in the shared transaction and is committed by the next request |
| `V_PullRequestDenied` | `MC_Pipeline`, `NoPullRequestIsTrue` | "No pull request will be opened for this run" (`agent.yml:346`): posted about one that was opened, when the comment after the opening failed; a re-run may also open one later |
| `V_ResultNotPosted` | `MC_Pipeline`, `ResultIsPosted` | "the result is posted here" (`agent.yml:119`): `report` raises on a record without validation (`pipeline_request.py:182`), so a run that halted early posts nothing |

Seen on the way and not checked by a run of its own:

- Validation: the engineering summary counts as documentation (`validator.py:109`), so a
  validation repeated after a summary accepts a run without README.
- Provider: a bundle with a suite but no code passes the sandbox and is kept
  (`llm_provider.py:444`); the code stage is then given nothing on every attempt, although "a
  run always completes". The budget counts fallback and repair notes as calls
  (`llm_provider.py:250`) and so refuses early.
- Demo service: a collision with an alias is answered by 500, and so are a lifetime that is no
  number, a body that is no object, and an alias or URL that is no string; `openapi.yaml` lists
  no 500.
- Pipeline: a run that asked, but whose analysis fell back, fails its job and still posts its
  questions. Files of mixed line endings become CRLF.
- Inventory: thresholds are set without a look at the alerts (`touched`; the example's
  `README.md:18`).
- Rate limiter: `Retry-After` is rounded, so it may be up to half a second short and even 0
  (`api.py:105`); after a limit was lowered it may be too short by more, which
  `RetryAfterIsEnough` leaves out. A limit of 0.5 is accepted and cut to 0 (`api.py:146`), after
  which the rule refuses everyone, for the admin rule also the request that could restore it.

### Fairness

`Termination` assumes weak fairness of the main thread and of each task's thread. The
operating system schedules every runnable thread; every call a thread makes comes back:
subprocesses and model calls have timeouts, and the agents' locks are held over such calls
only. No fairness is assumed of faults, failing writes or a human's answers; they are choices
inside steps. `EveryCallAnswered` assumes weak fairness of each task's steps inside the
provider, for the same reasons; that weak fairness suffices for the bundle's lock is because
whoever waits finds it free for good once the bundle is decided. `RequestsEnd` assumes weak
fairness of each workflow run's steps: GitHub schedules jobs, a job has a time limit, and a
review nobody decides expires after thirty days, which rejects it; nobody has to send events or
to re-run anything. `NegotiationEnds` assumes that
the client goes on, as sequential code does. The provider's runs, workflow runs and requests to
a service end, or need not come, so their deadlock check is off; the services are checked
without fairness, since every property of theirs is a safety property.

## What is proved

For every value of the constants under the named assumptions (`TasksAssumption`,
`RequestsAssumption`: plans are acyclic, closed, and have a validate task; `ConfigAssumption`,
`ProviderAssumption`: types; `RawPlansAssumption`: plans may name anything; `LimitsAssumption`
and the provider's `TasksAssumption`: a plan has one analysis and one decomposition;
`CodesAssumption`: ids are encoded injectively; `RecordsAssumption`: a run that asks has
validated nothing; `RequestsAssumption` and `CatalogsAssumption` of the inventory: no two products
share a sku, and only an adjustment's key is looked at (`api.py:151`); `TrafficAssumption` of the
limiter: finitely many threads and addresses; `CeilingsAssumption`: ceilings are positive, the
fallbacks finitely many). TLC evaluates the assumptions in every run.

- `TypeCorrect` (each component with a proof module but the client, whose types are part of its
  invariant).
- `WalkHolds` is the invariant behind the walk. It says who may be running (only tasks of the
  level in progress), that everything of the job outside the level has settled or not begun,
  that what a level's tasks depend on has settled, and that the plan's tasks have all settled
  from the repair loop on. The last part is where acyclicity is used (`WalkComplete`): the
  tasks not yet started have one that depends on none of them, so while any is left there is
  a next level. `DependenciesAlwaysSettled`, `AlwaysQuietOutsideLevels` and
  `SequentialIsOneAtATime` are parts of it.
- `ReportHolds`: a validate task settles only by success (it is not optional), success means a
  report was published or one existed, and the plan has a validate task; so the last gate is
  reached with a report, and `FailingIsNeverAccepted` follows for automatic gates. Without the
  walk's invariant it would not be inductive: `_accept` itself lets a run without a report pass.
- `UncompiledIsNeverReviewed`, of every plan: a report of uncompilable code leaves no fingerprint,
  so while it stands the validate task that wrote it, or another, is still at it or was given up,
  and no gate is reached (`CompileInv`). Were the fingerprint kept, the retry would reuse it.
- `LockHolds`: tasks of a category exclude each other inside their agent, and a design task
  inside it has seen no design. `DesignIsCommittedOnce` follows.
- Plans that work in order. What a run leaves behind depends on the shape of its plan, and the
  properties of `runs` about it do not hold of every plan (`docs_lost`). The hypothesis that
  makes them theorems is `Sequenced`: validation follows design, code, tests, documents and
  analysis, summaries follow everything, and there is a code and a summary task. Both plans of
  the deterministic provider are (`BuiltInPlansAreSequenced`), as is every plan the linking
  leaves alone in which the model placed nothing but summaries behind validation or summary
  (`NormalizedIsSequenced`). Six theorems rest on it, for any faults, failing writes, scheduling
  and approver, and but for the last any provider:
  - `NothingIsEverLost`: only the summary writer assigns `bb.docs`, and in a sequenced plan
    nobody writes documents meanwhile. The invariant (`WriteInv`) says which files each stage
    owns, that a thread about to write still has on the board what it is due to write, and that
    what the summary writer kept is the board's.
  - `AcceptedReachesTheDisk`: while no write has failed, board and folder differ only in texts
    some thread is about to write (`DiskInv`); an accepted run has no such thread.
  - `AcceptedWorkStillPasses`, `PassingCodeReachesTheDisk`: what a report does not list is true
    when it is written and from then on (`TruthInv`): the work has settled by then, so what
    comes after, the repair agent and the summaries, only adds files. A file of code or tests in
    the folder is missing, cut off or as recorded (`WriteInv`); a report that could read it rules
    out the first. Documentation is the exception, gone while a summary is rewritten, and is there
    again when the run ends.
  - `SummaryIsAlwaysCurrent`: after the last report a summary task has succeeded or is between
    taking the old summary off and merging the new (`SummaryInv`), and the gate is reached
    with every task of the plan and of the last round settled (`EndInv`).
  - `RepairableIsRepaired` (one round allowed, and a provider that authors no summary): a round
    whose repair succeeds leaves nothing repairable in the next report (`MendInv`). The subtle
    part is that the validator reuses its report when it has seen the same board before; a
    repaired one it has not, as no board it has validated holds the summary that was written
    after (`SnapInv`).
- `OrderedPlansAlwaysComplete` needs less: no work runs beside validation (`Ordered`), which is
  so of every plan the orchestrator accepts (`NormalizedIsOrdered`). In a benign run only an
  injected fault makes a required task raise. Each costs one of the category's faults, of which
  there are fewer than attempts; `BenignInv` keeps this account over the threads of a level.
- `LinkingIsAcyclic`: tasks linked to `d`, with all they depend on, form a closed set without
  `d` (`LinkKeepsAcyclic`); a set of tasks that meets it has its source there, one that does
  not sees no new link. `AcceptedPlanIsNormalized`: links only shrink what remains to be
  linked (`ToLinkShrinks`), so a round's work survives the later ones.
  `ValidationIsAlwaysOrdered` completes it.
- `BreakerBound`: at most one task is between its check of the budget and its record (`OneTalks`),
  so the check that let it through still saw the limit unreached (`BudgetInv`). Stages follow one
  another, calls of a stage exclude each other (`AloneInv`, from the agents' locks), and of code,
  tests and docs only the bundle's holder talks to the model (`LockInv`). Without the agents' locks
  two designs of one level would both pass the check with one call left.
- `ServedWasTried`: `LockInv` (whoever talks to the model for a part holds the lock, alone),
  `BundleInv` (while the lock is held nothing is decided) and `TriedInv` (what is in the sandbox
  has a suite) make the bundle's only assignment one of a tried draft of this run.
- `KeepsThePromise`: `LlmProvider` implements `StageAnswers`, where the author is the model if
  there is a bundle, the engine if it was given up, and open otherwise; deciding it and
  answering are different steps. `ProjectsHaveOneAuthor`, that parts of one project never have
  two authors, follows for the provider from the refinement.
- `RecordHolds`: the only step that answers with the engine in the model's place, or gives the
  bundle up, is the one that records it.
- `CodesKeepTheirUrl`: `Shortener` implements `LinkMap`; `StoresAgree`: the index has one entry for
  each URL that has links, of one of its oldest (`IndexInv`), which is what the query finds;
  `CollidesOnAliases`: every code in use is an alias or an earlier id's, and ids are encoded
  injectively, so a well-formed request only fails on an alias. `CodesHaveOneTarget` follows from
  the refinement alone.
- `GrantsTheLargest`, `KnobsNeverFail`: whatever fallback was passed over is more than the model
  allows (`PassedOver`). Only `Shrink` lowers the ceiling, after a rejection that is about it
  (`Refused`), to the largest smaller fallback (`NextCeilingIsNext`), so nothing in between is
  skipped. A rejected request that is given up has no smaller fallback left (`Exhausted`). Requests
  sent late, by the stream, are outside the adaptation and outside the theorem (`V_CeilingFails`).
- `OnlyAcceptedIsProposed`: a pull request's run id is out of a workflow run whose job
  succeeded; success is only given with `Reviewable`, and the outputs of a re-run start over
  together with the job. `BranchesAreFaithful`: the only content pushed is `Content` of the record
  the id names. `ProposalsStay`: whatever is pushed with force goes to the id's own branch, and
  its content is a function of the record, so pushing it again changes nothing; the invariant
  behind it (`Invariance`) says that an id belongs to the workflow run that made it, whatever
  has been re-run.
- `HistoryExplains`, `AlertsFollow`, `AnswersStay`: one invariant about the tables, which also
  holds of `disk` with the same exceptions, so that a crash preserves it; `Commit` carries it
  over and every other step leaves `disk` alone. Versions only grow, so an answer's version
  stays below the one on disk.
- `RetriesAreSafe`: `RetryInv` says, for every key without the race `raced` records, that at most
  one request is between lookup and store, that the history has at most one row under the
  key, and that whoever was answered with success was given the stored response. A crash keeps
  it, as the history in use is the committed one: an adjustment commits with its history row.
  What the key moved is committed too, and once, as long as every request under it can be stored
  (`Clean`); one that cannot updates, raises, and updates again when retried (`V_RetriedTwice`).
- `OutcomeIsTold`: what an issue has heard of a run is at any moment the sum of what its
  finished jobs say (`SaidSoFar`). The jobs finish in the order of their `needs` and end as
  the run's record makes them (`JobsInOrder`, `Outcome`), so that when the run is over the sum is
  the outcome. That is of runs none of whose calls failed and nothing of which was re-run, whatever
  happened to the others. `WhatIsToldIsTrue` is of all runs: each comment fits the agent run it is
  about (`NewsIsTrue`), and what it says of that run does not change (`MadeStays`).
- `BudgetHolds`: clocks are read under no lock, so times enter a bucket out of order and the
  pruning from its head may leave expired ones behind it, and a changed rule prunes by another
  window. What holds is that a bucket is the tail of the admitted times, no longer than some limit
  once in force, and that whatever was dropped was out of some window once in force (`WindowInv`);
  a span shorter than all of these therefore lies in the bucket. `RetryAfterSuffices` counts what
  a refused client's wait lets expire; rounding takes away at most the half second it adds
  (`Rounding`). `MetricsAlwaysAddUp` is a count of threads, of those about to count an admission
  and of those answered 429 (`CountInv`).

With these, every invariant and every action property of the passing runs is stated by a
theorem. Only model-checked is liveness: `Termination`, `EveryCallAnswered`, `NegotiationEnds`,
`RequestsEnd`. The prover has no rules for fairness or ENABLED, and none for the induction on the
tasks that are left, the requests or the jobs that these need.

What the attempts at proofs showed about the model: a limiter may be configured with a negative
limit, which is room for nobody (`Room`); a request that carries a key but is no adjustment is
applied whenever it comes, as only `h_adjust_stock` reads the header; in change mode it is the
proposals, not the bundle, whose files must compile for a benign run to complete.

## Plan

Done: the run (`Orchestrator`), the plans (`PlanInvariants`), the provider (`LlmProvider`), the
clients (`ClientNegotiation`), the workflow (`Pipeline`), the demo service (`Shortener`) and the
two accepted services (`Inventory`, `RateLimit`). What would come next, in this order:

1. `TaskGraph`: Kahn's algorithm in `validate_acyclic` and `topological_levels` as steps over
   lists (duplicate ids and dependencies included), shown to decide `Acyclic` and to build
   the levels `Ready` describes.
2. `RunLifecycle`: an abstract run (ask, plan, work, decide) that `Orchestrator` implements and
   whose records are those `Pipeline` takes as an input (`Records`).
3. The provider under the orchestrator: which tasks of a level call it together follows from
   the plan, here it is a constant.
4. Proofs: with `TaskGraph`, that the levels it builds are those `Ready` describes; with
   `RunLifecycle`, that `Orchestrator` implements it. The safety properties checked so far are
   proved.

Not modelled: the other two example runs (an earlier shortener, and a card number check with an
audit log), whose shared connection and sliding window are of the kinds above; `verify_change.py`
and `snapshot_run.py`, which no job runs; the demo service's analytics; argument parsing, prompts,
the knowledge packs' templates, the AST rules of the safety scan, diff and Markdown rendering, the
evaluation scripts: sequential text processing whose results the models take as inputs.
