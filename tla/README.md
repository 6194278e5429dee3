# easy-manim in TLA+

easy-manim turns a prompt into a video. A request becomes a *root task*; a
worker plans a scene, lets a language model write a Manim script, checks it,
renders it, judges the video, and repairs what fails. Revisions, repairs and
*challengers* (alternative versions) are further tasks of the same *lineage*,
and the row of the root says which of them is the answer. Everything is kept in
one SQLite file that API processes, MCP servers and any number of workers share.

What is hard about it is not a stage of the pipeline but what lies between the
stages: each method of the store is a transaction of its own, `update_task`
writes a whole row from an object read earlier, each worker process is also a
watchdog over all requests, and any of them may die or be late. The models here
are about that.

The paths below are relative to the repository; the package is
`src/video_agent/`.

## The system

| Component | State | Operations | What is hard | What makes it correct |
|---|---|---|---|---|
| Task queue and worker loop (`adapters/storage/sqlite_store.py`, `worker/`) | `video_tasks`, `task_leases` | create, branch, cancel, requeue, claim, renew, run, release, startup | leases that expire, stale write-backs, shared `worker_id`, admission in two transactions | one worker per task, every queued task ends, outcomes are final |
| Workflow engine (`application/workflow_engine.py` and the services it calls) | rows of a lineage, validation reports, artifacts | run, fail, repair, degrade, emergency delivery, synchronise the root, challenge, promote | whole-row writes from old copies, exceptions after a completion, budgets counted before they are used | every request is settled, a delivered root has a video, bounded repairs, no challenger without acceptance |
| Case reliability watchdog (`application/case_reliability_service.py`) | none of its own | sweep of every root at startup and before every claim | runs in every process, beside engines that are in the middle of the same decision | takes up what a dead process left, and nothing else |
| Branch arbitration (`application/branch_arbitration.py`, `workflow_quality_escalation.py`) | scores | judge, promote, keep | judgement and acceptance are separate transactions | evidence, ties, no worse version |
| Delivery case (`application/delivery_case_service.py`) | `delivery_cases`, `agent_runs` | synchronise, open and close the run of each role | written from rows read earlier, by everybody | catches up with the rows; nobody is shown at work when nothing runs |
| Stages of a run (`workflow_engine.py`, `failure_contract.py`, `recovery_policy_service.py`, `validation/`) | files of the task's directory, `agent_runs` | plan, gate, generate, check, render, validate, judge, fail | a crash between two stages and a second attempt in the same directory; tables of issue codes in several files | a delivery rests on the evidence of one attempt; what is repaired is what the contract says |
| Strategy promotion (`sqlite_strategy_store.py`, `eval_service.py`) | run manifests, `strategy_profiles` | run a suite, resume it, record, activate, roll back | reads before the transaction that writes | no case counted twice, one active profile per scope |
| Profile suggestions (`sqlite_agent_profile_store.py`) | profiles, revisions, suggestions | suggest, apply, dismiss, patch | concurrent handlers, an administrator's rewrite | settled once, one content per version |
| Agent sessions (`agent_session_service.py`, `server/session_auth.py`) | `agent_tokens`, `agent_sessions`, principals | open, resolve, touch, revoke, disable | revocation beside use | what was barred before a request stays out |
| Gateway sessions (`openclaw/gateway_sessions.py`) | records by route | resolve | daily and idle boundaries | cut exactly at the resets |
| Session memory (`session_memory_service.py`, `server/session_memory.py`) | `session_memory_snapshots`, a copy in each process | record, clear, list | copies, threads | nothing is forgotten when a process takes over |
| Persistent memory (`persistent_memory_service.py`) | `agent_memories`, a remote index | promote, disable, query, hand to tasks | two stores, inheritance | disabled memories stay out |
| Video threads (`video_thread_service.py` and its neighbours) | threads, iterations, results, turns, participants, runs | create, revise, select, explain, bind | rows changed one by one | lineage agrees; the surface announces what the service does |
| Review and collaboration (`multi_agent_workflow_service.py`, `workflow_collaboration_*.py`, `case_memory_service.py`) | participants, pins on the root row, the case memory file | decide, pin, take part, log | a row and a file written whole, a budget read before it is used | suggestions are taken, budgets, nothing overwritten |
| Cleanup, canary, adapters, servers, other projections | see PROJECT.json | | | |

The components meet in four ways: they share the rows (queue, engine, watchdog,
API); the engine and the watchdog call the same services (repair, delivery
guarantee, arbitration); `run_once` calls the watchdog before it claims; and
each change of the root calls the delivery case. There are no messages and no
locks besides `BEGIN IMMEDIATE` in `claim_next_task` and in a few stores.

## The modules

| Module | Models |
|---|---|
| `WorkOwnership` | abstract: an item is owned by one worker at a time |
| `TaskQueue` | the queue, the leases, `run_once`, API requests; implements `WorkOwnership` |
| `RequestDelivery` | abstract: versions of a request are made and finished, and one of them may be the answer |
| `TaskDelivery` | the lineage of one request: engines, watchdogs, requests; implements `RequestDelivery` |
| `BranchArbitration` | judgement, promotion, and the delivery case |
| `RunPipeline` | one run of the engine, stage by stage, with its crashes; the agent runs and their sweep; extends `ScriptChecks` |
| `ScriptChecks` | the static check of a script and the diagnostics of a failed one, as operators |
| `EvaluationSuite` | the run of a suite of prompts, its manifest, its reports, the verdict |
| `StrategyPromotion` | strategy profiles and the evaluators that promote and roll back; extends `EvaluationSuite` |
| `AgentProfiles` | a profile and the suggestions to change it |
| `AgentAccess` | tokens, logins, connections, gateway sessions |
| `SessionMemory` | the memory of a session in a row and in copies |
| `PersistentMemory` | memories of agents, given to tasks and recalled |
| `VideoThread` | a thread with its iterations, results and turns |
| `ReviewWorkflow` | the review of a root by its owner and collaborators |
| `TaskQueueProofs`, `TaskDeliveryProofs`, `BranchArbitrationProofs`, `RunPipelineProofs` | theorems about the module of that name |
| `LearningProofs` | theorems about `EvaluationSuite`, `StrategyPromotion` and `AgentProfiles` |
| `AgentProofs` | theorems about `AgentAccess`, `SessionMemory` and `PersistentMemory` |
| `CollaborationProofs` | theorems about `VideoThread` and `ReviewWorkflow` |
| `ServiceProofs` | theorems about the services taken together, as `MCServices` composes them |
| `MCTaskQueue`, `MCTaskDelivery`, `MCBranchArbitration`, `MCRunPipeline`, `MCServices` | instances for TLC |

Each step is one transaction. Where the code reads a row and writes it at once
(`get_task` then `update_task`, with nothing in between) the pair is one step;
where it does something in between (counts, decides, runs a task) the steps are
separate and what was read is a variable of the process: `scan` and `job` in
`TaskQueue`, `copy` in `TaskDelivery`, `seen` in `BranchArbitration`.
A definition that the code could plausibly get wrong is preceded by a faulty
variant (`LeaselessRows` before `Claimable`, `SyncAlways` before
`SyncResolution`): PROJECT.json pairs each property with one, to show that the
property would notice.

**TaskQueue.** `status`, `root`, `kind` are the columns of `video_tasks` that the
queue reads; `lease` is the row of `task_leases` with `lease_expires_at` reduced
to live, expired, or expired for longer than the grace period; `pc` follows
`run_once`: the requeue (its select and its write-backs are separate, as in the
code), the claim, the renewal, the load, the first write, the run, the release in
`finally`. `Abort` is an exception that leaves `run_once`: the release happens, the
main loop does not catch, the process ends. `create_video_task` counts in `Admit`
and inserts in `Submit`. The clock is `AgeLease`. With `TimelyLeases` a lease
does not expire under a run that is alive; without, it may, as the code renews
it only once (`worker_loop.py:51`). A crashed process starts again through
`reconcile_startup`.

**TaskDelivery.** A root and its lineage, numbered in the order of creation.
`row` has the columns the decisions read; `issue`, `video` and `scored` are the
latest validation report, the files on disk and the quality scores. A process is
idle, a watchdog (`role`), or an engine that works on `job` with `copy`, the row
it read and writes back whole. `Complete` and `Fail` end a run; after a failure
come `Repair`, `Degrade`, `Emergency` and `GiveUp` with the budgets of
`auto_repair_service.py` and the rule for a second degraded attempt, after a
completion `SyncRoot`, `Challenge` and `Promote`. `Sweep` is one round of the
watchdog over the root, with the branches of `_reconcile_pending_roots` in their
order. Requests, crashes, the loss of a video and an exception after completion
are `Events`, of which a behaviour has at most `MaxEvents`. `TaskQueue` is
abstracted: a task an engine holds is not claimed, and the row of a dead one is
requeued at some time. The multi-agent options are taken as enabled, as in the
profiles that use them (`config.py:20`); the guard of the rollout is open.
`RequestDelivery` is what is left of all this for whoever waits: the versions are the
lineage, a version is finished when it has a video, the chosen ones are the rows marked as
the best, and the answer is the resolution of a root that is delivered. A whole-row write
from an old copy is its `Write`, which may bring a mark back or take the answer away, but
makes no answer up.

**BranchArbitration.** What `TaskDelivery` leaves out of the choice among versions:
scores, the incumbent that is read from the *case*, and the case with its three
steps (read the root, read the lineage, write the record). A run is one step with
any outcome. `ReadCase` and `Judge` are `maybe_auto_promote_challenger` up to its call
of `accept_best_version`, `Promote` the acceptance. The watchdog comes to the
judgement by `Look`. `reviewing`, `running`, `planning` and `queued` of a case are
one status, `open`: nothing reads them apart.

**RunPipeline.** One task and what `run_task` and `_fail_task` do with it. `stage`
is the place in `run_task`; each stage that writes a file, a run or the row is an
action. `files` names the attempt that wrote each file, so that "left by an
earlier attempt" can be said; `script` is what the file holds. `roles` is the
row of `agent_runs` of each role. `Crash` is a death between two stages: a task
that is still `running` is queued and run again in the same directory. `Contract`,
`PlanFor`, `Retryable` and `Repairable` are the tables of issue codes of four files.
`Sweep`, `CloseRun` and `SweepEnds` are `_reconcile_stalled_agent_runs`, which reads
the open runs and writes them back one by one. The budget and the admission of a
repair are in `TaskDelivery`.

**ScriptChecks.** A script is the set of its statements over a small syntax of
calls, names, texts and paths; `StaticIssues` is `StaticCheckValidator.validate`
and `Diagnostics` is `collect_script_diagnostics`, rule by rule. The two find names
that stand for a selection of a formula by different code.

**EvaluationSuite, StrategyPromotion.** `manifest` is the file, `memory` the copy of
the process; a case is begun, saved, submitted under the key of its attempt, waited
for and saved again, and the process may die between any two. `Approved` is
`evaluate_promotion` over the reports, in thousandths. An evaluator then decides,
records, activates or rolls back with the reads and writes of the store, each a
step. `overlapped` remembers the scopes in which two evaluators were at work at once.

**AgentProfiles.** `Talk` and `Keep` give texts that speak of preferences, `Propose` and
`Generate` make suggestions of them, `Check` is what a handler reads before the
transaction of `Apply` or `Dismiss`. `AdminRead` and `AdminWrite` are the command
that rewrites a profile.

**AgentAccess.** A request of a login passes `LookUp`, `Touch`, `CheckToken` and `Enter`,
which are `resolve_agent_session`; `barred` is what should have kept it out when it
came. The clock counts ticks, of which a day has `Day`. `Resolved` is the gateway's
choice between the record it has and a new one.

**SessionMemory.** A thread reads its process's copy, changes it and writes it to both
copy and row (`Store`). `replay` runs the operations one after another on a memory
of their own, and is what the row is compared with.

**PersistentMemory.** `record` is the row, `remote` the index, `chain` the tasks with what
they were given; a request chooses memories and writes its task in separate steps.
`Recall` is a query and `Told` what the roles of a workflow are told.

**VideoThread.** Every row is written by a step of its own, with what the request read
before in `client`; `LoseRequest` ends one between two of them. `TargetResult` and
`Addressed` are the choices of the service, `ComposerResult` and `ComposerParticipant`
those of the projection.

**ReviewWorkflow.** A reviewer reads the bundle and chooses an action from it
(`ReadBundle`), is authorised, updates pins one by one (`ReadRoot`, `WriteRoot`), then
creates a child or accepts and logs the decision (`LoadCase`, `RecordDecision`). The
engine holds a copy of the root row for the time of a run and writes the review
outcome to the case memory. `stale` remembers that somebody acted on a row, a file
or a count that had changed since he read it.

## The runs

| Run | Instance | Shows |
|---|---|---|
| `TaskQueue_safety` | 2 processes with one `worker_id`, 2 requests at once, 2 tasks, capacity 1, 2 crashes or aborts | `ExclusiveRun`, `LeaseCoversRun`, `OwnershipSpec` (refinement of `WorkOwnership`), `OutcomeIsFinal`, `AdmissionOvershoot`: the capacity is exceeded by at most the requests that passed together |
| `TaskQueue_liveness` | 1 request at a time, 1 crash | `QueueDrains`, `CrashedRunIsRecovered` |
| `TaskQueue_cancel` | as above | violated: a cancelled task is run |
| `TaskQueue_lateleases` | leases may expire under a run | violated: two workers run one task |
| `TaskDelivery_safety` | 2 processes, 3 attempts, 1 repair, 2 children, every event (one in a behaviour), runtime checks that may fail | `RepairBudget`, `ChallengerNeedsAcceptance` |
| `TaskDelivery_liveness` | 1 process, 5 attempts, two of revise, accept, cancel, crash | `RequestSettles`, `OneBest`, `DegradedBudget`, `ResolutionIsReal`, `RequestSpec` (refinement of `RequestDelivery`) |
| `TaskDelivery_incumbent` | 1 process, no event | violated: the repair of a failed challenger replaces the incumbent |
| `TaskDelivery_resolution` | 1 process, one acceptance | violated: a root without a video is its own resolution |
| `BranchArbitration_case` | 2 processes, 2 versions, 3 scores, 2 acceptances or crashes | `PromotionEvidence`, `TieKeepsIncumbent`, `CaseCatchesUp`, `ChallengerIsSettled` |
| `BranchArbitration_race` | 2 processes, 3 versions, no event | violated: a worse challenger replaces a better one |
| `Services` | one of nine services in each behaviour, see below | the properties of the table below |
| `RunPipeline_stalevideo` | 2 attempts, 2 scripts | violated: the video of one script is delivered with another |

`Services` (905 000 states) runs `MCServices`: the services share no state, so a
behaviour chooses one of them and the others stay as they start. Which is the same
as nine runs, and keeps one instance for all.

| Service | Instance | Shows |
|---|---|---|
| `EvaluationSuite` | 2 cases, 3 starts | `ResumptionIsSound`: after a crash and a resumption no case is judged by another attempt's task or by none |
| `StrategyPromotion` | 3 strategies of one scope, 2 evaluators, 3 evaluations | `OneActiveStrategy`, `KeepsServing`, both while evaluations of the scope do not overlap; when they do, two may stay active |
| `AgentProfiles` | 1 field with 2 values, 1 session, 1 suggestion, 2 edits | `SettledOnce`, `VersionNamesContent` (except for an administrator who writes over a row he read before another change) |
| `AgentAccess` | 1 token, 1 login, 2 requests, 1 connection, 5 ticks, days of 4 | `BarredStayOut`, `GatewayRotates` |
| `SessionMemory` | 2 processes with a thread each, 1 root with 2 tasks, 1 clearing | `NothingForgotten`: a restart and a take-over lose nothing; two copies at once do, and are excepted |
| `PersistentMemory` | 2 agents, 1 memory, 2 requests, 2 tasks | `DisabledStaysOut` |
| `VideoThread` | 2 requests, 2 iterations, 1 result, 2 turns | `LineageIsSound`, `ComposerNamesAddressee` |
| `ReviewWorkflow` | owner and a collaborator, 1 memory, 2 decisions, budget of 1 child | `ReviewBudget`, `SuggestionIsTaken`, `NothingOverwritten` |
| `RunPipeline`, `ScriptChecks` | 2 attempts, 7 scripts, 4 deployments | `EvidenceIsFresh`, `RunsClose`, `RepairFollowsContract`, `RefusalIsExplained` |

Deadlock is checked in all runs but these last two: the watchdogs and the polling
never stop. The services of `MCServices` only answer requests, and rest when the
bounded number of them has been made; so does a task whose attempts are used up.

**Bounds.** Two processes are enough for each race in the hazards, which are
all between one writer and one other. Two tasks let a claim choose and let a
requeue bring back a task other than the one at hand. Three attempts let a root
have a repair and a challenger, five let the liveness run use up repair,
degraded attempt, emergency video and two requests. With two versions there is one
challenger and every tie; three are needed to have two challengers judged at
once, and the violation run has them. One event in the large instance and two
in the small one let a crash meet each step and a request, but not, for
instance, two crashes and a request. `Proc` is a symmetry set only in runs
without a liveness property.

In `Services` two actors of a kind are again enough for the races. Three starts let
a suite be resumed twice; three evaluations promote, replace and roll back. A day of
four ticks with its boundary at the third has moments before and after it, and five
ticks pass it once. Two iterations let a selection hit the wrong one; with one
result the exception in `ComposerNamesAddressee`, for a second result of an
iteration, is not reached, and two results and two turns together are out of the
run's time. Two attempts of a run suffice for each file to be left by the first; the
scripts have every rule of the check broken directly, and the selection of a formula
also behind a name and in arguments of arguments.

**Fairness.** Weak fairness of the steps of a process: the main loop calls
`run_once` for ever (`worker/main.py:37`), every stage of a run has a timeout, and
a process that died is restarted by its supervisor (`docker-compose.yml`). Weak
fairness of the ageing of leases (`TaskQueue`) and of the requeue of a dead
worker's row (`TaskDelivery`): the clock goes on. Requests, cancellations, new
branches, crashes, losses, and the outcome a run has are never forced.

## What the runs found

* *Cancellation is overwritten* (`TaskQueue_cancel`). `run_task` reads the row, tests
  it, and writes RUNNING from its copy; the cancellation in between is lost.
* *A long run loses its task* (`TaskQueue_lateleases`). The lease (30 s) is
  renewed once before a run that may take far longer (render timeout 300 s).
* *A challenger's repair replaces the incumbent* (`TaskDelivery_incumbent`). The
  repair has no `branch_kind`, so that the rule that protects the incumbent does
  not apply to it.
* *A root without a video is accepted* (`TaskDelivery_resolution`). A root that its
  repair completed has status COMPLETED, which is all that the acceptance asks.
* *A worse challenger wins* (`BranchArbitration_race`). The judgement is not
  repeated when it is acted upon.
* *The video of an earlier attempt is delivered* (`RunPipeline_stalevideo`). A worker
  dies after it moved its video to `final_video.mp4`; the next attempt writes another
  script and renders it, `_locate_output_video` finds the old file first
  (`manim_runner.py:120`), and it is validated, judged and delivered.

PROJECT.json quotes the documents beside them. Others were seen on the way and
have no run, since no document promises otherwise. With an exception after a completion and a crash, a root may
stay pending below a delivered challenger, which the watchdog passes over in
every round (`case_reliability_service.py:85`); and with two processes, or where a
video is lost, the mark of the best version may stay on two rows. The watchdog reads the open
agent runs before it writes them back, and may replace a `completed` that the engine
has written in between by `cancelled`. An emergency delivery leaves the scorecard of an
earlier attempt. A name that stands for `get_part_by_tex` with a control sequence as its
second text is refused by the static check and not explained by the diagnostics. Two
evaluations of one scope at once leave two active profiles. The principal of an MCP
connection stays after its token has been disabled. A pinned memory that is disabled
afterwards makes every revision by the owner fail, while a collaborator's revision
inherits it. Once two results of an iteration have been selected, the composer may
announce another one than the service takes. An older attempt's outcome sets
`latest_task_id` of a session's memory back.

## The theorems

All hold for every number of processes, tasks, versions and records, every setting and
any number of events, within the hypotheses listed below. Each is shown by an invariant that is inductive where the property
is not; TLC checked those on small instances before they were proved.
The proof of an invariant has one lemma per action, or one per action and part.

What is assumed are the `ASSUME`s of the modules: the types of the constants, at least
one attempt per root, finitely many processes, clients and collaborators where they are
counted. Besides these, some theorems have a hypothesis of their own:

* those of `TaskQueueProofs`, but for `TypeCorrect`, assume `TimelyLeases`;
  `TaskQueue_lateleases` shows what happens without;
* `ResolutionStaysReal`, `OnlyAcceptedRootLacksVideo`, `DeliveryImplementsRequest` and
  `AnswerStaysBacked` assume that no delivered video is lost (`"loss" \notin Events`):
  a file that somebody deletes cannot be kept by an invariant;
* `UndisturbedPromotionKeepsBetter` and `CleanRunPublishesItsRender` say what a finding turns
  on: they hold of the behaviours in which nothing is accepted between a judgement and the
  promotion (`NothingAccepted`), and in which no script is written beside a video that was
  left (`NoVideoLeft`). The code does not ensure either, as the two runs show;
* `OneVersionIsBest` assumes that no video is lost, and one worker process. It is false without either:
  TLC finds two marked rows with two processes and three events, none of them a loss, and
  with one process and a lost video;
* `RefusalsAreExplained` assumes that a `get_part_by_tex` has at most one text (`OneText`);
  without, it is false, as said above.

**TaskQueueProofs.** `TypeCorrect`. `LeasesExclude`: a
process that has a job holds the live lease on it, and no two have the same
(`RunsExclude`). Mutual
exclusion alone is not inductive: that a second claim fails is known only from
the live lease of the first worker. So the two properties are carried together
(`LeaseInv`). `QueueImplementsOwnership`: each step maps to
a step of `WorkOwnership` or to a stutter, with the owners of a task the processes
that have it as their job. `OutcomesAreFinal`: before the first crash a finished
task does not become active; the invariant (`QuietInv`) says that until then each
running row belongs to a process that runs it, so that no row is stale and no
requeue has anything to write back. `AdmissionStaysBounded`: requests that passed
the count together exceed the capacity by at most one for each but one of them. A request
that was admitted and has not inserted yet is counted with the queued roots
(`InCapacity`), and a root can only come back into the queue after a crash (`CalmInv`).

**TaskDeliveryProofs.** `TypeCorrect`, and `PromotionNeedsAcceptance`: no
interleaving makes a challenger the resolution of its root unless it is marked
as the best version in the same step. The property speaks of one step, but
nothing prevents an engine from writing back an old copy of the *root* row, so the
invariant has to say that each copy of the root row that a process works on is
harmless: its resolution is the root or none, and so is that of the row while the
root is active and may be claimed (`DeliveryInv`, a conjunction of parts for rows,
kinds, work in hand and the rest). One lemma per action, over lemmas for the few ways in
which the actions write (a row from a copy, the root, a new row).
`RepairsStayInBudget`, `DegradedStaysInBudget`: the budgets are read before the child is
inserted, so what is bounded is the number of children there are and of processes between
the look and the insertion (`BudgetInv`); each process that looks late adds one
at most, which is what the two properties allow. `ResolutionStaysReal`: a root that is
resolved by another task is resolved by one that was completed and has a video, and no copy
of the root names another task (`RealInv`), so that no late write-back takes the
resolution away from what the sweep has found. `OneVersionIsBest`: an acceptance takes the
mark from all other rows, but a process may hold a copy that has it still. The invariant
(`MarksInv`) says that a copy which is marked and may be written back is one of the root,
taken by the watchdog when no other task was completed, so that nothing else can have been
accepted since. `OnlyAcceptedRootLacksVideo` is the other half of `TaskDelivery_resolution`:
a delivered root names a task without a video only when it is the root, accepted itself.

`DeliveryImplementsRequest`: every step of engines, watchdogs and requests is a step of
`RequestDelivery` or a stutter, for any number of processes. A run that ends, or writes its
copy back, is a `Write`, the synchronisation of the root a `Resolve`, an acceptance or a
promotion a `Choose`, a failed or requeued root a `Withdraw`, a child a `Branch`. What the
mapping needs is that stale marks are harmless (`AnswerInv`, beside `DeliveryInv` and
`RealInv`): a row, and each copy that may be written back, is marked only where that version
may be chosen, which lasts because videos do. `AnswerStaysBacked` is proved of the abstract
module and carried over.

**BranchArbitrationProofs.** `JudgementDecides`: of any set of versions exactly one
is the best by `_select_best_candidate`, so that the judgement depends neither
on the order in which rows are listed nor on repeated scores (the least element of
a set of numbers comes from the well-foundedness of the naturals).
`TypeCorrect`. `PromotionHasEvidence`: what is about to be promoted is, now, a
delivered and accepted challenger; the invariant (`EvidenceInv`) carries the
evidence from the place where it was read, and holds because completed rows are
not written again by runs. `TieGoesToIncumbent`. `UndisturbedPromotionKeepsBetter`: the
version that is about to be promoted was as good as every accepted one when it was judged
(`PromotesTop`), and the scores of completed versions do not change, so that only a version
accepted in between can be better; with one process there is none.

**RunPipelineProofs.** `DeliveryRestsOnEvidence`: for any scripts, validators and number of
attempts. The invariant (`FreshInv`) says for every stage which files the current attempt
has already written and that no later stage is reached with a script that the static
check refuses. `RepairsAsContracted`: the contract, the recovery plan and the list of
retryable codes agree on every code (`TablesAgree`), and the contract of the failure at
hand has been written: where nothing may be written, only failures that nothing repairs
can occur (`RepairInv`). `RunsAreClosed`: `CloseInv` says at each stage which roles the
engine has open, and of a sweep that what it has still to write is all that is open
once the task has ended. `RefusalsAreExplained` goes through the rules of the static
check one by one. `PipelineTypesHold`: a file carries the number of an attempt that was begun
(`Bounded`). `CleanRunPublishesItsRender`: in a directory without an old video the one that is
promoted is of this attempt, and so is the script (`VideoInv`).

**LearningProofs.** `ResumptionsAreSound`: the key of a submission is made of the number of
the attempt, which is saved before the task is created; attempts only grow, so the key that a
resumed suite uses next is above every key in the store (`SuiteInv`). `OneIsActive`,
`ServiceGoesOn`: as long as evaluators have not overlapped in a scope, the one at
work is alone in it and what it has read of its scope is what the rows say (`StrategyInv`,
which goes by the clusters of strategies that share a scope). `SuggestionsSettleOnce`,
`VersionsNameContent`: a check before the transaction may be out of date, but the
transaction reads again (`ProfilesInv`). `SuiteTypesHold`, `StrategyTypesHold`,
`ProfilesTypesHold`: the last needs that every suggested text speaks of a preference
(`ProfilesTyped`), from the filing of the message to the patch it becomes.

**AgentProofs.** `BarredRequestsStayOut`: for any number of tokens, logins and
requests. That a login is usable at the second look says nothing of the moment the
request came; the invariant (`AccessInv`) says that a revoked login's row stays
revoked, that a request that should be kept out can only have come with a disabled
token, which stays disabled, and that past the check of the token no such request
is left. `GatewayRotatesAtResets`: the code compares with the latest reset hour at or
before now; that one lies after the record's creation exactly when any of them does
(`BoundaryIsLatest`, from the uniqueness of quotient and remainder).

`SessionsForgetNothing`: while one process has a copy, that copy is the
row, and an operation at work has read what the operations before it made (`MemoryInv`); the
hypotheses of the property are what `_persist_snapshot` needs, as it writes a memory
whole. `DisabledMemoriesStayOut`: a record is created once and never enabled again, so what was
disabled when a request began still is when the request reads it (`PersistentInv`), whatever
the index answers.
`AccessTypesHold`: no gateway record is used before it was made. `MemoryTypesHold`: a
snapshot has one entry for each root and the newest attempts within the limits, which
inserting, updating, cutting and sorting keep, and what a thread has in hand is one too
(`MemoryTyped`, `Working`). `PersistentTypesHold`: the chain of tasks a memory is inherited
along goes back to a root (`TasksOfPeople`).

**CollaborationProofs.** `LineageStaysSound`: results and iterations are only added, so that
what a request has read of them stays true until it writes (`ThreadInv`).
`ComposerTellsAddressee`: service and projection look for the participant by different code
(a search over kinds of witnesses against a chain of early returns); both
depend only on which kinds have a witness who takes part (`PeopleInv`, `WitnessInv`).
`ReviewStaysInBudget`: children and reviewers past their look at the budget together are
fewer than the budget and the collaborators. `WritesFollowEvents`: as long as nobody acted on
what had changed, what a reviewer or the engine has in hand is the row and the file as they
are (`ReviewInv`). `PanelsAreTaken`: the guards of the panel are those of the service.
`ThreadTypesHold`, `ReviewTypesHold`: the rows name one another, and so does what each
request has read of them (`ThreadTyped`, `ClientsTyped`).

**ServiceProofs.** `ServicesRunApart`: a behaviour of the composition is a behaviour of each
service, which may stutter for ever, so that whatever is proved of one holds of the whole.
`ServiceTypesHold` follows from it and the types of the nine services.

Only model-checked is liveness (`QueueDrains`, `CrashedRunIsRecovered`, `RequestSettles`,
`CaseCatchesUp`, `ChallengerIsSettled`), which is out of the prover's reach, as `ENABLED`
is. Every other property of the runs that pass is stated by a theorem.

## Limits

Some things are still coarser than the code: the reads and writes of one acceptance
are one step in `TaskDelivery`, orphaned branches are not in the sweep, a revision
always starts from an existing row, and the rollout guard is open. `RunPipeline` has
one task: its repair is a child that `TaskDelivery` runs.

Of the six findings, four have a theorem that says when the promise is kept (`LeasesExclude`
with timely leases, and the three for `TaskDelivery_resolution`, `BranchArbitration_race` and
`RunPipeline_stalevideo`). For `IncumbentIsPreserved` none was found that says more than "no
challenger is made": besides repairs, the degraded attempt of a challenger replaces the
incumbent. A cancellation may meet any run between its test and its first write.
`BranchArbitration` has no mark of the best version, only the choice itself, and is
therefore not mapped to `RequestDelivery`.

Not modelled: cleanup, a command run by hand that deletes old tasks one by one (a parent
may go before its delivered child, which the sweep of orphaned branches then fails; neither
is described by a document); the canary, which runs one task by one command, and the
rollout guard; the calls of language models, Manim, ffmpeg and the checks of video
frames, which have any outcome; the heuristics of task risk; views other than the
controls of a review and the composer of a thread; routing and serialisation, schema
bootstrap, command lines and the web UI.
