---------------------------- MODULE TaskDelivery ----------------------------
(***************************************************************************)
(* The delivery of one request of easy-manim: a root task and the lineage  *)
(* of repairs, degraded attempts, revisions and challengers that grows     *)
(* beneath it.  The root row carries the answer the caller reads: whether  *)
(* the request is delivered, and which task of the lineage resolves it.    *)
(*                                                                         *)
(* Three writers meet on the rows: WorkflowEngine, which runs a task from  *)
(* a copy of its row and writes the whole copy back each time, the         *)
(* watchdog of CaseReliabilityService, which every worker process runs     *)
(* before it claims, and the requests of the API.  A step is one           *)
(* transaction; a read followed at once by the write of the same row (the  *)
(* updates of the root, the acceptance of a version) is one step.          *)
(*                                                                         *)
(* TaskQueue models how a task comes to one worker.  Here a task held by a *)
(* worker is simply not claimed by another, and the row of a dead worker   *)
(* is requeued at some time after its death.                               *)
(***************************************************************************)
EXTENDS Naturals, FiniteSets

CONSTANTS
  Proc,           \* worker processes, each with its watchdog
  MaxAttempts,    \* settings.max_attempts_per_root_task
  MaxRepairs,     \* settings.auto_repair_max_children_per_root
  MaxChildren,    \* settings.multi_agent_workflow_max_child_attempts
  Issues,         \* the kinds of failure a run may meet
  MayBeUnready,   \* TRUE: the runtime checks of a process may fail
  Events,         \* the disturbances that may happen
  MaxEvents       \* bound on their number in a behaviour

\* "render" stands for the retryable issue codes, "blocked" for those that
\* forbid a degraded attempt and an emergency video, "other" for the rest.
Issue == {"render", "blocked", "other"}

\* Requests of the API, the death of a process, the loss of a video file, an
\* exception in the bookkeeping after a completion.
Event == {"revise", "retry", "accept", "cancel", "crash", "loss", "raise"}

ASSUME SettingsAssumption ==
  /\ {MaxAttempts, MaxRepairs, MaxChildren, MaxEvents} \subseteq Nat
  /\ MaxAttempts > 0
ASSUME EnvironmentAssumption ==
  /\ IsFiniteSet(Proc) /\ Proc # {}
  /\ Issues \subseteq Issue /\ Events \subseteq Event
  /\ MayBeUnready \in BOOLEAN

\* Tasks are numbered in the order of created_at.  The limit is read in one
\* transaction and the child inserted in a later one: each process may pass it
\* once.
Task == 1 .. MaxAttempts + Cardinality(Proc)
Root == 1
None == 0

VARIABLES
  row,      \* the row of each task
  parent,   \* parent_task_id
  kind,     \* what created the task
  issue,    \* first issue of the latest validation report
  video,    \* tasks that have a final video on disk
  scored,   \* tasks the quality judge has scored
  pc,       \* where each process is in run_once
  role,     \* whether it works as engine or as watchdog
  job,      \* the task it works on
  copy,     \* the row of that task as it read it
  events    \* disturbances so far

rows    == <<row, parent, kind>>
worker  == <<pc, role, job, copy>>
files   == <<video, scored>>
vars    == <<rows, issue, files, worker, events>>

-----------------------------------------------------------------------------
(* Rows *)

Active   == {"queued", "running"}
Status   == {"absent"} \cup Active \cup {"completed", "failed", "cancelled"}
Delivery == {"pending", "delivered", "failed"}
Mode     == {"none", "primary", "repaired", "degraded", "emergency"}
Quality  == {"none", "accepted", "needs_revision"}
Kind     == {"root", "revision", "repair", "degraded", "challenger"}

Row == [status : Status, delivery : Delivery, resolved : Task \cup {None},
        mode : Mode, quality : Quality, best : BOOLEAN]

BlankRow == [status |-> "absent", delivery |-> "pending", resolved |-> None,
             mode |-> "none", quality |-> "none", best |-> FALSE]

Delivered(r) == r.status = "completed" /\ r.delivery = "delivered"

Lineage  == {t \in Task : row[t].status # "absent"}
Leaf     == Cardinality(Lineage)
Children == Cardinality(Lineage) - 1

Resolution == IF row[Root].resolved = None THEN Root ELSE row[Root].resolved

\* A task is claimed from claim_next_task until the end of its run.
Claimed(t) == \E p \in Proc : job[p] = t /\ role[p] = "engine"

-----------------------------------------------------------------------------
Init ==
  /\ row = [t \in Task |-> IF t = Root THEN [BlankRow EXCEPT !.status = "queued"]
                                       ELSE BlankRow]
  /\ parent = [t \in Task |-> None]
  /\ kind = [t \in Task |-> "root"]
  /\ issue = [t \in Task |-> "other"]
  /\ video = {}
  /\ scored = {}
  /\ pc = [p \in Proc |-> "idle"]
  /\ role = [p \in Proc |-> "none"]
  /\ job = [p \in Proc |-> None]
  /\ copy = [p \in Proc |-> BlankRow]
  /\ events = 0

-----------------------------------------------------------------------------
(* Steps of a process.  As in TaskQueue, a faulty variant stands before the  *)
(* definition it varies.                                                     *)

Goto(p, place) == pc' = [pc EXCEPT ![p] = place]

Happens(e) ==
  /\ e \in Events
  /\ events < MaxEvents
  /\ events' = events + 1

\* Process p turns to task t with what it has read of its row.
Take(p, r, t, place) ==
  /\ role' = [role EXCEPT ![p] = r]
  /\ job' = [job EXCEPT ![p] = t]
  /\ copy' = [copy EXCEPT ![p] = row[t]]
  /\ Goto(p, place)

FinishWithJob(p) ==
  /\ Goto(p, IF role[p] = "engine" THEN "idle" ELSE "claim")
  /\ role' = [role EXCEPT ![p] = "none"]
  /\ copy' = [copy EXCEPT ![p] = BlankRow]
  /\ UNCHANGED job

\* The engine returns to run_once, the watchdog goes on to the claim.
Finish(p) ==
  /\ Goto(p, IF role[p] = "engine" THEN "idle" ELSE "claim")
  /\ role' = [role EXCEPT ![p] = "none"]
  /\ job' = [job EXCEPT ![p] = None]
  /\ copy' = [copy EXCEPT ![p] = BlankRow]

\* update_task: the changed copy replaces the whole row of the job.
Save(p, changed) ==
  /\ copy' = [copy EXCEPT ![p] = changed]
  /\ row' = [row EXCEPT ![job[p]] = changed]

\* A child of base.  It starts with the quality_gate_status of its parent.
InsertChild(base, k) ==
  LET child == Leaf + 1 IN
  /\ child \in Task
  /\ row' = [row EXCEPT ![child] =
       [BlankRow EXCEPT !.status = "queued",
                        !.quality = row[base].quality,
                        !.mode = CASE k = "repair" -> "repaired"
                                   [] k = "degraded" -> "degraded"
                                   [] OTHER -> "none"]]
  /\ parent' = [parent EXCEPT ![child] = base]
  /\ kind' = [kind EXCEPT ![child] = k]

-----------------------------------------------------------------------------
(* The run of a task *)

Queued == {t \in Lineage : row[t].status = "queued" /\ ~ Claimed(t)}

\* Claim, first read and first write of the run.
Begin(p) ==
  /\ pc[p] = "claim"
  /\ \E t \in Queued :
       /\ \A u \in Queued : t <= u
       /\ row' = [row EXCEPT ![t].status = "running"]
       /\ copy' = [copy EXCEPT ![p] = [row[t] EXCEPT !.status = "running"]]
       /\ job' = [job EXCEPT ![p] = t]
  /\ role' = [role EXCEPT ![p] = "engine"]
  /\ Goto(p, "running")
  /\ UNCHANGED <<parent, kind, issue, files, events>>

\* Nothing is queued, or the runtime checks fail.
ClaimNothing(p) ==
  /\ pc[p] = "claim"
  /\ Queued = {} \/ MayBeUnready
  /\ Goto(p, "idle")
  /\ UNCHANGED <<rows, issue, files, role, job, copy, events>>

\* _transition to a later phase.
Progress(p) ==
  /\ pc[p] = "running"
  /\ Save(p, copy[p])
  /\ UNCHANGED <<parent, kind, issue, files, pc, role, job, events>>

\* Rendered, validated and judged.
Complete(p) ==
  /\ pc[p] = "running"
  /\ \E q \in {"accepted", "needs_revision"} :
       Save(p, [copy[p] EXCEPT
         !.status = "completed",
         !.delivery = "delivered",
         !.resolved = job[p],
         !.quality = q,
         !.mode = IF @ # "none" THEN @
                  ELSE IF job[p] = Root THEN "primary" ELSE "repaired"])
  /\ video' = video \cup {job[p]}
  /\ scored' = scored \cup {job[p]}
  /\ issue' = [issue EXCEPT ![job[p]] = "other"]
  /\ Goto(p, "sync")
  /\ UNCHANGED <<parent, kind, role, job, events>>

\* _fail_task
Fail(p) ==
  /\ pc[p] = "running"
  /\ \E i \in Issues : issue' = [issue EXCEPT ![job[p]] = i]
  /\ Save(p, [copy[p] EXCEPT !.status = "failed"])
  /\ Goto(p, "repair")
  /\ UNCHANGED <<parent, kind, files, role, job, events>>

\* The try block ends only after the completion: what raises there fails the
\* task with an infra_error, from a copy that says it is delivered.
FailLate(p) ==
  /\ Happens("raise")
  /\ pc[p] \in {"sync", "challenge", "promote"} /\ role[p] = "engine"
  /\ issue' = [issue EXCEPT ![job[p]] = "other"]
  /\ Save(p, [copy[p] EXCEPT !.status = "failed"])
  /\ Goto(p, "repair")
  /\ UNCHANGED <<parent, kind, files, role, job>>

-----------------------------------------------------------------------------
(* What becomes of a failed task: _fail_task and _resume_failed_leaf *)

WithinBudgetByOne == Children <= MaxRepairs /\ Leaf < MaxAttempts

WithinBudget == Children < MaxRepairs /\ Leaf < MaxAttempts

Repair(p) ==
  /\ pc[p] = "repair"
  /\ Goto(p, IF issue[job[p]] = "render" /\ WithinBudget
             THEN "create_repair" ELSE "degrade")
  /\ UNCHANGED <<rows, issue, files, role, job, copy, events>>

\* create_auto_repair_task reads the task again and counts the lineage.
CreateRepair(p) ==
  /\ pc[p] = "create_repair"
  /\ Goto(p, IF row[job[p]].status = "failed" /\ Leaf < MaxAttempts
             THEN "insert_repair" ELSE "degrade")
  /\ UNCHANGED <<rows, issue, files, role, job, copy, events>>

DegradedDeliveries ==
  {t \in Lineage : t # Root /\ row[t].mode = "degraded" /\ Delivered(row[t])}

DegradedAttempts == {t \in Lineage : t # Root /\ row[t].mode = "degraded"}

\* The failure contract that forbids a degraded attempt is written after the
\* failed row: a watchdog may come before it.
ContractAllows(p) == issue[job[p]] # "blocked"

Degrade(p) ==
  /\ pc[p] = "degrade"
  /\ IF job[p] # Root /\ copy[p].mode # "degraded" /\ DegradedAttempts = {}
     THEN \/ ContractAllows(p) /\ Goto(p, "create_degraded")
          \/ ~ ContractAllows(p) /\ Goto(p, "emergency")
          \/ role[p] = "watchdog" /\ Goto(p, "create_degraded")
     ELSE Goto(p, "emergency")
  /\ UNCHANGED <<rows, issue, files, role, job, copy, events>>

CreateDegraded(p) ==
  /\ pc[p] = "create_degraded"
  /\ Goto(p, IF row[job[p]].status = "failed" /\ Leaf < MaxAttempts
             THEN "insert_degraded" ELSE "emergency")
  /\ UNCHANGED <<rows, issue, files, role, job, copy, events>>

InsertRecovery(p) ==
  /\ \/ pc[p] = "insert_repair" /\ InsertChild(job[p], "repair")
     \/ pc[p] = "insert_degraded" /\ InsertChild(job[p], "degraded")
  /\ Finish(p)
  /\ UNCHANGED <<issue, files, events>>

EmergencyUnregistered(p) ==
  /\ pc[p] = "emergency"
  /\ role[p] = "engine" => issue[job[p]] # "blocked"
  /\ Save(p, [copy[p] EXCEPT
       !.status = "completed",
       !.delivery = "delivered",
       !.resolved = job[p],
       !.mode = IF parent[job[p]] = None THEN "emergency" ELSE "degraded"])
  /\ Goto(p, "sync_guaranteed")
  /\ UNCHANGED <<parent, kind, issue, files, role, job, events>>

\* maybe_deliver and _finalize_guaranteed_delivery.  Only the engine asks
\* whether the issue allows an emergency video.
Emergency(p) ==
  /\ pc[p] = "emergency"
  /\ role[p] = "engine" => issue[job[p]] # "blocked"
  /\ video' = video \cup {job[p]}
  /\ Save(p, [copy[p] EXCEPT
       !.status = "completed",
       !.delivery = "delivered",
       !.resolved = job[p],
       !.mode = IF parent[job[p]] = None THEN "emergency" ELSE "degraded"])
  /\ Goto(p, "sync_guaranteed")
  /\ UNCHANGED <<parent, kind, issue, scored, role, job, events>>

\* _mark_delivery_failed, for a blocked issue or a writer that fails.
GiveUp(p) ==
  /\ pc[p] = "emergency"
  /\ Save(p, [copy[p] EXCEPT !.delivery = "failed"])
  /\ Goto(p, "fail_root")
  /\ UNCHANGED <<parent, kind, issue, files, role, job, events>>

FailRoot(p) ==
  /\ pc[p] = "fail_root"
  /\ row' = IF job[p] = Root THEN row
            ELSE [row EXCEPT ![Root].delivery = "failed"]
  /\ Finish(p)
  /\ UNCHANGED <<parent, kind, issue, files, events>>

-----------------------------------------------------------------------------
(* What becomes of a delivered task *)

SyncAlways(p) ==
  row' = [row EXCEPT ![Root] = [@ EXCEPT !.status = "completed",
                                         !.delivery = "delivered",
                                         !.resolved = job[p],
                                         !.mode = copy[p].mode]]

\* _sync_root_delivery_resolution: not for a challenger.
SyncResolution(p) ==
  IF job[p] # Root /\ kind[job[p]] = "challenger"
  THEN UNCHANGED row
  ELSE SyncAlways(p)

SyncRoot(p) ==
  /\ \/ pc[p] = "sync" /\ Goto(p, "challenge") /\ UNCHANGED <<role, job, copy>>
     \/ pc[p] \in {"sync_guaranteed", "sync_descendant"} /\ Finish(p)
  /\ SyncResolution(p)
  /\ UNCHANGED <<parent, kind, issue, files, events>>

\* _maybe_schedule_quality_challenger; it may also be off, or held back by the
\* guarded rollout.
Challenge(p) ==
  /\ pc[p] = "challenge"
  /\ \/ /\ copy[p].quality # "accepted"
        /\ copy[p].mode \notin {"degraded", "emergency"}
        /\ Delivered(row[job[p]])
        /\ Leaf < MaxAttempts /\ Children < MaxChildren
        /\ Goto(p, "insert_challenger")
     \/ Goto(p, "promote")
  /\ UNCHANGED <<rows, issue, files, role, job, copy, events>>

InsertChallenger(p) ==
  /\ pc[p] = "insert_challenger"
  /\ InsertChild(job[p], "challenger")
  /\ Goto(p, "promote")
  /\ UNCHANGED <<issue, files, role, job, copy, events>>

\* The accepted candidates that may have the best score; an inherited
\* acceptance has no score, which counts as zero.
Accepted == {t \in Lineage : Delivered(row[t]) /\ row[t].quality = "accepted"}
Best     == IF Accepted \cap scored # {} THEN Accepted \cap scored ELSE Accepted

AcceptBesideOthers(t) ==
  row' = [row EXCEPT
    ![t].best = TRUE,
    ![Root] = [@ EXCEPT !.status = "completed", !.delivery = "delivered",
                        !.resolved = t, !.mode = row[t].mode]]

\* accept_task_as_best.
Accept(t) ==
  row' = [u \in Task |->
    LET r == IF u \in Lineage THEN [row[u] EXCEPT !.best = (u = t)] ELSE row[u]
    IN IF u # Root THEN r
       ELSE [r EXCEPT !.status = "completed", !.delivery = "delivered",
                      !.resolved = t, !.mode = row[t].mode]]

\* _maybe_auto_promote_challenger; it may also be off or held back, and
\* another candidate may be the best.
Promote(p) ==
  /\ pc[p] = "promote"
  /\ \/ /\ kind[job[p]] = "challenger"
        /\ Delivered(copy[p]) /\ copy[p].quality = "accepted"
        /\ job[p] \in Best /\ job[p] # Resolution
        /\ row[job[p]].status = "completed"
        /\ Accept(job[p])
     \/ UNCHANGED row
  /\ Finish(p)
  /\ UNCHANGED <<parent, kind, issue, files, events>>

-----------------------------------------------------------------------------
(* The watchdog: _reconcile_pending_roots for this root *)

OpenChallenger ==
  /\ kind[Leaf] = "challenger"
  /\ Delivered(row[Leaf])
  /\ row[Root].resolved # Leaf

Deliverable ==
  {t \in Lineage \cap video :
     row[t].delivery = "delivered" \/ row[t].status = "completed"}

\* Delivered tasks whose video is gone, the resolved one before the leaf.
Missing ==
  {t \in {Resolution} : row[Root].delivery = "delivered" /\ t \notin video}
Lost ==
  IF Missing # {} THEN Missing
  ELSE {t \in {Leaf} : row[t].delivery = "delivered" /\ t \notin video}

Settled == \/ row[Root].delivery = "failed"
           \/ row[Root].delivery = "delivered" /\ Resolution \in video

SweepChallenger(p) ==
  /\ OpenChallenger
  /\ Take(p, "watchdog", Leaf, "promote")

SweepDescendant(p) ==
  /\ ~ OpenChallenger
  /\ \E t \in Deliverable :
       /\ \A u \in Deliverable : u <= t
       /\ Take(p, "watchdog", t, "sync_descendant")

SweepLost(p) ==
  /\ ~ OpenChallenger /\ Deliverable = {} /\ row[Root].delivery # "failed"
  /\ \E t \in Lost : Take(p, "watchdog", t, "lost")

SweepFailed(p) ==
  /\ ~ OpenChallenger /\ Deliverable = {} /\ row[Root].delivery # "failed"
  /\ Lost = {} /\ row[Leaf].status = "failed"
  /\ Take(p, "watchdog", Leaf, "repair")

SweepUnready(p) ==
  /\ MayBeUnready
  /\ ~ OpenChallenger /\ Deliverable = {} /\ row[Root].delivery # "failed"
  /\ Lost = {} /\ row[Leaf].status \in Active
  /\ Take(p, "watchdog", Leaf, "kill")

\* Nothing to do, or the case record was only brought up to date.
SweepNothing(p) ==
  /\ ~ OpenChallenger
  /\ \/ Settled
     \/ Deliverable = {} /\ Lost = {} /\ row[Leaf].status # "failed"
  /\ Goto(p, "claim")
  /\ UNCHANGED <<role, job, copy>>

Sweep(p) ==
  /\ pc[p] = "idle"
  /\ \/ SweepChallenger(p) \/ SweepDescendant(p) \/ SweepLost(p)
     \/ SweepFailed(p) \/ SweepUnready(p) \/ SweepNothing(p)
  /\ UNCHANGED <<rows, issue, files, events>>

\* _reconcile_missing_delivery_artifact
FailLost(p) ==
  /\ pc[p] = "lost"
  /\ Save(p, [copy[p] EXCEPT !.status = "failed", !.delivery = "failed"])
  /\ Goto(p, "repair")
  /\ UNCHANGED <<parent, kind, issue, files, role, job, events>>

\* _mark_lineage_runtime_failed: the leaf, then its root.
Kill(p) ==
  /\ pc[p] = "kill"
  /\ Save(p, [copy[p] EXCEPT !.status = "failed", !.delivery = "failed"])
  /\ Goto(p, "kill_root")
  /\ UNCHANGED <<parent, kind, issue, files, role, job, events>>

KillRoot(p) ==
  /\ pc[p] = "kill_root"
  /\ row' = IF job[p] = Root THEN row
            ELSE [row EXCEPT ![Root].status = "failed", ![Root].delivery = "failed"]
  /\ Finish(p)
  /\ UNCHANGED <<parent, kind, issue, files, events>>

-----------------------------------------------------------------------------
(* Requests, failures and time *)

\* revise_authorized_task: a challenger beside a delivered version, within the
\* limits; else a revision, without any.  MaxAttempts bounds the latter here.
Revise(base) ==
  /\ Happens("revise")
  /\ Leaf < MaxAttempts
  /\ IF Delivered(row[base])
     THEN Children < MaxChildren /\ InsertChild(base, "challenger")
     ELSE InsertChild(base, "revision")
  /\ UNCHANGED <<issue, files, worker>>

Retry(base) ==
  /\ Happens("retry")
  /\ row[base].status = "failed"
  /\ Leaf < MaxAttempts
  /\ InsertChild(base, "revision")
  /\ UNCHANGED <<issue, files, worker>>

AcceptRequest(t) ==
  /\ Happens("accept")
  /\ row[t].status = "completed"
  /\ Accept(t)
  /\ UNCHANGED <<parent, kind, issue, files, worker>>

Cancel(t) ==
  /\ Happens("cancel")
  /\ row' = [row EXCEPT ![t].status = "cancelled"]
  /\ UNCHANGED <<parent, kind, issue, files, worker>>

\* The process dies and is started again.
Crash(p) ==
  /\ Happens("crash")
  /\ job[p] # None
  /\ Goto(p, "idle")
  /\ role' = [role EXCEPT ![p] = "none"]
  /\ job' = [job EXCEPT ![p] = None]
  /\ copy' = [copy EXCEPT ![p] = BlankRow]
  /\ UNCHANGED <<rows, issue, files>>

RequeueRoot(t) ==
  /\ t = Root
  /\ row[t].status = "running" /\ ~ Claimed(t)
  /\ row' = [row EXCEPT ![t].status = "queued"]
  /\ UNCHANGED <<parent, kind, issue, files, worker, events>>

\* requeue_stale_tasks, once the lease of the dead worker has expired.
Requeue(t) ==
  /\ row[t].status = "running" /\ ~ Claimed(t)
  /\ row' = [row EXCEPT ![t].status = "queued"]
  /\ UNCHANGED <<parent, kind, issue, files, worker, events>>

LoseVideo(t) ==
  /\ Happens("loss")
  /\ t \in video
  /\ video' = video \ {t}
  /\ UNCHANGED <<rows, issue, scored, worker>>

-----------------------------------------------------------------------------
Run(p) == Begin(p) \/ ClaimNothing(p) \/ Complete(p) \/ Fail(p)

Recover(p) ==
  \/ Repair(p) \/ CreateRepair(p) \/ Degrade(p) \/ CreateDegraded(p)
  \/ InsertRecovery(p) \/ Emergency(p) \/ GiveUp(p) \/ FailRoot(p)

Settle(p) == SyncRoot(p) \/ Challenge(p) \/ InsertChallenger(p) \/ Promote(p)

Watch(p) == Sweep(p) \/ FailLost(p) \/ Kill(p) \/ KillRoot(p)

Step(p) == Run(p) \/ Recover(p) \/ Settle(p) \/ Watch(p)

Api == \E t \in Lineage : Revise(t) \/ Retry(t) \/ AcceptRequest(t) \/ Cancel(t)

Next ==
  \/ \E p \in Proc : Step(p) \/ Progress(p) \/ FailLate(p) \/ Crash(p)
  \/ \E t \in Task : Requeue(t) \/ LoseVideo(t)
  \/ Api

Spec == Init /\ [][Next]_vars

\* A worker process keeps calling run_once, every run ends (its stages have
\* timeouts) and leases expire.  Requests, crashes and losses are not forced.
Fairness == /\ \A p \in Proc : WF_vars(Step(p))
            /\ \A t \in Task : WF_vars(Requeue(t))

FairSpec == Spec /\ Fairness

-----------------------------------------------------------------------------
(* Properties *)

Places == {"idle", "claim", "running", "sync", "challenge", "insert_challenger",
           "promote", "repair", "create_repair", "insert_repair", "degrade",
           "create_degraded", "insert_degraded", "emergency", "sync_guaranteed",
           "fail_root", "sync_descendant", "lost", "kill", "kill_root"}

\* Every variable keeps to its set, the lineage is a segment of the tasks that
\* begins with the root, and a process has a job exactly when it has a role.
TypeOK ==
  /\ row \in [Task -> Row]
  /\ parent \in [Task -> Task \cup {None}]
  /\ kind \in [Task -> Kind]
  /\ issue \in [Task -> Issue]
  /\ video \subseteq Task /\ scored \subseteq Task
  /\ pc \in [Proc -> Places]
  /\ role \in [Proc -> {"none", "engine", "watchdog"}]
  /\ job \in [Proc -> Task \cup {None}]
  /\ copy \in [Proc -> Row]
  /\ events \in 0..MaxEvents
  /\ Lineage = 1..Leaf /\ Root \in Lineage
  /\ \A p \in Proc : job[p] = None <=> role[p] = "none"

\* A challenger becomes the resolution of its root only by an acceptance, which
\* marks it as the best version in the same step.
ChallengerNeedsAcceptance ==
  [][\A c \in Task :
       /\ kind[c] = "challenger"
       /\ row'[Root].resolved = c
       /\ row[Root].resolved # c
       => row'[c].best]_vars

\* At most one version of a lineage is marked as the best.
OneBest == \A t, u \in Task : row[t].best /\ row[u].best => t = u

\* Engine and watchdog may repair the same failure at once, but the repairs
\* exceed their budget by no more than the processes that were under way.
RepairBudget ==
  Cardinality({t \in Task : kind[t] = "repair"})
    <= MaxRepairs + Cardinality(Proc) - 1

\* At most one degraded attempt per process is made for a root.
DegradedBudget ==
  Cardinality({t \in Task : kind[t] = "degraded"}) <= Cardinality(Proc)

\* A request does not stay pending: it is delivered or given up, unless its
\* last task is cancelled.
RequestSettles ==
  row[Root].delivery = "pending" ~>
    (row[Root].delivery # "pending" \/ row[Leaf].status = "cancelled")

\* A delivered root points to a task that has a video, or to one that was
\* accepted by hand.
ResolutionIsReal ==
  row[Root].delivery = "delivered" =>
    \/ row[Root].resolved \in video
    \/ row[Root].resolved \in Task /\ row[row[Root].resolved].best

\* The rows of a lineage, seen by whoever waits for the answer.
Request == INSTANCE RequestDelivery WITH
  Version     <- Task,
  versions    <- Lineage,
  challengers <- {t \in Task : kind[t] = "challenger"},
  finished    <- video,
  chosen      <- {t \in Task : row[t].best},
  answer      <- IF row[Root].delivery = "delivered" THEN row[Root].resolved ELSE None

\* Engines, watchdogs and requests together keep what RequestDelivery promises,
\* as long as no video is lost: the answer is a finished version, and a
\* challenger answers only if it was chosen.
RequestSpec == Request!Spec

-----------------------------------------------------------------------------
(* What documents of the repository say, and the code does not keep *)

\* "resolved_task_id: task id that produced the final artifact": the task that
\* resolves a delivered root has had a video.
ResolutionHasVideo ==
  row[Root].delivery = "delivered" => row[Root].resolved \in video

IsBelow(t, c) == parent[t] = c \/ \E u \in Task : parent[t] = u /\ parent[u] = c

\* "while preserving incumbent selection in all other cases": what a challenger
\* or its repairs do does not replace the delivered version unless accepted.
IncumbentIsPreserved ==
  [][\A t, c \in Task :
       /\ kind[c] = "challenger" /\ (t = c \/ IsBelow(t, c))
       /\ row[Root].delivery = "delivered"
       /\ row'[Root].resolved = t /\ row[Root].resolved # t
       => row'[t].best]_vars
=============================================================================
