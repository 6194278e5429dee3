----------------------------- MODULE TaskQueue -----------------------------
(***************************************************************************)
(* The task queue of easy-manim: API processes that admit, branch and      *)
(* cancel tasks, and worker processes that requeue stale tasks, claim the  *)
(* oldest one under a lease and run it to an outcome.  Both sides share    *)
(* one SQLite file and nothing else.                                       *)
(*                                                                         *)
(* Every method of SQLiteTaskStore opens its own connection, so a step of  *)
(* this specification is one transaction.  What a process learnt in an     *)
(* earlier transaction is local to it (scan, job, pc) and may be stale     *)
(* when it is written back: update_task replaces the whole row.            *)
(***************************************************************************)
EXTENDS Naturals, FiniteSets

CONSTANTS
  Proc,          \* processes that run a WorkerLoop, embedded or standalone
  WorkerId,      \* worker_id of each process; several may share "worker-1"
  Client,        \* API requests that may be in create_video_task at once
  Task,          \* created_at stamps, hence naturals: a task is its stamp
  NoTask,
  NoLease,
  MaxQueued,     \* settings.max_queued_tasks
  MaxCrashes,    \* bound on the crashes and aborted runs of a behaviour
  TimelyLeases   \* TRUE: a run ends before its lease does

ASSUME TaskAssumption == Task \subseteq Nat /\ NoTask \notin Task
ASSUME BoundAssumption ==
  /\ IsFiniteSet(Client)
  /\ MaxQueued \in Nat \ {0}
  /\ MaxCrashes \in Nat
  /\ TimelyLeases \in BOOLEAN

VARIABLES
  status,      \* video_tasks.status, "absent" before the row exists
  root,        \* root_task_id
  kind,        \* branch_kind, as far as the sync of the root tells it apart
  lease,       \* the task_lease row of each task, or NoLease
  pc,          \* where each process is in run_once
  job,         \* the task the process has claimed
  scan,        \* rows of requeue_stale_tasks still to be written back
  admission,   \* where each create_video_task request is
  crashes      \* crashes and aborted runs so far

rows == <<status, root, kind>>
vars == <<rows, lease, pc, job, scan, admission, crashes>>

-----------------------------------------------------------------------------
(* Vocabulary *)

Active    == {"queued", "running"}            \* counted against the capacity
Finished  == {"completed", "failed"}          \* outcomes written by a worker
Terminal  == Finished \cup {"cancelled"}
Status    == {"absent"} \cup Active \cup Terminal
Kind      == {"root", "branch", "challenger"}
Age       == {"live", "expired", "stale"}     \* stale: older than the grace

\* worker_id, and lease_expires_at compared with the clock.
Lease == [worker : {WorkerId[p] : p \in Proc}, age : Age]
ASSUME LeaseAssumption == NoLease \notin Lease

\* Places inside run_once at which the process holds a claimed task.
Working == {"renew", "load", "start", "running", "failing",
            "sync", "challenge", "sync_emergency", "release"}
Places  == {"down", "startup", "idle", "requeue"} \cup Working

Absent      == {t \in Task : status[t] = "absent"}
ActiveTasks == {t \in Task : status[t] \in Active}
HeldBy(t, w) == lease[t] # NoLease /\ lease[t].worker = w

(* Faulty variants stand before the definition they vary; the runs are      *)
(* repeated with each of them to see that the properties notice.            *)

AllRunningRows     == {t \in Task : status[t] = "running"}
LeaselessStaleRows == {t \in AllRunningRows : lease[t] = NoLease}

\* The rows requeue_stale_tasks selects.
StaleRows == {t \in Task : /\ status[t] = "running"
                           /\ lease[t] = NoLease \/ lease[t].age = "stale"}

AllQueuedRows  == {t \in Task : status[t] = "queued"}
LeaselessRows  == {t \in AllQueuedRows : lease[t] = NoLease}

\* The rows claim_next_task may take.
Claimable == {t \in Task : /\ status[t] = "queued"
                           /\ lease[t] = NoLease \/ lease[t].age # "live"}

-----------------------------------------------------------------------------
Init ==
  /\ status = [t \in Task |-> "absent"]
  /\ root = [t \in Task |-> t]
  /\ kind = [t \in Task |-> "root"]
  /\ lease = [t \in Task |-> NoLease]
  /\ pc = [p \in Proc |-> "down"]
  /\ job = [p \in Proc |-> NoTask]
  /\ scan = [p \in Proc |-> {}]
  /\ admission = [c \in Client |-> "none"]
  /\ crashes = 0

-----------------------------------------------------------------------------
(* API side.  The capacity is read in one transaction and the row inserted *)
(* in a later one.                                                         *)

AdmitOneTooMany(c) ==
  /\ admission[c] = "none"
  /\ Cardinality(ActiveTasks) <= MaxQueued
  /\ admission' = [admission EXCEPT ![c] = "admitted"]
  /\ UNCHANGED <<rows, lease, pc, job, scan, crashes>>

Admit(c) ==
  /\ admission[c] = "none"
  /\ Cardinality(ActiveTasks) < MaxQueued
  /\ admission' = [admission EXCEPT ![c] = "admitted"]
  /\ UNCHANGED <<rows, lease, pc, job, scan, crashes>>

Submit(c, t) ==
  /\ admission[c] = "admitted"
  /\ status[t] = "absent"
  /\ admission' = [admission EXCEPT ![c] = "none"]
  /\ status' = [status EXCEPT ![t] = "queued"]
  /\ UNCHANGED <<root, kind, lease, pc, job, scan, crashes>>

\* A child row: the root of the base, never checked against the capacity.
InsertChild(base, child, k) ==
  /\ status[child] = "absent"
  /\ status' = [status EXCEPT ![child] = "queued"]
  /\ root' = [root EXCEPT ![child] = root[base]]
  /\ kind' = [kind EXCEPT ![child] = k]

\* Revision and retry: a completed base gets a challenger beside it.
Branch(base, child) ==
  /\ status[base] # "absent"
  /\ InsertChild(base, child,
                 IF status[base] = "completed" THEN "challenger" ELSE "branch")
  /\ UNCHANGED <<lease, pc, job, scan, admission, crashes>>

\* cancel_video_task asks nothing about the status it replaces.
Cancel(t) ==
  /\ status[t] # "absent"
  /\ status' = [status EXCEPT ![t] = "cancelled"]
  /\ UNCHANGED <<root, kind, lease, pc, job, scan, admission, crashes>>

-----------------------------------------------------------------------------
(* Worker side *)

Goto(p, place) == pc' = [pc EXCEPT ![p] = place]
Write(t, s)    == status' = [status EXCEPT ![t] = s]

\* create_app_context runs reconcile_startup before the first run_once.
Restart(p) ==
  /\ pc[p] = "down"
  /\ scan' = [scan EXCEPT ![p] = StaleRows]
  /\ Goto(p, "startup")
  /\ UNCHANGED <<rows, lease, job, admission, crashes>>

\* First transaction of requeue_stale_tasks: the rows are read.
RequeueScan(p) ==
  /\ pc[p] = "idle"
  /\ scan' = [scan EXCEPT ![p] = StaleRows]
  /\ Goto(p, "requeue")
  /\ UNCHANGED <<rows, lease, job, admission, crashes>>

\* One later transaction per row: it is written back with status QUEUED.
RequeueWrite(p) ==
  \E t \in scan[p] :
    /\ Write(t, "queued")
    /\ scan' = [scan EXCEPT ![p] = @ \ {t}]
    /\ UNCHANGED <<root, kind, lease, pc, job, admission, crashes>>

Started(p) ==
  /\ pc[p] = "startup"
  /\ scan[p] = {}
  /\ Goto(p, "idle")
  /\ UNCHANGED <<rows, lease, job, scan, admission, crashes>>

\* claim_next_task, in one BEGIN IMMEDIATE transaction.
Claim(p) ==
  /\ pc[p] = "requeue"
  /\ scan[p] = {}
  /\ \E t \in Claimable :
       /\ \A u \in Claimable : t <= u
       /\ lease' = [lease EXCEPT ![t] = [worker |-> WorkerId[p], age |-> "live"]]
       /\ job' = [job EXCEPT ![p] = t]
  /\ Goto(p, "renew")
  /\ UNCHANGED <<rows, scan, admission, crashes>>

ClaimNothing(p) ==
  /\ pc[p] = "requeue"
  /\ scan[p] = {}
  /\ Claimable = {}
  /\ Goto(p, "idle")
  /\ UNCHANGED <<rows, lease, job, scan, admission, crashes>>

\* The only renewal of a run; it matches the worker_id, not the process.
Renew(p) ==
  /\ pc[p] = "renew"
  /\ lease' = IF HeldBy(job[p], WorkerId[p])
              THEN [lease EXCEPT ![job[p]].age = "live"]
              ELSE lease
  /\ Goto(p, "load")
  /\ UNCHANGED <<rows, job, scan, admission, crashes>>

LoadWithoutRelease(p) ==
  /\ pc[p] = "load"
  /\ Goto(p, IF status[job[p]] = "cancelled" THEN "idle" ELSE "start")
  /\ UNCHANGED <<rows, lease, job, scan, admission, crashes>>

\* run_task reads the row; a cancelled task is skipped.
Load(p) ==
  /\ pc[p] = "load"
  /\ Goto(p, IF status[job[p]] = "cancelled" THEN "release" ELSE "start")
  /\ UNCHANGED <<rows, lease, job, scan, admission, crashes>>

\* The first write of the run, from the copy Load read.
Start(p) ==
  /\ pc[p] = "start"
  /\ Write(job[p], "running")
  /\ Goto(p, "running")
  /\ UNCHANGED <<root, kind, lease, job, scan, admission, crashes>>

\* Each later _transition writes the same copy with its next phase.
Progress(p) ==
  /\ pc[p] = "running"
  /\ Write(job[p], "running")
  /\ UNCHANGED <<root, kind, lease, pc, job, scan, admission, crashes>>

Complete(p) ==
  /\ pc[p] = "running"
  /\ Write(job[p], "completed")
  /\ Goto(p, "sync")
  /\ UNCHANGED <<root, kind, lease, job, scan, admission, crashes>>

\* _fail_task: a failed check, or any exception of the run.  The completion is
\* inside the same try block, so what raises after it fails the task as well.
Fail(p) ==
  /\ pc[p] \in {"running", "sync", "challenge"}
  /\ Write(job[p], "failed")
  /\ Goto(p, "failing")
  /\ UNCHANGED <<root, kind, lease, job, scan, admission, crashes>>

\* What _fail_task does about the delivery: a repair or degraded child ...
ScheduleRecovery(p) ==
  /\ pc[p] = "failing"
  /\ status[job[p]] = "failed"    \* create_auto_repair_task reads it again
  /\ \E child \in Absent : InsertChild(job[p], child, "branch")
  /\ Goto(p, "release")
  /\ UNCHANGED <<lease, job, scan, admission, crashes>>

\* ... or the emergency video ...
DeliverEmergency(p) ==
  /\ pc[p] = "failing"
  /\ Write(job[p], "completed")
  /\ Goto(p, "sync_emergency")
  /\ UNCHANGED <<root, kind, lease, job, scan, admission, crashes>>

\* ... or a failed delivery, which writes the failed row once more.
GiveUp(p) ==
  /\ pc[p] = "failing"
  /\ Write(job[p], "failed")
  /\ Goto(p, "release")
  /\ UNCHANGED <<root, kind, lease, job, scan, admission, crashes>>

\* _sync_root_delivery_resolution: the root is completed with its branch,
\* unless the branch is a challenger.
SyncRoot(p) ==
  /\ pc[p] \in {"sync", "sync_emergency"}
  /\ IF kind[job[p]] = "challenger"
     THEN UNCHANGED status
     ELSE Write(root[job[p]], "completed")
  /\ Goto(p, IF pc[p] = "sync" THEN "challenge" ELSE "release")
  /\ UNCHANGED <<root, kind, lease, job, scan, admission, crashes>>

\* A delivery below the quality gate may get a challenger.
Challenge(p) ==
  /\ pc[p] = "challenge"
  /\ \/ \E child \in Absent : InsertChild(job[p], child, "challenger")
     \/ UNCHANGED rows
  /\ Goto(p, "release")
  /\ UNCHANGED <<lease, job, scan, admission, crashes>>

DropLeasesOfWorker(p) ==
  lease' = [t \in Task |-> IF HeldBy(t, WorkerId[p]) THEN NoLease ELSE lease[t]]

\* release_lease deletes the row of this task and this worker_id, if any.
DropLease(p) ==
  lease' = IF HeldBy(job[p], WorkerId[p])
           THEN [lease EXCEPT ![job[p]] = NoLease]
           ELSE lease

Release(p) ==
  /\ pc[p] = "release"
  /\ DropLease(p)
  /\ job' = [job EXCEPT ![p] = NoTask]
  /\ Goto(p, "idle")
  /\ UNCHANGED <<rows, scan, admission, crashes>>

-----------------------------------------------------------------------------
(* Failures and time *)

\* An exception escapes run_task (those raised in _fail_task do): the finally
\* clause releases the lease and the loop of the process ends.
Abort(p) ==
  /\ pc[p] \in Working \ {"release"}
  /\ crashes < MaxCrashes
  /\ DropLease(p)
  /\ job' = [job EXCEPT ![p] = NoTask]
  /\ Goto(p, "down")
  /\ crashes' = crashes + 1
  /\ UNCHANGED <<rows, scan, admission>>

\* The process is killed: the lease stays until it expires.
Crash(p) ==
  /\ pc[p] # "down"
  /\ crashes < MaxCrashes
  /\ job' = [job EXCEPT ![p] = NoTask]
  /\ scan' = [scan EXCEPT ![p] = {}]
  /\ Goto(p, "down")
  /\ crashes' = crashes + 1
  /\ UNCHANGED <<rows, lease, admission>>

\* The clock passes lease_expires_at, then the recovery grace.  Under
\* TimelyLeases that happens only once the run has ended.
AgeLease(t) ==
  /\ lease[t] # NoLease
  /\ lease[t].age # "stale"
  /\ TimelyLeases => \A p \in Proc : job[p] # t
  /\ lease' = [lease EXCEPT ![t].age = IF @ = "live" THEN "expired" ELSE "stale"]
  /\ UNCHANGED <<rows, pc, job, scan, admission, crashes>>

-----------------------------------------------------------------------------
Api ==
  \/ \E c \in Client : Admit(c)
  \/ \E c \in Client, t \in Task : Submit(c, t)
  \/ \E base, child \in Task : Branch(base, child)
  \/ \E t \in Task : Cancel(t)

Polling(p) ==
  Restart(p) \/ RequeueScan(p) \/ RequeueWrite(p) \/ Started(p)
    \/ Claim(p) \/ ClaimNothing(p)

Settling(p) ==
  \/ ScheduleRecovery(p) \/ DeliverEmergency(p) \/ GiveUp(p)
  \/ SyncRoot(p) \/ Challenge(p) \/ Release(p)

Running(p) ==
  Renew(p) \/ Load(p) \/ Start(p) \/ Complete(p) \/ Fail(p) \/ Settling(p)

Next ==
  \/ Api
  \/ \E p \in Proc : \/ Polling(p) \/ Running(p) \/ Progress(p)
                     \/ Abort(p) \/ Crash(p)
  \/ \E t \in Task : AgeLease(t)

Spec == Init /\ [][Next]_vars

\* A started process keeps calling run_once, a supervisor restarts a dead
\* one, every run reaches an outcome (each stage has a timeout) and the clock
\* advances.  API requests, crashes and further transitions are not forced.
Fairness ==
  /\ \A p \in Proc : WF_vars(Polling(p)) /\ WF_vars(Running(p))
  /\ \A t \in Task : WF_vars(AgeLease(t))

FairSpec == Spec /\ Fairness
-----------------------------------------------------------------------------
(* Properties *)

\* Every variable keeps to its set, and a process has a job exactly while it
\* is at a place of run_once that works on one.
TypeOK ==
  /\ status \in [Task -> Status]
  /\ root \in [Task -> Task]
  /\ kind \in [Task -> Kind]
  /\ lease \in [Task -> Lease \cup {NoLease}]
  /\ pc \in [Proc -> Places]
  /\ job \in [Proc -> Task \cup {NoTask}]
  /\ scan \in [Proc -> SUBSET Task]
  /\ admission \in [Client -> {"none", "admitted"}]
  /\ crashes \in 0..MaxCrashes
  /\ \A p \in Proc : job[p] = NoTask <=> pc[p] \notin Working

\* No task is in the hands of two processes at once, whatever worker_id they
\* use: claim_next_task is the only lock between the workers.
ExclusiveRun ==
  \A p, q \in Proc : job[p] = job[q] /\ job[p] # NoTask => p = q

\* A process that works on a task holds a live lease on it, so that neither a
\* claim nor a requeue of another worker may select the task, and its release
\* deletes its own lease and no other.
LeaseCoversRun ==
  \A p \in Proc : job[p] # NoTask =>
    /\ HeldBy(job[p], WorkerId[p])
    /\ lease[job[p]].age = "live"

\* Another task whose completion completes t as its root.
HasSyncingBranch(t) ==
  \E u \in Task \ {t} : root[u] = t /\ kind[u] # "challenger"

\* Without crashes an outcome is final for the workers: a completed or failed
\* task never becomes queued or running again.  A root with branches is left
\* out, for a branch may complete it while it is still being run itself.
OutcomeIsFinal ==
  [][crashes' = 0 =>
       \A t \in Task : status[t] \in Finished /\ ~ HasSyncingBranch(t)
                         => status'[t] \notin Active]_vars

\* Without crashes, after which a requeue may bring finished tasks back,
\* create_video_task exceeds max_queued_tasks by no more than the requests that
\* were admitted together.
AdmissionOvershoot ==
  crashes = 0 =>
  Cardinality({t \in Task : status[t] = "queued" /\ root[t] = t})
    + Cardinality({c \in Client : admission[c] = "admitted"})
    <= MaxQueued + Cardinality(Client) - 1

\* Every queued task reaches an outcome or is cancelled, crashes of its
\* workers notwithstanding.
QueueDrains ==
  \A t \in Task : status[t] = "queued" ~> status[t] \in Terminal

\* The row of a task whose worker died does not stay running.
CrashedRunIsRecovered ==
  \A t \in Task : (status[t] = "running" /\ \A p \in Proc : job[p] # t)
                    ~> status[t] # "running"

\* The workers implement exclusive ownership of the tasks: a task is owned by
\* the processes that have it as their job.
Ownership == INSTANCE WorkOwnership WITH
  Worker <- Proc,
  Item   <- Task,
  owners <- [t \in Task |-> {p \in Proc : job[p] = t}]

OwnershipSpec == Ownership!Spec

-----------------------------------------------------------------------------
(* What documents of the repository say, and the code does not keep *)

\* "Confirm cancelled queued tasks are not processed by the worker".  A worker
\* at "start" has written nothing yet: the task it is about to run is queued.
CancelledQueuedNotProcessed ==
  [][\A p \in Proc : pc[p] = "start" /\ pc'[p] = "running"
                       => status[job[p]] # "cancelled"]_vars

\* "test_worker_renews_lease_for_long_running_task": while a worker runs a task
\* no other worker claims it.
LongRunKeepsItsTask ==
  [][\A p, q \in Proc : pc[p] = "running" /\ p # q /\ job'[q] = job[p]
                          => job[q] = job[p]]_vars
=============================================================================
