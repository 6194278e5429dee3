-------------------------- MODULE TaskQueueProofs --------------------------
(***************************************************************************)
(* Proofs about the task queue, for every number of processes, tasks and   *)
(* clients and every assignment of worker ids.                             *)
(***************************************************************************)
EXTENDS TaskQueue, FiniteSetTheorems, TLAPS

-----------------------------------------------------------------------------
(* Type correctness, one lemma per kind of step. *)

LEMMA InitTypeOK == Init => TypeOK
  BY TaskAssumption, BoundAssumption
  DEF Init, TypeOK, Status, Kind, Places, Active, Finished, Terminal, Working

LEMMA ApiTypeOK == TypeOK /\ Api => TypeOK'
<1> SUFFICES ASSUME TypeOK, Api PROVE TypeOK'
  OBVIOUS
<1> USE DEF TypeOK, rows, Status, Active, Finished, Terminal, Kind
<1>1. CASE \E c \in Client : Admit(c)
  BY <1>1 DEF Admit
<1>2. CASE \E c \in Client, t \in Task : Submit(c, t)
  BY <1>2 DEF Submit
<1>3. CASE \E base, child \in Task : Branch(base, child)
  BY <1>3 DEF Branch, InsertChild
<1>4. CASE \E t \in Task : Cancel(t)
  BY <1>4 DEF Cancel
<1>5. QED
  BY <1>1, <1>2, <1>3, <1>4 DEF Api

LEMMA PollingTypeOK ==
  ASSUME TypeOK, NEW p \in Proc, Polling(p) PROVE TypeOK'
<1> USE DEF TypeOK, rows, Goto, Write, Places, Working
<1>1. CASE Restart(p)
  BY <1>1 DEF Restart, StaleRows
<1>2. CASE RequeueScan(p)
  BY <1>2 DEF RequeueScan, StaleRows
<1>3. CASE RequeueWrite(p)
  BY <1>3 DEF RequeueWrite, Status, Active
<1>4. CASE Started(p)
  BY <1>4 DEF Started
<1>5. CASE Claim(p)
  BY <1>5, TaskAssumption DEF Claim, Claimable, Lease, Age
<1>6. CASE ClaimNothing(p)
  BY <1>6 DEF ClaimNothing
<1>7. QED
  BY <1>1, <1>2, <1>3, <1>4, <1>5, <1>6 DEF Polling

LEMMA RunningTypeOK ==
  ASSUME TypeOK, NEW p \in Proc, Running(p) \/ Progress(p) PROVE TypeOK'
<1> USE DEF TypeOK, rows, Goto, Write, Places, Working
<1>1. CASE Renew(p)
  BY <1>1, LeaseAssumption DEF Renew, HeldBy, Lease, Age
<1>2. CASE Load(p)
  BY <1>2 DEF Load
<1>3. CASE Start(p) \/ Progress(p) \/ Complete(p) \/ Fail(p)
  BY <1>3 DEF Start, Progress, Complete, Fail, Status, Active, Terminal, Finished
<1>4. CASE ScheduleRecovery(p)
  BY <1>4 DEF ScheduleRecovery, InsertChild, Absent, Status, Active, Kind
<1>5. CASE DeliverEmergency(p) \/ GiveUp(p)
  BY <1>5 DEF DeliverEmergency, GiveUp, Status, Terminal, Finished
<1>6. CASE SyncRoot(p)
  BY <1>6 DEF SyncRoot, Status, Terminal, Finished
<1>7. CASE Challenge(p)
  BY <1>7 DEF Challenge, InsertChild, Absent, Status, Active, Kind
<1>8. CASE Release(p)
  BY <1>8 DEF Release, DropLease
<1>9. QED
  BY <1>1, <1>2, <1>3, <1>4, <1>5, <1>6, <1>7, <1>8 DEF Running, Settling

LEMMA FailureTypeOK ==
  ASSUME TypeOK, NEW p \in Proc, Abort(p) \/ Crash(p) PROVE TypeOK'
<1> USE BoundAssumption DEF TypeOK, rows, Goto, Places, Working
<1>1. CASE Abort(p)
  BY <1>1 DEF Abort, DropLease
<1>2. CASE Crash(p)
  BY <1>2 DEF Crash
<1>3. QED
  BY <1>1, <1>2

LEMMA AgeTypeOK ==
  ASSUME TypeOK, NEW t \in Task, AgeLease(t) PROVE TypeOK'
BY LeaseAssumption DEF AgeLease, TypeOK, rows, Lease, Age

\* Every variable keeps to its set and a process has a job exactly while it is
\* at a place of run_once that works on one.
THEOREM TypeCorrect == Spec => []TypeOK
<1>1. TypeOK /\ [Next]_vars => TypeOK'
  <2> SUFFICES ASSUME TypeOK, [Next]_vars PROVE TypeOK'
    OBVIOUS
  <2>1. CASE UNCHANGED vars
    BY <2>1 DEF vars, rows, TypeOK
  <2>2. CASE Next
    BY <2>2, ApiTypeOK, PollingTypeOK, RunningTypeOK, FailureTypeOK, AgeTypeOK
    DEF Next
  <2>3. QED
    BY <2>1, <2>2
<1>2. QED
  BY InitTypeOK, <1>1, PTL DEF Spec

-----------------------------------------------------------------------------
(* Exclusive ownership.  Mutual exclusion alone is not inductive: that the  *)
(* claim of a second worker fails is known only from the live lease of the  *)
(* first, so both are carried together.                                     *)

LeaseInv == TypeOK /\ LeaseCoversRun /\ ExclusiveRun

\* Steps that touch neither a job nor a lease.
LEMMA UntouchedLeases ==
  ASSUME LeaseCoversRun, ExclusiveRun, UNCHANGED <<lease, job>>
  PROVE  LeaseCoversRun' /\ ExclusiveRun'
BY DEF LeaseCoversRun, ExclusiveRun, HeldBy

LEMMA ClaimKeepsLeases ==
  ASSUME LeaseInv, NEW p \in Proc, Claim(p)
  PROVE  LeaseCoversRun' /\ ExclusiveRun'
<1> USE DEF LeaseInv, TypeOK
<1>1. PICK t \in Claimable :
        /\ lease' = [lease EXCEPT ![t] = [worker |-> WorkerId[p], age |-> "live"]]
        /\ job' = [job EXCEPT ![p] = t]
  BY DEF Claim
<1>2. t \in Task /\ t # NoTask
  BY TaskAssumption DEF Claimable
<1>3. [worker |-> WorkerId[p], age |-> "live"] # NoLease
  BY LeaseAssumption DEF Lease, Age
<1>4. \A q \in Proc : job[q] # t
  \* a job has a live lease, a claimable task has not
  BY <1>2 DEF Claimable, LeaseCoversRun, HeldBy
<1>5. \A q \in Proc \ {p} : job'[q] = job[q] /\ lease'[job[q]] = lease[job[q]]
  BY <1>1, <1>2, <1>4
<1>6. job'[p] = t /\ lease'[t] = [worker |-> WorkerId[p], age |-> "live"]
  BY <1>1, <1>2
<1>7. LeaseCoversRun'
  BY <1>3, <1>5, <1>6 DEF LeaseCoversRun, HeldBy
<1>8. ExclusiveRun'
  BY <1>4, <1>5, <1>6 DEF ExclusiveRun
<1>9. QED
  BY <1>7, <1>8

LEMMA RenewKeepsLeases ==
  ASSUME LeaseInv, NEW p \in Proc, Renew(p)
  PROVE  LeaseCoversRun' /\ ExclusiveRun'
<1>1. job[p] \in Task /\ lease[job[p]] \in Lease /\ lease[job[p]].age = "live"
  BY DEF LeaseInv, TypeOK, LeaseCoversRun, HeldBy, Renew, Working
<1>2. lease' = lease
  BY <1>1 DEF Renew, LeaseInv, TypeOK, Lease
<1>3. QED
  BY <1>2, UntouchedLeases DEF Renew, LeaseInv

\* Release and abort delete the lease of their own job, which no other process
\* has; a crash deletes nothing.
LEMMA DropKeepsLeases ==
  ASSUME LeaseInv, NEW p \in Proc, Release(p) \/ Abort(p) \/ Crash(p)
  PROVE  LeaseCoversRun' /\ ExclusiveRun'
<1> USE DEF LeaseInv, TypeOK
<1>1. job' = [job EXCEPT ![p] = NoTask]
  BY DEF Release, Abort, Crash
<1>2. \A q \in Proc \ {p} : job'[q] = job[q]
                            /\ (job[q] # NoTask => lease'[job[q]] = lease[job[q]])
  BY <1>1 DEF ExclusiveRun, Release, Abort, Crash, DropLease
<1>3. QED
  BY <1>1, <1>2 DEF LeaseCoversRun, ExclusiveRun, HeldBy

LEMMA AgeKeepsLeases ==
  ASSUME TimelyLeases, LeaseInv, NEW t \in Task, AgeLease(t)
  PROVE  LeaseCoversRun' /\ ExclusiveRun'
<1>1. \A p \in Proc : job[p] # t
  BY DEF AgeLease
<1>2. job' = job /\ \A u \in Task \ {t} : lease'[u] = lease[u]
  BY DEF AgeLease, LeaseInv, TypeOK
<1>3. QED
  BY <1>1, <1>2 DEF LeaseInv, TypeOK, LeaseCoversRun, ExclusiveRun, HeldBy

LEMMA LeaseStep ==
  ASSUME TimelyLeases, LeaseInv, [Next]_vars
  PROVE  LeaseCoversRun' /\ ExclusiveRun'
<1>1. CASE UNCHANGED vars
  BY <1>1, UntouchedLeases DEF vars, LeaseInv
<1>2. CASE Api
  BY <1>2, UntouchedLeases DEF Api, Admit, Submit, Branch, Cancel, LeaseInv
<1>3. ASSUME NEW p \in Proc, Polling(p) PROVE LeaseCoversRun' /\ ExclusiveRun'
  BY <1>3, UntouchedLeases, ClaimKeepsLeases
  DEF Polling, Restart, RequeueScan, RequeueWrite, Started, ClaimNothing, LeaseInv
<1>4. ASSUME NEW p \in Proc, Running(p) \/ Progress(p)
      PROVE  LeaseCoversRun' /\ ExclusiveRun'
  BY <1>4, UntouchedLeases, RenewKeepsLeases, DropKeepsLeases
  DEF Running, Settling, Load, Start, Progress, Complete, Fail, ScheduleRecovery,
      DeliverEmergency, GiveUp, SyncRoot, Challenge, LeaseInv
<1>5. QED
  BY <1>1, <1>2, <1>3, <1>4, DropKeepsLeases, AgeKeepsLeases DEF Next

\* If runs end within their leases, every behaviour keeps a live lease over
\* every run and never gives a task to two processes, even when processes share
\* a worker_id, crash, or rewrite rows they read long ago.
THEOREM LeasesExclude ==
  ASSUME TimelyLeases
  PROVE  Spec => [](LeaseCoversRun /\ ExclusiveRun)
<1>1. Init => LeaseInv
  BY InitTypeOK DEF Init, LeaseInv, LeaseCoversRun, ExclusiveRun
<1>2. LeaseInv /\ TypeOK' /\ [Next]_vars => LeaseInv'
  BY LeaseStep DEF LeaseInv
<1>3. LeaseInv => LeaseCoversRun /\ ExclusiveRun
  BY DEF LeaseInv
<1>4. QED
  BY <1>1, <1>2, <1>3, TypeCorrect, PTL DEF Spec

\* No two worker processes run one task, as long as no lease expires under a live run.
THEOREM RunsExclude ==
  ASSUME TimelyLeases
  PROVE  Spec => []ExclusiveRun
BY LeasesExclude, PTL

-----------------------------------------------------------------------------
(* The refinement: a claim takes the task for its process, the end of a run *)
(* gives it back, and every other step leaves the owners alone.             *)

Owners == [t \in Task |-> {p \in Proc : job[p] = t}]

LEMMA SameJobsSameOwners == UNCHANGED job => UNCHANGED Owners
  BY DEF Owners

LEMMA ClaimTakes ==
  ASSUME LeaseInv, NEW p \in Proc, Claim(p)
  PROVE  \E t \in Task : Ownership!Take(p, t)
<1> USE DEF LeaseInv, TypeOK
<1>1. PICK t \in Claimable : job' = [job EXCEPT ![p] = t]
  BY DEF Claim
<1>2. t \in Task /\ t # NoTask
  BY TaskAssumption DEF Claimable
<1>3. \A q \in Proc : job[q] # t
  BY <1>1, <1>2 DEF Claimable, LeaseCoversRun, HeldBy
<1>4. job[p] = NoTask
  BY DEF Claim, Working
<1>5. Owners[t] = {} /\ \A u \in Task : p \notin Owners[u]
  BY <1>2, <1>3, <1>4, TaskAssumption DEF Owners
<1>6. Owners' = [Owners EXCEPT ![t] = {p}]
  <2>1. Owners'[t] = {p}
    BY <1>1, <1>2, <1>3 DEF Owners
  <2>2. ASSUME NEW u \in Task \ {t} PROVE Owners'[u] = Owners[u]
    BY <1>1, <1>4, <2>2, TaskAssumption DEF Owners
  <2>3. QED
    BY <2>1, <2>2 DEF Owners
<1>7. QED
  BY <1>2, <1>5, <1>6 DEF Ownership!Take, Owners

LEMMA EndGivesBack ==
  ASSUME LeaseInv, NEW p \in Proc, job[p] # NoTask, job' = [job EXCEPT ![p] = NoTask]
  PROVE  \E t \in Task : Ownership!GiveBack(p, t)
<1> USE DEF LeaseInv, TypeOK
<1>1. PICK t \in Task : job[p] = t
  OBVIOUS
<1>2. Owners[t] = {p}
  BY <1>1 DEF ExclusiveRun, Owners
<1>3. Owners' = [Owners EXCEPT ![t] = {}]
  <2>1. Owners'[t] = {}
    BY <1>1, <1>2, TaskAssumption DEF ExclusiveRun, Owners
  <2>2. ASSUME NEW u \in Task \ {t} PROVE Owners'[u] = Owners[u]
    BY <1>1, <2>2, TaskAssumption DEF Owners
  <2>3. QED
    BY <2>1, <2>2 DEF Owners
<1>4. QED
  BY <1>2, <1>3 DEF Ownership!GiveBack, Owners

LEMMA OwnershipStep ==
  ASSUME LeaseInv, [Next]_vars
  PROVE  [Ownership!Next]_Owners
<1>1. CASE UNCHANGED vars
  BY <1>1, SameJobsSameOwners DEF vars
<1>2. CASE Api
  BY <1>2, SameJobsSameOwners DEF Api, Admit, Submit, Branch, Cancel
<1>3. ASSUME NEW p \in Proc, Polling(p) PROVE [Ownership!Next]_Owners
  BY <1>3, SameJobsSameOwners, ClaimTakes
  DEF Polling, Restart, RequeueScan, RequeueWrite, Started, ClaimNothing,
      Ownership!Next
<1>4. ASSUME NEW p \in Proc, Release(p) \/ Abort(p) \/ Crash(p)
      PROVE  [Ownership!Next]_Owners
  <2>1. job' = [job EXCEPT ![p] = NoTask]
    BY <1>4 DEF Release, Abort, Crash
  <2>2. CASE job[p] = NoTask
    BY <2>1, <2>2, SameJobsSameOwners DEF LeaseInv, TypeOK
  <2>3. CASE job[p] # NoTask
    BY <2>1, <2>3, EndGivesBack DEF Ownership!Next
  <2>4. QED
    BY <2>2, <2>3
<1>5. ASSUME NEW p \in Proc, Running(p) \/ Progress(p)
      PROVE  [Ownership!Next]_Owners
  BY <1>4, <1>5, SameJobsSameOwners
  DEF Running, Settling, Renew, Load, Start, Progress, Complete, Fail,
      ScheduleRecovery, DeliverEmergency, GiveUp, SyncRoot, Challenge
<1>6. CASE \E t \in Task : AgeLease(t)
  BY <1>6, SameJobsSameOwners DEF AgeLease
<1>7. QED
  BY <1>1, <1>2, <1>3, <1>4, <1>5, <1>6 DEF Next

\* With timely leases the queue implements exclusive ownership of the tasks.
THEOREM QueueImplementsOwnership ==
  ASSUME TimelyLeases
  PROVE  Spec => OwnershipSpec
<1>1. Init => Ownership!Init
  BY TaskAssumption DEF Init, Ownership!Init
<1>2. LeaseInv /\ [Next]_vars => [Ownership!Next]_Owners
  BY OwnershipStep
<1>3. Spec => []LeaseInv
  BY TypeCorrect, LeasesExclude, PTL DEF LeaseInv
<1>4. QED
  BY <1>1, <1>2, <1>3, PTL DEF Spec, OwnershipSpec, Ownership!Spec, Owners

-----------------------------------------------------------------------------
(* Finality of outcomes.  Without crashes nothing is ever stale, for every  *)
(* running row belongs to a process that still runs it; and a process that  *)
(* is about to write "running" holds a task nobody has finished, unless a   *)
(* branch has completed it as its root.                                     *)

Unfinished(t) == status[t] \notin Finished \/ HasSyncingBranch(t)

QuietInv ==
  /\ LeaseInv
  /\ crashes = 0
  /\ \A p \in Proc : scan[p] = {}
  /\ \A t \in Task : status[t] = "running"
                       => \E p \in Proc : job[p] = t /\ pc[p] = "running"
  /\ \A t \in Task : status[t] = "absent" => root[t] = t
  /\ \A p \in Proc : pc[p] \in {"renew", "load", "start", "running"}
                       => Unfinished(job[p])

LEMMA NothingStale == QuietInv => StaleRows = {}
<1> SUFFICES ASSUME QuietInv, NEW t \in Task, status[t] = "running"
             PROVE  lease[t] # NoLease /\ lease[t].age = "live"
  BY DEF StaleRows
<1>1. PICK p \in Proc : job[p] = t
  BY DEF QuietInv
<1>2. QED
  BY <1>1, TaskAssumption DEF QuietInv, LeaseInv, LeaseCoversRun, HeldBy

\* Inserting a child takes no syncing branch away.
LEMMA InsertKeepsBranches ==
  ASSUME QuietInv, NEW base \in Task, NEW child \in Task, NEW k \in Kind,
         InsertChild(base, child, k), NEW t \in Task, HasSyncingBranch(t)
  PROVE  HasSyncingBranch(t)'
<1>1. PICK u \in Task \ {t} : root[u] = t /\ kind[u] # "challenger"
  BY DEF HasSyncingBranch
<1>2. u # child
  BY <1>1 DEF QuietInv, InsertChild
<1>3. root'[u] = t /\ kind'[u] # "challenger"
  BY <1>1, <1>2 DEF InsertChild, QuietInv, LeaseInv, TypeOK
<1>4. QED
  BY <1>1, <1>3 DEF HasSyncingBranch

LEMMA InsertKeepsQuiet ==
  ASSUME QuietInv, LeaseInv', NEW base \in Task, NEW child \in Task, NEW k \in Kind,
         InsertChild(base, child, k), UNCHANGED <<scan, crashes, job>>,
         \A p \in Proc : \/ pc'[p] = pc[p]
                         \/ pc'[p] = "release" /\ pc[p] # "running"
  PROVE  QuietInv'
<1> USE DEF QuietInv, LeaseInv, TypeOK
<1>1. \A t \in Task \ {child} : status'[t] = status[t] /\ root'[t] = root[t]
  BY DEF InsertChild
<1>2. status'[child] = "queued"
  BY DEF InsertChild
<1>3. \A t \in Task : Unfinished(t) => Unfinished(t)'
  BY <1>1, <1>2, InsertKeepsBranches DEF Unfinished, Finished
<1>4. \A t \in Task : status'[t] = "running"
                       => \E p \in Proc : job'[p] = t /\ pc'[p] = "running"
  BY <1>1, <1>2
<1>5. \A t \in Task : status'[t] = "absent" => root'[t] = t
  BY <1>1, <1>2
<1>6. \A p \in Proc : pc'[p] \in {"renew", "load", "start", "running"}
                        => Unfinished(job[p])'
  BY <1>3 DEF Working
<1>7. QED
  BY <1>4, <1>5, <1>6

\* A write of one row that leaves the lineage alone.
LEMMA WriteKeepsQuiet ==
  ASSUME QuietInv, LeaseInv', NEW t \in Task, NEW s \in Status \ {"absent"},
         Write(t, s),
         UNCHANGED <<root, kind, scan, crashes, job>>,
         s = "running" => \E p \in Proc : job[p] = t /\ pc'[p] = "running",
         \A p \in Proc : pc[p] = "running" /\ job[p] # t => pc'[p] = "running",
         \A p \in Proc : pc'[p] \in {"renew", "load", "start", "running"}
            => /\ pc[p] \in {"renew", "load", "start", "running"}
               /\ job[p] = t => s \notin Finished \/ HasSyncingBranch(t)
  PROVE  QuietInv'
<1> USE DEF QuietInv, LeaseInv, TypeOK
<1>1. status'[t] = s /\ \A u \in Task \ {t} : status'[u] = status[u]
  BY DEF Write
<1>2. \A u \in Task : HasSyncingBranch(u)' = HasSyncingBranch(u)
  BY DEF HasSyncingBranch
<1>3. \A p \in Proc : pc'[p] \in {"renew", "load", "start", "running"}
                        => Unfinished(job[p])'
  BY <1>1, <1>2 DEF Unfinished, Working
<1>4. \A u \in Task : status'[u] = "running"
                       => \E p \in Proc : job'[p] = u /\ pc'[p] = "running"
  BY <1>1
<1>5. \A u \in Task : status'[u] = "absent" => root'[u] = u
  BY <1>1
<1>6. QED
  BY <1>3, <1>4, <1>5

LEMMA ApiKeepsQuiet ==
  ASSUME QuietInv, LeaseInv', Api
  PROVE  QuietInv'
<1>1. CASE \E c \in Client : Admit(c)
  BY <1>1 DEF Admit, rows, QuietInv, Unfinished, HasSyncingBranch
<1>2. ASSUME NEW c \in Client, NEW t \in Task, Submit(c, t) PROVE QuietInv'
  <2>1. \A u \in Task \ {t} : status'[u] = status[u]
    BY <1>2 DEF Submit, QuietInv, LeaseInv, TypeOK
  <2>2. status'[t] = "queued"
    BY <1>2 DEF Submit, QuietInv, LeaseInv, TypeOK
  <2>3. \A u \in Task : HasSyncingBranch(u)' = HasSyncingBranch(u)
    BY <1>2 DEF Submit, HasSyncingBranch
  <2>4. \A u \in Task : Unfinished(u) => Unfinished(u)'
    BY <2>1, <2>2, <2>3 DEF Unfinished, Finished
  <2>5. UNCHANGED <<root, job, pc, scan, crashes>>
    BY <1>2 DEF Submit
  <2>6. \A p \in Proc : pc'[p] \in {"renew", "load", "start", "running"}
                          => Unfinished(job[p])'
    BY <2>4, <2>5 DEF QuietInv, LeaseInv, TypeOK, Working
  <2>7. QED
    BY <2>1, <2>2, <2>5, <2>6 DEF QuietInv
<1>3. ASSUME NEW base \in Task, NEW child \in Task, Branch(base, child)
      PROVE  QuietInv'
  <2>1. PICK k \in Kind : InsertChild(base, child, k)
    BY <1>3 DEF Branch, Kind
  <2>2. UNCHANGED <<scan, crashes, job, pc>>
    BY <1>3 DEF Branch
  <2>3. QED
    BY <2>1, <2>2, InsertKeepsQuiet
<1>4. ASSUME NEW t \in Task, Cancel(t) PROVE QuietInv'
  <2>1. Write(t, "cancelled") /\ UNCHANGED <<root, kind, scan, crashes, job, pc>>
    BY <1>4 DEF Cancel, Write
  <2>2. "cancelled" \in Status \ {"absent"} /\ "cancelled" \notin Finished
    BY DEF Status, Terminal, Finished
  <2>3. QED
    BY <2>1, <2>2, WriteKeepsQuiet
<1>5. QED
  BY <1>1, <1>2, <1>3, <1>4 DEF Api

LEMMA PollingKeepsQuiet ==
  ASSUME QuietInv, LeaseInv', NEW p \in Proc, Polling(p)
  PROVE  QuietInv'
<1> USE DEF Goto, rows
<1>1. ASSUME UNCHANGED <<status, root, kind, job, crashes>>,
             \A q \in Proc : scan'[q] = {},
             \A q \in Proc : pc'[q] \in {"renew", "load", "start", "running"}
                               => pc[q] = pc'[q],
             \A q \in Proc : pc[q] = "running" => pc'[q] = "running"
      PROVE  QuietInv'
  BY <1>1 DEF QuietInv, Unfinished, HasSyncingBranch
<1>2. CASE Restart(p) \/ RequeueScan(p)
  BY <1>1, <1>2, NothingStale DEF Restart, RequeueScan, QuietInv, LeaseInv, TypeOK
<1>3. CASE RequeueWrite(p)
  BY <1>3 DEF RequeueWrite, QuietInv
<1>4. CASE Started(p) \/ ClaimNothing(p)
  BY <1>1, <1>4 DEF Started, ClaimNothing, QuietInv, LeaseInv, TypeOK
<1>5. CASE Claim(p)
  <2>1. PICK t \in Claimable : job' = [job EXCEPT ![p] = t]
    BY <1>5 DEF Claim
  <2>2. t \in Task /\ status[t] = "queued"
    BY DEF Claimable
  <2>3. job'[p] = t /\ \A q \in Proc \ {p} : job'[q] = job[q] /\ pc'[q] = pc[q]
    BY <1>5, <2>1 DEF Claim, QuietInv, LeaseInv, TypeOK
  <2>4. job[p] = NoTask
    BY <1>5 DEF Claim, QuietInv, LeaseInv, TypeOK, Working
  <2>5. UNCHANGED <<status, root, kind, scan, crashes>>
    BY <1>5 DEF Claim
  <2>6. \A u \in Task : status'[u] = "running"
                           => \E q \in Proc : job'[q] = u /\ pc'[q] = "running"
    BY <2>3, <2>4, <2>5, TaskAssumption DEF QuietInv
  <2>7. \A u : Unfinished(u)' = Unfinished(u)
    BY <2>5 DEF Unfinished, HasSyncingBranch
  <2>8. Unfinished(t)
    BY <2>2 DEF Unfinished, Finished
  <2>9. ASSUME NEW q \in Proc, pc'[q] \in {"renew", "load", "start", "running"}
        PROVE  Unfinished(job[q])'
    BY <2>3, <2>5, <2>8, <2>9 DEF QuietInv, Unfinished, HasSyncingBranch
  <2>10. QED
    BY <2>5, <2>6, <2>9 DEF QuietInv
<1>6. QED
  BY <1>2, <1>3, <1>4, <1>5 DEF Polling

LEMMA RunningKeepsQuiet ==
  ASSUME QuietInv, LeaseInv', NEW p \in Proc, Running(p) \/ Progress(p)
  PROVE  QuietInv'
<1> USE DEF Goto, rows
<1>a. pc \in [Proc -> Places] /\ job \in [Proc -> Task \cup {NoTask}]
  BY DEF QuietInv, LeaseInv, TypeOK
<1>b. pc[p] \in Working => job[p] \in Task
  BY DEF QuietInv, LeaseInv, TypeOK
<1>c. \A q \in Proc : job[q] = job[p] /\ job[p] # NoTask => q = p
  BY DEF QuietInv, LeaseInv, ExclusiveRun
<1>1. CASE Renew(p) \/ Load(p)
  BY <1>1, <1>a DEF Renew, Load, QuietInv, Unfinished, HasSyncingBranch
<1>2. CASE Start(p) \/ Progress(p)
  <2>1. job[p] \in Task /\ Write(job[p], "running")
    BY <1>2, <1>b DEF Start, Progress, Working
  <2>2. QED
    BY <1>2, <1>a, <2>1, WriteKeepsQuiet
    DEF Start, Progress, Status, Active, Finished
<1>3. CASE Complete(p) \/ Fail(p) \/ DeliverEmergency(p) \/ GiveUp(p)
  <2>1. PICK s \in Finished : Write(job[p], s)
    BY <1>3 DEF Complete, Fail, DeliverEmergency, GiveUp, Finished
  <2>2. job[p] \in Task
    BY <1>3, <1>b DEF Complete, Fail, DeliverEmergency, GiveUp, Working
  <2>3. \A q \in Proc \ {p} : job[q] # job[p] /\ pc'[q] = pc[q]
    BY <1>3, <1>a, <1>c, <2>2, TaskAssumption
    DEF Complete, Fail, DeliverEmergency, GiveUp
  <2>4. pc'[p] \in {"sync", "failing", "sync_emergency", "release"}
    BY <1>3, <1>a DEF Complete, Fail, DeliverEmergency, GiveUp
  <2>5. UNCHANGED <<root, kind, scan, crashes, job>>
    BY <1>3 DEF Complete, Fail, DeliverEmergency, GiveUp
  <2>6. s \in Status \ {"absent"} /\ s # "running"
    BY DEF Finished, Status, Terminal
  <2>7. QED
    BY <2>1, <2>2, <2>3, <2>4, <2>5, <2>6, WriteKeepsQuiet
<1>4. CASE ScheduleRecovery(p) \/ Challenge(p)
  <2>1. job[p] \in Task
    BY <1>4, <1>b DEF ScheduleRecovery, Challenge, Working
  <2>2. \A q \in Proc : \/ pc'[q] = pc[q]
                        \/ pc'[q] = "release" /\ pc[q] # "running"
    BY <1>4, <1>a DEF ScheduleRecovery, Challenge
  <2>3. CASE UNCHANGED rows
    BY <1>4, <2>2, <2>3
    DEF ScheduleRecovery, Challenge, QuietInv, Unfinished, HasSyncingBranch
  <2>4. ASSUME NEW child \in Task, NEW k \in {"branch", "challenger"},
               InsertChild(job[p], child, k)
        PROVE  QuietInv'
    <3>1. UNCHANGED <<scan, crashes, job>> /\ k \in Kind
      BY <1>4 DEF ScheduleRecovery, Challenge, Kind
    <3>2. QED
      BY <2>1, <2>2, <2>4, <3>1, InsertKeepsQuiet
  <2>5. QED
    BY <1>4, <2>3, <2>4 DEF ScheduleRecovery, Challenge, Absent
<1>5. CASE SyncRoot(p)
  <2>1. job[p] \in Task /\ root[job[p]] \in Task
    BY <1>5, <1>b DEF SyncRoot, Working, QuietInv, LeaseInv, TypeOK
  <2>2. \A q \in Proc :
          /\ pc'[q] \in {"renew", "load", "start", "running"}
               => pc[q] = pc'[q] /\ q # p
          /\ pc[q] = "running" => pc'[q] = "running"
    BY <1>5, <1>a DEF SyncRoot
  <2>3. UNCHANGED <<root, kind, scan, crashes, job>>
    BY <1>5 DEF SyncRoot
  <2>4. CASE UNCHANGED status
    BY <2>2, <2>3, <2>4 DEF QuietInv, Unfinished, HasSyncingBranch
  <2>5. CASE kind[job[p]] # "challenger" /\ Write(root[job[p]], "completed")
    \* a process that runs the root runs a task with a syncing branch
    <3>1. ASSUME NEW q \in Proc \ {p}, job[q] = root[job[p]]
          PROVE  HasSyncingBranch(root[job[p]])
      BY <1>c, <2>1, <2>5, <3>1, TaskAssumption DEF HasSyncingBranch
    <3>2. "completed" \in Status \ {"absent"}
      BY DEF Status, Terminal, Finished
    <3>3. QED
      BY <2>1, <2>2, <2>3, <2>5, <3>1, <3>2, WriteKeepsQuiet
  <2>6. QED
    BY <1>5, <2>4, <2>5 DEF SyncRoot
<1>6. CASE Release(p)
  <2>1. job[p] \in Task /\ status[job[p]] # "running"
    \* only a process at "running" keeps a row running, and p is not there
    BY <1>6, <1>b, <1>c, TaskAssumption DEF Release, Working, QuietInv
  <2>2. \A q \in Proc \ {p} : job'[q] = job[q] /\ pc'[q] = pc[q]
    BY <1>6, <1>a DEF Release
  <2>3. pc'[p] = "idle" /\ UNCHANGED <<status, root, kind, scan, crashes>>
    BY <1>6, <1>a DEF Release
  <2>4. \A t \in Task : status'[t] = "running"
                         => \E q \in Proc : job'[q] = t /\ pc'[q] = "running"
    BY <1>6, <2>1, <2>2, <2>3 DEF QuietInv, Release
  <2>5. \A q \in Proc : pc'[q] \in {"renew", "load", "start", "running"}
                          => Unfinished(job[q])'
    BY <2>2, <2>3 DEF QuietInv, Unfinished, HasSyncingBranch
  <2>6. QED
    BY <2>3, <2>4, <2>5 DEF QuietInv
<1>9. QED
  BY <1>1, <1>2, <1>3, <1>4, <1>5, <1>6 DEF Running, Settling

LEMMA QuietStep ==
  ASSUME QuietInv, LeaseInv', [Next]_vars, crashes' = 0
  PROVE  QuietInv'
<1>1. CASE UNCHANGED vars
  BY <1>1 DEF vars, rows, QuietInv, Unfinished, HasSyncingBranch
<1>2. ASSUME NEW p \in Proc, Abort(p) \/ Crash(p) PROVE FALSE
  BY <1>2 DEF Abort, Crash, QuietInv
  \* either would have counted
<1>3. ASSUME NEW t \in Task, AgeLease(t) PROVE QuietInv'
  BY <1>3 DEF AgeLease, rows, QuietInv, Unfinished, HasSyncingBranch
<1>4. QED
  BY <1>1, <1>2, <1>3, ApiKeepsQuiet, PollingKeepsQuiet, RunningKeepsQuiet DEF Next

\* Which steps make a row queued or running: those that insert it, and the
\* writes of a process that runs an unfinished task.
LEMMA OutcomeStep ==
  ASSUME QuietInv, [Next]_vars, crashes' = 0,
         NEW t \in Task, status[t] \in Finished, ~ HasSyncingBranch(t)
  PROVE  status'[t] \notin Active
<1> USE DEF Goto, Write, rows
<1>a. /\ status \in [Task -> Status]
      /\ job \in [Proc -> Task \cup {NoTask}]
      /\ \A p \in Proc : scan[p] = {}
  BY DEF QuietInv, LeaseInv, TypeOK
<1>b. status[t] \notin Active /\ status[t] # "absent"
  BY DEF Finished, Active
<1>1. CASE UNCHANGED status
  BY <1>1, <1>b
<1>2. ASSUME NEW u \in Task, NEW s \in Terminal, Write(u, s)
      PROVE  status'[t] \notin Active
  BY <1>2, <1>a, <1>b DEF Terminal, Finished, Active
<1>3. ASSUME NEW base \in Task, NEW u \in Task, NEW k, InsertChild(base, u, k)
      PROVE  status'[t] \notin Active
  BY <1>3, <1>a, <1>b DEF InsertChild
<1>4. CASE Api
  BY <1>1, <1>2, <1>3, <1>4, <1>a, <1>b
  DEF Api, Admit, Submit, Branch, Cancel, Terminal
<1>5. ASSUME NEW p \in Proc, Polling(p) PROVE status'[t] \notin Active
  BY <1>1, <1>5, <1>a
  DEF Polling, Restart, RequeueScan, RequeueWrite, Started, Claim, ClaimNothing
<1>6. ASSUME NEW p \in Proc, Running(p) \/ Progress(p)
      PROVE  status'[t] \notin Active
  <2>1. CASE Start(p) \/ Progress(p)
    <3>1. Unfinished(job[p]) /\ Write(job[p], "running")
      BY <2>1 DEF Start, Progress, QuietInv
    <3>2. job[p] # t
      BY <3>1 DEF Unfinished
    <3>3. QED
      BY <3>1, <3>2, <1>a, <1>b
  <2>2. pc[p] \in Working => job[p] \in Task /\ root[job[p]] \in Task
    BY DEF QuietInv, LeaseInv, TypeOK
  <2>3. CASE Complete(p) \/ Fail(p) \/ DeliverEmergency(p) \/ GiveUp(p) \/ SyncRoot(p)
    BY <1>1, <1>2, <2>2, <2>3
    DEF Complete, Fail, DeliverEmergency, GiveUp, SyncRoot, Working, Terminal, Finished
  <2>4. CASE ScheduleRecovery(p) \/ Challenge(p)
    BY <1>1, <1>3, <2>2, <2>4 DEF ScheduleRecovery, Challenge, Working, Absent
  <2>5. CASE Renew(p) \/ Load(p) \/ Release(p)
    BY <1>1, <2>5 DEF Renew, Load, Release
  <2>6. QED
    BY <1>6, <2>1, <2>3, <2>4, <2>5 DEF Running, Settling
<1>7. CASE UNCHANGED vars \/ \E u \in Task : AgeLease(u)
  BY <1>1, <1>7 DEF vars, AgeLease
<1>8. QED
  BY <1>4, <1>5, <1>6, <1>7 DEF Next, Abort, Crash, QuietInv

\* The first crash is where the calm ends.
CalmInv == crashes = 0 => QuietInv

LEMMA CalmBefore ==
  ASSUME TypeOK, [Next]_vars, crashes' = 0 PROVE crashes = 0
<1>1. crashes \in Nat
  BY BoundAssumption DEF TypeOK
<1>2. crashes' = crashes \/ crashes' = crashes + 1
  BY DEF Next, vars, Api, Admit, Submit, Branch, Cancel, Polling, Restart,
         RequeueScan, RequeueWrite, Started, Claim, ClaimNothing, Running, Settling,
         Renew, Load, Start, Progress, Complete, Fail, ScheduleRecovery,
         DeliverEmergency, GiveUp, SyncRoot, Challenge, Release, Abort, Crash, AgeLease
<1>3. QED
  BY <1>1, <1>2

\* Until the first crash no worker undoes the outcome of a task: a completed or
\* failed one stays out of the queue.
THEOREM OutcomesAreFinal ==
  ASSUME TimelyLeases
  PROVE  Spec => OutcomeIsFinal
<1>1. Init => CalmInv
  BY InitTypeOK
  DEF Init, CalmInv, QuietInv, LeaseInv, LeaseCoversRun, ExclusiveRun
<1>2. CalmInv /\ LeaseInv /\ LeaseInv' /\ [Next]_vars => CalmInv'
  BY QuietStep, CalmBefore DEF CalmInv, LeaseInv
<1>3. CalmInv /\ LeaseInv /\ [Next]_vars
        => [crashes' = 0 =>
              \A t \in Task : status[t] \in Finished /\ ~ HasSyncingBranch(t)
                                => status'[t] \notin Active]_vars
  BY OutcomeStep, CalmBefore DEF CalmInv, LeaseInv
<1>4. Spec => []LeaseInv
  BY TypeCorrect, LeasesExclude, PTL DEF LeaseInv
<1>5. QED
  BY <1>1, <1>2, <1>3, <1>4, PTL DEF Spec, OutcomeIsFinal

-----------------------------------------------------------------------------
(* The capacity.  A request reads it in one transaction and inserts its row  *)
(* in a later one; as long as no worker has died only such an insertion      *)
(* makes a new queued root, and it takes the admission that paid for it.     *)
(* That a child is never its own root needs the root of a row to be there.   *)

Made     == {t \in Task : status[t] # "absent"}
Waiting  == {t \in Task : status[t] = "queued" /\ root[t] = t}
Admitted == {c \in Client : admission[c] = "admitted"}

\* A row that is there has its root there, and so have the rows that a process
\* has read; a row that is not yet there is its own root.
RootedInv ==
  /\ IsFiniteSet(Made)
  /\ \A t \in Made : root[t] \in Made
  /\ \A t \in Task \ Made : root[t] = t
  /\ \A p \in Proc : scan[p] \subseteq Made /\ job[p] \in Made \cup {NoTask}

\* What a process has read in a step was there.
ReadsRows ==
  \A p \in Proc : /\ scan'[p] \subseteq scan[p] \cup Made
                  /\ job'[p] \in Made \cup {job[p], NoTask}

LEMMA SameRoots ==
  ASSUME RootedInv, UNCHANGED <<status, root>>, ReadsRows PROVE RootedInv'
BY DEF RootedInv, Made, ReadsRows

LEMMA WriteKeepsRoots ==
  ASSUME TypeOK, RootedInv, NEW t \in Task, NEW s, s # "absent", Write(t, s),
         UNCHANGED root, t \in Made \/ root[t] = t, ReadsRows
  PROVE  RootedInv'
<1>1. \A u \in Task : status'[u] = IF u = t THEN s ELSE status[u]
  BY DEF Write, TypeOK
<1>2. Made' = Made \cup {t}
  BY <1>1 DEF Made
<1>3. IsFiniteSet(Made')
  BY <1>2, FS_AddElement DEF RootedInv
<1>4. QED
  BY <1>2, <1>3 DEF RootedInv, ReadsRows

LEMMA InsertKeepsRoots ==
  ASSUME TypeOK, RootedInv, NEW base \in Made, NEW child \in Task, NEW k,
         InsertChild(base, child, k), ReadsRows
  PROVE  RootedInv'
<1>1. \A u \in Task : /\ status'[u] = IF u = child THEN "queued" ELSE status[u]
                      /\ root'[u] = IF u = child THEN root[base] ELSE root[u]
  BY DEF InsertChild, TypeOK
<1>2. Made' = Made \cup {child}
  BY <1>1 DEF Made
<1>3. IsFiniteSet(Made')
  BY <1>2, FS_AddElement DEF RootedInv
<1>4. \A u \in Made' : root'[u] \in Made'
  BY <1>1, <1>2 DEF RootedInv, Made
<1>5. \A u \in Task \ Made' : root'[u] = u
  BY <1>1, <1>2 DEF RootedInv
<1>6. QED
  BY <1>2, <1>3, <1>4, <1>5 DEF RootedInv, ReadsRows

LEMMA RootedStep ==
  ASSUME TypeOK, TypeOK', RootedInv, [Next]_vars PROVE RootedInv'
<1> USE DEF rows
<1>a. /\ \A p \in Proc : pc[p] \in Working => job[p] \in Made
      /\ \A p \in Proc : pc[p] \in Working => root[job[p]] \in Made
      /\ Made \subseteq Task
  BY DEF TypeOK, RootedInv, Made
<1>b. UNCHANGED <<scan, job>> => ReadsRows
  BY DEF ReadsRows
<1>1. CASE UNCHANGED vars
  BY <1>1, <1>b, SameRoots DEF vars
<1>2. CASE Api
  <2>1. CASE \E c \in Client : Admit(c)
    BY <2>1, <1>b, SameRoots DEF Admit
  <2>2. CASE \E c \in Client, t \in Task : Submit(c, t)
    BY <2>2, <1>b, WriteKeepsRoots DEF Submit, Write, RootedInv, Made
  <2>3. CASE \E base, child \in Task : Branch(base, child)
    BY <2>3, <1>b, InsertKeepsRoots DEF Branch, Made
  <2>4. CASE \E t \in Task : Cancel(t)
    BY <2>4, <1>b, WriteKeepsRoots DEF Cancel, Write, Made
  <2>5. QED
    BY <1>2, <2>1, <2>2, <2>3, <2>4 DEF Api
<1>3. ASSUME NEW p \in Proc, Polling(p) PROVE RootedInv'
  <2>1. StaleRows \subseteq Made /\ Claimable \subseteq Made
    BY DEF StaleRows, Claimable, Made
  <2>2. CASE RequeueWrite(p)
    <3>1. PICK t \in scan[p] : Write(t, "queued")
      BY <2>2 DEF RequeueWrite
    <3>2. t \in Made
      BY DEF RootedInv
    <3>3. ReadsRows
      BY <2>2 DEF RequeueWrite, ReadsRows, TypeOK
    <3>4. QED
      BY <2>2, <3>1, <3>2, <3>3, <1>a, WriteKeepsRoots DEF RequeueWrite
  <2>3. CASE UNCHANGED <<status, root>>
    <3>1. ReadsRows
      BY <1>3, <2>1 DEF Polling, Restart, RequeueScan, RequeueWrite, Started,
                        Claim, ClaimNothing, ReadsRows, TypeOK
    <3>2. QED
      BY <2>3, <3>1, SameRoots
  <2>4. QED
    BY <1>3, <2>2, <2>3 DEF Polling, Restart, RequeueScan, Started, Claim, ClaimNothing
<1>4. ASSUME NEW p \in Proc, Running(p) \/ Progress(p) PROVE RootedInv'
  <2>1. CASE Start(p) \/ Progress(p) \/ Complete(p) \/ Fail(p)
               \/ DeliverEmergency(p) \/ GiveUp(p) \/ SyncRoot(p)
    <3>1. UNCHANGED <<scan, job, root>>
      BY <2>1 DEF Start, Progress, Complete, Fail, DeliverEmergency, GiveUp, SyncRoot
    <3>2. UNCHANGED status \/
            \E t \in Made, s \in {"running", "completed", "failed"} : Write(t, s)
      BY <2>1, <1>a
      DEF Start, Progress, Complete, Fail, DeliverEmergency, GiveUp, SyncRoot, Working
    <3>3. QED
      BY <3>1, <3>2, <1>a, <1>b, WriteKeepsRoots, SameRoots
  <2>2. CASE ScheduleRecovery(p) \/ Challenge(p)
    <3>1. UNCHANGED <<scan, job>>
      BY <2>2 DEF ScheduleRecovery, Challenge
    <3>2. \/ UNCHANGED <<status, root>>
          \/ \E child \in Task : \E k : InsertChild(job[p], child, k)
      BY <2>2 DEF ScheduleRecovery, Challenge, Absent
    <3>3. job[p] \in Made
      BY <2>2, <1>a DEF ScheduleRecovery, Challenge, Working
    <3>4. QED
      BY <3>1, <3>2, <3>3, <1>b, InsertKeepsRoots, SameRoots
  <2>3. CASE Renew(p) \/ Load(p) \/ Release(p)
    <3>1. ReadsRows
      BY <2>3 DEF Renew, Load, Release, ReadsRows, TypeOK
    <3>2. QED
      BY <2>3, <3>1, SameRoots DEF Renew, Load, Release
  <2>4. QED
    BY <1>4, <2>1, <2>2, <2>3 DEF Running, Settling
<1>5. ASSUME NEW p \in Proc, Abort(p) \/ Crash(p) PROVE RootedInv'
  <2>1. ReadsRows
    BY <1>5 DEF Abort, Crash, ReadsRows, TypeOK
  <2>2. QED
    BY <1>5, <2>1, SameRoots DEF Abort, Crash
<1>6. CASE \E t \in Task : AgeLease(t)
  BY <1>6, <1>b, SameRoots DEF AgeLease
<1>7. QED
  BY <1>1, <1>2, <1>3, <1>4, <1>5, <1>6 DEF Next

\* Nothing but a submission makes a new queued root while no worker has died:
\* a child has another root, and no process writes a row back as queued.
LEMMA WaitingKept ==
  ASSUME TypeOK, QuietInv, RootedInv, [Next]_vars,
         \A c \in Client, t \in Task : ~ Submit(c, t)
  PROVE  Waiting' \subseteq Waiting
<1> USE DEF rows
<1>1. CASE UNCHANGED <<status, root>>
  BY <1>1 DEF Waiting
<1>2. ASSUME NEW t \in Task, NEW s \in {"running", "completed", "failed", "cancelled"},
             Write(t, s), UNCHANGED root
      PROVE  Waiting' \subseteq Waiting
  BY <1>2 DEF Waiting, Write, TypeOK
<1>3. ASSUME NEW base \in Made, NEW child \in Task, NEW k, InsertChild(base, child, k)
      PROVE  Waiting' \subseteq Waiting
  <2>1. root[base] # child
    BY <1>3 DEF InsertChild, RootedInv, Made
  <2>2. \A u \in Task : /\ status'[u] = IF u = child THEN "queued" ELSE status[u]
                        /\ root'[u] = IF u = child THEN root[base] ELSE root[u]
    BY <1>3 DEF InsertChild, TypeOK
  <2>3. QED
    BY <2>1, <2>2 DEF Waiting
<1>4. CASE Api
  BY <1>1, <1>2, <1>3, <1>4 DEF Api, Admit, Branch, Cancel, Write, Made
<1>5. ASSUME NEW p \in Proc, Polling(p) PROVE Waiting' \subseteq Waiting
  BY <1>1, <1>5 DEF QuietInv, Polling, Restart, RequeueScan, RequeueWrite, Started,
                    Claim, ClaimNothing
<1>6. ASSUME NEW p \in Proc, Running(p) \/ Progress(p) PROVE Waiting' \subseteq Waiting
  <2>a. pc[p] \in Working => /\ job[p] \in Made /\ job[p] \in Task
                             /\ root[job[p]] \in Task
    BY DEF TypeOK, RootedInv, Made
  <2>1. CASE Start(p) \/ Progress(p) \/ Complete(p) \/ Fail(p)
               \/ DeliverEmergency(p) \/ GiveUp(p) \/ SyncRoot(p)
    BY <1>1, <1>2, <2>1, <2>a
    DEF Start, Progress, Complete, Fail, DeliverEmergency, GiveUp, SyncRoot, Working
  <2>2. CASE ScheduleRecovery(p) \/ Challenge(p)
    BY <1>1, <1>3, <2>2, <2>a DEF ScheduleRecovery, Challenge, Absent, Working
  <2>3. CASE Renew(p) \/ Load(p) \/ Release(p)
    BY <1>1, <2>3 DEF Renew, Load, Release
  <2>4. QED
    BY <1>6, <2>1, <2>2, <2>3 DEF Running, Settling
<1>7. ASSUME NEW p \in Proc, Abort(p) \/ Crash(p) PROVE Waiting' \subseteq Waiting
  BY <1>1, <1>7 DEF Abort, Crash
<1>8. CASE UNCHANGED vars \/ \E t \in Task : AgeLease(t)
  BY <1>1, <1>8 DEF vars, AgeLease
<1>9. QED
  BY <1>4, <1>5, <1>6, <1>7, <1>8 DEF Next

LEMMA AdmittedKept ==
  ASSUME TypeOK, [Next]_vars, \A c \in Client : ~ Admit(c)
  PROVE  Admitted' \subseteq Admitted
<1>1. CASE UNCHANGED admission
  BY <1>1 DEF Admitted
<1>2. CASE \E c \in Client, t \in Task : Submit(c, t)
  BY <1>2 DEF Submit, Admitted, TypeOK
<1>3. QED
  BY <1>1, <1>2
  DEF Next, vars, Api, Branch, Cancel, Polling, Restart, RequeueScan, RequeueWrite,
      Started, Claim, ClaimNothing, Running, Settling, Renew, Load, Start, Progress,
      Complete, Fail, ScheduleRecovery, DeliverEmergency, GiveUp, SyncRoot, Challenge,
      Release, Abort, Crash, AgeLease

InCapacity ==
  Cardinality(Waiting) + Cardinality(Admitted) <= MaxQueued + Cardinality(Client) - 1

LEMMA CapacityStep ==
  ASSUME TypeOK, QuietInv, RootedInv, InCapacity, [Next]_vars
  PROVE  InCapacity'
<1>1. /\ IsFiniteSet(Waiting) /\ IsFiniteSet(Admitted) /\ IsFiniteSet(ActiveTasks)
      /\ Cardinality(Waiting) \in Nat /\ Cardinality(Admitted) \in Nat
      /\ Cardinality(ActiveTasks) \in Nat /\ Cardinality(Client) \in Nat
      /\ Cardinality(Waiting) <= Cardinality(ActiveTasks) /\ MaxQueued \in Nat
  <2>1. /\ Waiting \subseteq ActiveTasks /\ ActiveTasks \subseteq Made
        /\ Admitted \subseteq Client
    BY DEF Waiting, ActiveTasks, Active, Made, Admitted
  <2>2. QED
    BY <2>1, FS_Subset, FS_CardinalityType, BoundAssumption DEF RootedInv
<1>2. CASE \E c \in Client : Admit(c)
  <2>1. PICK c \in Client : Admit(c)
    BY <1>2
  <2>2. Waiting' = Waiting /\ Cardinality(ActiveTasks) < MaxQueued
    BY <2>1 DEF Admit, Waiting, rows
  <2>3. Cardinality(Admitted') \in Nat /\ Cardinality(Admitted') <= Cardinality(Client)
    BY FS_Subset, FS_CardinalityType, BoundAssumption DEF Admitted
  <2>4. QED
    BY <1>1, <2>2, <2>3 DEF InCapacity
<1>3. CASE \E c \in Client, t \in Task : Submit(c, t)
  <2>1. PICK c \in Client, t \in Task : Submit(c, t)
    BY <1>3
  <2>2. c \in Admitted /\ Admitted' = Admitted \ {c}
    BY <2>1 DEF Submit, Admitted, TypeOK
  <2>3. Cardinality(Admitted') = Cardinality(Admitted) - 1
    BY <1>1, <2>2, FS_RemoveElement
  <2>4. Waiting' \subseteq Waiting \cup {t}
    BY <2>1 DEF Submit, Waiting, TypeOK
  <2>5. /\ IsFiniteSet(Waiting \cup {t})
        /\ Cardinality(Waiting \cup {t}) = IF t \in Waiting THEN Cardinality(Waiting)
                                                         ELSE Cardinality(Waiting) + 1
    BY <1>1, FS_AddElement
  <2>6. /\ Cardinality(Waiting') \in Nat
        /\ Cardinality(Waiting') <= Cardinality(Waiting) + 1
    BY <1>1, <2>4, <2>5, FS_Subset, FS_CardinalityType
  <2>7. QED
    BY <1>1, <2>3, <2>6 DEF InCapacity
<1>4. CASE /\ \A c \in Client : ~ Admit(c)
           /\ \A c \in Client, t \in Task : ~ Submit(c, t)
  <2>1. Waiting' \subseteq Waiting /\ Admitted' \subseteq Admitted
    BY <1>4, WaitingKept, AdmittedKept
  <2>2. /\ Cardinality(Waiting') \in Nat /\ Cardinality(Admitted') \in Nat
        /\ Cardinality(Waiting') <= Cardinality(Waiting)
        /\ Cardinality(Admitted') <= Cardinality(Admitted)
    BY <1>1, <2>1, FS_Subset, FS_CardinalityType
  <2>3. QED
    BY <1>1, <2>2 DEF InCapacity
<1>5. QED
  BY <1>2, <1>3, <1>4

LEMMA InitRooted == Init => RootedInv
BY FS_EmptySet DEF Init, RootedInv, Made

LEMMA InitCapacity ==
  ASSUME Init PROVE InCapacity
<1>1. Waiting = {} /\ Admitted = {}
  BY DEF Init, Waiting, Admitted
<1>2. Cardinality(Client) \in Nat /\ MaxQueued \in Nat /\ MaxQueued > 0
  BY FS_CardinalityType, BoundAssumption
<1>3. QED
  BY <1>1, <1>2, FS_EmptySet DEF InCapacity

\* However many requests are admitted together, and whatever branches, cancels
\* and workers do beside them, the queued requests exceed the capacity by no
\* more than those requests, until the first worker dies.
THEOREM AdmissionStaysBounded ==
  ASSUME TimelyLeases
  PROVE  Spec => []AdmissionOvershoot
<1> DEFINE Calm == CalmInv /\ RootedInv /\ (crashes = 0 => InCapacity)
<1>1. Init => Calm
  BY InitTypeOK, InitRooted, InitCapacity
  DEF Init, CalmInv, QuietInv, LeaseInv, LeaseCoversRun, ExclusiveRun
<1>2. Calm /\ LeaseInv /\ LeaseInv' /\ [Next]_vars => Calm'
  BY QuietStep, CalmBefore, RootedStep, CapacityStep DEF CalmInv, LeaseInv
<1>3. Calm => AdmissionOvershoot
  BY DEF AdmissionOvershoot, InCapacity, Waiting, Admitted
<1>4. Spec => []LeaseInv
  BY TypeCorrect, LeasesExclude, PTL DEF LeaseInv
<1> HIDE DEF Calm
<1>5. QED
  BY <1>1, <1>2, <1>3, <1>4, PTL DEF Spec
=============================================================================
