------------------------- MODULE TaskDeliveryProofs -------------------------
(***************************************************************************)
(* Proofs about the delivery of a request, for every number of processes,  *)
(* every setting of the limits and every set of disturbances, but where a  *)
(* theorem says otherwise.                                                 *)
(***************************************************************************)
EXTENDS TaskDelivery, FiniteSetTheorems, TLAPS

-----------------------------------------------------------------------------
(* The inductive invariant.  What makes it more than a type invariant is    *)
(* the root: a process writes back the row it once read, so that a stale    *)
(* copy of the root could carry an old resolution.  While the root is       *)
(* active, and in every copy of it, the resolution is the root or nothing.  *)

RowsInv ==
  /\ row \in [Task -> Row]
  /\ Lineage = 1..Leaf
  /\ Root \in Lineage
  /\ row[Root].status \in Active => row[Root].resolved \in {None, Root}
  /\ row[Root].resolved \in Lineage \cup {None}

KindInv ==
  /\ parent \in [Task -> Task \cup {None}]
  /\ kind \in [Task -> Kind]
  /\ kind[Root] = "root"

WorkInv ==
  /\ pc \in [Proc -> Places]
  /\ role \in [Proc -> {"none", "engine", "watchdog"}]
  /\ job \in [Proc -> Task \cup {None}]
  /\ copy \in [Proc -> Row]
  /\ \A p \in Proc :
       /\ job[p] = None <=> role[p] = "none"
       /\ job[p] = None <=> pc[p] \in {"idle", "claim"}
       /\ job[p] # None => job[p] \in Lineage /\ copy[p].status # "absent"
       /\ job[p] = Root /\ pc[p] # "sync_descendant"
            => copy[p].resolved \in {None, Root}

RestInv ==
  /\ issue \in [Task -> Issue]
  /\ video \subseteq Task /\ scored \subseteq Task
  /\ events \in 0..MaxEvents

DeliveryInv == RowsInv /\ KindInv /\ WorkInv /\ RestInv

LEMMA InvTypeOK == DeliveryInv => TypeOK
BY DEF DeliveryInv, RowsInv, KindInv, WorkInv, RestInv, TypeOK

-----------------------------------------------------------------------------
(* Tasks and the lineage *)

LEMMA TaskFacts ==
  /\ MaxAttempts + Cardinality(Proc) \in Nat
  /\ Root \in Task /\ None \notin Task /\ Task \subseteq Nat
  /\ IsFiniteSet(Task)
<1>1. Cardinality(Proc) \in Nat /\ MaxAttempts \in Nat
  BY EnvironmentAssumption, SettingsAssumption, FS_CardinalityType
<1>2. IsFiniteSet(Task)
  BY <1>1, FS_Interval DEF Task
<1>3. QED
  BY <1>1, <1>2, SettingsAssumption DEF Task, Root, None

LEMMA LeafFacts ==
  ASSUME RowsInv PROVE Leaf \in Nat /\ Leaf \in Lineage /\ Leaf \in Task
<1>1. Lineage \subseteq Task
  BY DEF Lineage
<1>2. Leaf \in Nat
  BY <1>1, TaskFacts, FS_Subset, FS_CardinalityType DEF Leaf
<1>3. Leaf \in Lineage
  BY <1>2 DEF RowsInv, Root
<1>4. QED
  BY <1>1, <1>2, <1>3

-----------------------------------------------------------------------------
(* Writes of rows *)

\* A row of the lineage is replaced.
LEMMA WriteRow ==
  ASSUME RowsInv, NEW t \in Lineage, NEW r \in Row, r.status # "absent",
         t = Root => /\ r.status \in Active => r.resolved \in {None, Root}
                     /\ r.resolved \in Lineage \cup {None},
         row' = [row EXCEPT ![t] = r]
  PROVE  RowsInv' /\ Lineage' = Lineage
<1> USE DEF RowsInv
<1>1. row' \in [Task -> Row]
  BY DEF Lineage
<1>2. Lineage' = Lineage
  BY DEF Lineage
<1>3. Leaf' = Leaf
  BY <1>2 DEF Leaf
<1>4. CASE t = Root
  BY <1>1, <1>2, <1>3, <1>4, TaskFacts
<1>5. CASE t # Root
  BY <1>1, <1>2, <1>3, <1>5, TaskFacts
<1>6. QED
  BY <1>4, <1>5

LEMMA BlankRowType == BlankRow \in Row
BY DEF BlankRow, Row, Status, Delivery, Mode, Quality

\* A child is added: the lineage grows by the next task.
LEMMA InsertRow ==
  ASSUME RowsInv, KindInv, NEW base \in Lineage, NEW k \in Kind, k # "root",
         InsertChild(base, k)
  PROVE  /\ RowsInv' /\ KindInv'
         /\ Lineage \subseteq Lineage'
         /\ row'[Root] = row[Root]
<1> DEFINE child == Leaf + 1
           new == [BlankRow EXCEPT !.status = "queued",
                                   !.quality = row[base].quality,
                                   !.mode = CASE k = "repair" -> "repaired"
                                              [] k = "degraded" -> "degraded"
                                              [] OTHER -> "none"]
<1>1. /\ child \in Task /\ base \in Task
      /\ row' = [row EXCEPT ![child] = new]
      /\ parent' = [parent EXCEPT ![child] = base]
      /\ kind' = [kind EXCEPT ![child] = k]
  BY DEF InsertChild, Lineage
<1>2. new \in Row /\ new.status = "queued"
  <2>1. row[base].quality \in Quality
    BY <1>1 DEF RowsInv, Row
  <2>2. QED
    BY <2>1 DEF BlankRow, Row, Status, Active, Delivery, Mode, Quality
<1>3. Leaf \in Nat /\ child \notin Lineage /\ child # Root
  BY LeafFacts DEF RowsInv, Root
<1>4. row' \in [Task -> Row] /\ row'[Root] = row[Root]
  BY <1>1, <1>2, <1>3, TaskFacts DEF RowsInv
<1>5. Lineage' = Lineage \cup {child}
  <2> HIDE DEF new, child
  <2>1. \A t \in Task : row'[t] = IF t = child THEN new ELSE row[t]
    BY <1>1 DEF RowsInv
  <2>2. QED
    BY <2>1, <1>1, <1>2 DEF Lineage
<1>6. Leaf' = Leaf + 1
  <2>1. IsFiniteSet(Lineage)
    BY TaskFacts, FS_Subset DEF Lineage
  <2>2. QED
    BY <2>1, <1>3, <1>5, FS_AddElement DEF Leaf
<1>7. Lineage' = 1..Leaf'
  BY <1>3, <1>5, <1>6 DEF RowsInv
<1>8. RowsInv'
  BY <1>4, <1>5, <1>7 DEF RowsInv
<1>9. KindInv'
  BY <1>1, <1>3, TaskFacts DEF KindInv
<1>10. QED
  BY <1>4, <1>5, <1>8, <1>9

\* A version is accepted.
LEMMA AcceptRow ==
  ASSUME RowsInv, NEW t \in Lineage, Accept(t)
  PROVE  RowsInv' /\ Lineage' = Lineage /\ row'[Root].resolved = t /\ row'[t].best
<1> DEFINE marked(u) == IF u \in Lineage THEN [row[u] EXCEPT !.best = (u = t)]
                                         ELSE row[u]
<1>1. t \in Task /\ Root \in Task /\ t # None
  BY TaskFacts DEF Lineage
<1>2. \A u \in Task : marked(u) \in Row /\ marked(u).status = row[u].status
  BY DEF RowsInv, Row
<1>3. marked(t).best
  BY <1>1 DEF RowsInv, Row
<1>4. row[t].mode \in Mode
  BY <1>1 DEF RowsInv, Row
<1>5. row' = [u \in Task |->
         IF u # Root THEN marked(u)
         ELSE [marked(u) EXCEPT !.status = "completed", !.delivery = "delivered",
                                !.resolved = t, !.mode = row[t].mode]]
  BY DEF Accept
<1> HIDE DEF marked
<1>6. /\ row' \in [Task -> Row]
      /\ row'[Root].status = "completed" /\ row'[Root].resolved = t
      /\ row'[Root].best = marked(Root).best
      /\ \A u \in Task : u # Root => row'[u] = marked(u)
  BY <1>1, <1>2, <1>4, <1>5 DEF Row, Status, Delivery
<1>7. Lineage' = Lineage
  BY <1>1, <1>2, <1>6 DEF Lineage, RowsInv
<1>8. Leaf' = Leaf
  BY <1>7 DEF Leaf
<1>9. row'[t].best
  BY <1>1, <1>3, <1>6
<1>10. QED
  BY <1>6, <1>7, <1>8, <1>9 DEF RowsInv, Active

-----------------------------------------------------------------------------
(* Moves of a worker *)

\* The process goes on with its job, with a new copy of its row.
LEMMA GoOn ==
  ASSUME WorkInv, NEW p \in Proc, NEW place \in Places, NEW r \in Row,
         job[p] # None, Lineage \subseteq Lineage',
         place \notin {"idle", "claim"}, r.status # "absent",
         job[p] = Root => r.resolved \in {None, Root},
         Goto(p, place), copy' = [copy EXCEPT ![p] = r],
         UNCHANGED <<role, job>>
  PROVE  WorkInv'
BY DEF WorkInv, Goto

\* It goes on with the copy it has.
LEMMA GoOnAsIs ==
  ASSUME WorkInv, NEW p \in Proc, NEW place \in Places,
         job[p] # None, Lineage \subseteq Lineage',
         place \notin {"idle", "claim"},
         job[p] = Root => pc[p] # "sync_descendant",
         Goto(p, place), UNCHANGED <<role, job, copy>>
  PROVE  WorkInv'
BY DEF WorkInv, Goto

LEMMA FinishWork ==
  ASSUME WorkInv, NEW p \in Proc, Finish(p), Lineage \subseteq Lineage'
  PROVE  WorkInv'
BY BlankRowType, TaskFacts DEF WorkInv, Finish, Goto, Places

LEMMA RestWork ==
  ASSUME WorkInv, UNCHANGED worker, Lineage \subseteq Lineage'
  PROVE  WorkInv'
BY DEF WorkInv, worker

\* The process takes up a task.
LEMMA TakeWork ==
  ASSUME RowsInv, WorkInv, NEW p \in Proc, NEW r \in {"engine", "watchdog"},
         NEW t \in Lineage, NEW place \in Places, place \notin {"idle", "claim"},
         Take(p, r, t, place), Lineage \subseteq Lineage',
         t = Root /\ place # "sync_descendant" => row[Root].resolved \in {None, Root}
  PROVE  WorkInv'
<1>1. t \in Task /\ t # None /\ row[t] \in Row /\ row[t].status # "absent"
  BY TaskFacts DEF Lineage, RowsInv
<1>2. QED
  BY <1>1 DEF WorkInv, Take, Goto

-----------------------------------------------------------------------------
(* The resolution of the root *)

\* What a step may do to the resolution of the root.
MayResolve ==
  \A c \in Task :
    kind[c] = "challenger" /\ row'[Root].resolved = c /\ row[Root].resolved # c
      => row'[c].best

\* A step that leaves the resolution or sets it to the root itself.
LEMMA OwnResolution ==
  ASSUME KindInv, \/ row'[Root].resolved = row[Root].resolved
                  \/ row'[Root].resolved \in {None, Root}
  PROVE  MayResolve
BY TaskFacts DEF KindInv, MayResolve

\* The process writes its copy back.
LEMMA SaveStep ==
  ASSUME RowsInv, KindInv, WorkInv, NEW p \in Proc, NEW place \in Places,
         NEW r \in Row, job[p] # None,
         place \notin {"idle", "claim"}, r.status # "absent",
         job[p] = Root => r.resolved \in {None, Root},
         Save(p, r), Goto(p, place), UNCHANGED <<role, job>>
  PROVE  RowsInv' /\ WorkInv' /\ MayResolve /\ Lineage' = Lineage
<1>1. job[p] \in Lineage /\ Root \in Lineage /\ Root \in Task
  BY TaskFacts DEF WorkInv, RowsInv
<1>2. row' = [row EXCEPT ![job[p]] = r]
  BY DEF Save
<1>3. RowsInv' /\ Lineage' = Lineage
  BY <1>1, <1>2, WriteRow
<1>4. WorkInv'
  BY <1>3, GoOn DEF Save
<1>5. MayResolve
  BY <1>1, <1>2, OwnResolution DEF RowsInv
<1>6. QED
  BY <1>3, <1>4, <1>5

\* A row of the lineage changes in other fields than its resolution, and does
\* not become active.
LEMMA WriteOther ==
  ASSUME RowsInv, KindInv, NEW t \in Lineage, NEW r \in Row, r.status # "absent",
         r.resolved = row[t].resolved,
         r.status \in Active => row[t].status \in Active,
         row' = [row EXCEPT ![t] = r]
  PROVE  RowsInv' /\ Lineage' = Lineage /\ MayResolve
<1>1. RowsInv' /\ Lineage' = Lineage
  BY WriteRow DEF RowsInv
<1>2. MayResolve
  BY TaskFacts, OwnResolution DEF RowsInv, Lineage
<1>3. QED
  BY <1>1, <1>2

\* Nothing is written.
LEMMA SameRows ==
  ASSUME RowsInv, KindInv, UNCHANGED rows
  PROVE  RowsInv' /\ KindInv' /\ Lineage' = Lineage /\ MayResolve
<1>1. RowsInv' /\ KindInv' /\ Lineage' = Lineage
  BY DEF rows, RowsInv, KindInv, Lineage, Leaf
<1>2. MayResolve
  BY OwnResolution DEF rows
<1>3. QED
  BY <1>1, <1>2

LEMMA SameRest ==
  ASSUME RestInv, UNCHANGED <<issue, files, events>> PROVE RestInv'
BY DEF RestInv, files

LEMMA HappensRest ==
  ASSUME RestInv, NEW e, Happens(e), UNCHANGED <<issue, files>> PROVE RestInv'
<1>1. MaxEvents \in Nat
  BY SettingsAssumption
<1>2. events' \in 0..MaxEvents
  BY <1>1 DEF RestInv, Happens
<1>3. QED
  BY <1>2 DEF RestInv, files

LEMMA SameKind ==
  ASSUME KindInv, UNCHANGED <<parent, kind>> PROVE KindInv'
BY DEF KindInv

-----------------------------------------------------------------------------
(* The steps of the specification keep the invariant and resolve only as     *)
(* they may.                                                                 *)

Kept == DeliveryInv' /\ MayResolve /\ Lineage \subseteq Lineage'

\* The process moves on, or rests, without a write.
LEMMA MoveStep ==
  ASSUME DeliveryInv, NEW p \in Proc, NEW place \in Places,
         pc[p] \notin {"idle", "claim", "sync_descendant"},
         place \notin {"idle", "claim"}, Goto(p, place),
         UNCHANGED <<rows, issue, files, role, job, copy, events>>
  PROVE  Kept
<1>1. job[p] # None
  BY DEF DeliveryInv, WorkInv
<1>2. RowsInv' /\ KindInv' /\ Lineage' = Lineage /\ MayResolve
  BY SameRows DEF DeliveryInv
<1>3. WorkInv'
  BY <1>1, <1>2, GoOnAsIs DEF DeliveryInv
<1>4. RestInv'
  BY SameRest DEF DeliveryInv
<1>5. QED
  BY <1>2, <1>3, <1>4 DEF Kept, DeliveryInv

LEMMA BeginKeeps == ASSUME DeliveryInv, NEW p \in Proc, Begin(p) PROVE Kept
<1> USE DEF DeliveryInv
<1>1. PICK t \in Queued :
        /\ row' = [row EXCEPT ![t].status = "running"]
        /\ copy' = [copy EXCEPT ![p] = [row[t] EXCEPT !.status = "running"]]
        /\ job' = [job EXCEPT ![p] = t]
  BY DEF Begin
<1> DEFINE r == [row[t] EXCEPT !.status = "running"]
<1>2. t \in Lineage /\ t \in Task /\ t # None /\ row[t].status = "queued"
  BY TaskFacts DEF Queued, Lineage
<1>3. row[t] \in Row
  BY <1>2 DEF RowsInv
<1>4. /\ r \in Row /\ r.status = "running" /\ r.resolved = row[t].resolved
      /\ row' = [row EXCEPT ![t] = r]
  BY <1>1, <1>3 DEF Row, Status, Active
<1>5. t = Root => r.resolved \in {None, Root}
  BY <1>2, <1>4 DEF RowsInv, Active
<1>6. /\ copy' = [copy EXCEPT ![p] = r]
      /\ role' = [role EXCEPT ![p] = "engine"] /\ Goto(p, "running")
  BY <1>1 DEF Begin
<1> HIDE DEF r
<1>7. RowsInv' /\ Lineage' = Lineage /\ MayResolve
  BY <1>2, <1>4, WriteOther DEF Active
<1>8. WorkInv'
  BY <1>1, <1>2, <1>4, <1>5, <1>6, <1>7 DEF WorkInv, Goto, Places
<1>9. KindInv' /\ RestInv'
  BY SameKind, SameRest DEF Begin
<1>10. QED
  BY <1>7, <1>8, <1>9 DEF Kept

LEMMA ClaimNothingKeeps ==
  ASSUME DeliveryInv, NEW p \in Proc, ClaimNothing(p) PROVE Kept
<1> USE DEF DeliveryInv
<1>1. RowsInv' /\ KindInv' /\ Lineage' = Lineage /\ MayResolve
  BY SameRows DEF ClaimNothing
<1>2. job[p] = None
  BY DEF ClaimNothing, WorkInv
<1>3. WorkInv'
  BY <1>1, <1>2, TaskFacts DEF ClaimNothing, Goto, WorkInv, Places
<1>4. RestInv'
  BY SameRest DEF ClaimNothing
<1>5. QED
  BY <1>1, <1>3, <1>4 DEF Kept

\* What holds of the copy of a process that has a job.
LEMMA CopyFacts ==
  ASSUME DeliveryInv, NEW p \in Proc,
         pc[p] \notin {"idle", "claim", "sync_descendant"}
  PROVE  /\ job[p] # None /\ job[p] \in Lineage /\ job[p] \in Task
         /\ copy[p] \in Row /\ copy[p].status # "absent"
         /\ job[p] = Root => copy[p].resolved \in {None, Root}
BY DEF DeliveryInv, WorkInv, Lineage

LEMMA ProgressKeeps == ASSUME DeliveryInv, NEW p \in Proc, Progress(p) PROVE Kept
<1> USE DEF DeliveryInv
<1>1. Goto(p, "running") /\ Save(p, copy[p]) /\ UNCHANGED <<role, job>>
  BY DEF Progress, Goto, WorkInv
<1>2. RowsInv' /\ WorkInv' /\ MayResolve /\ Lineage' = Lineage
  BY <1>1, CopyFacts, SaveStep DEF Progress, Places
<1>3. KindInv' /\ RestInv'
  BY SameKind, SameRest DEF Progress
<1>4. QED
  BY <1>2, <1>3 DEF Kept

LEMMA CompleteKeeps == ASSUME DeliveryInv, NEW p \in Proc, Complete(p) PROVE Kept
<1> USE DEF DeliveryInv
<1>1. PICK q \in {"accepted", "needs_revision"} :
        Save(p, [copy[p] EXCEPT
          !.status = "completed",
          !.delivery = "delivered",
          !.resolved = job[p],
          !.quality = q,
          !.mode = IF @ # "none" THEN @
                   ELSE IF job[p] = Root THEN "primary" ELSE "repaired"])
  BY DEF Complete
<1> DEFINE r == [copy[p] EXCEPT
          !.status = "completed",
          !.delivery = "delivered",
          !.resolved = job[p],
          !.quality = q,
          !.mode = IF @ # "none" THEN @
                   ELSE IF job[p] = Root THEN "primary" ELSE "repaired"]
<1>2. /\ job[p] # None /\ job[p] \in Task /\ copy[p] \in Row
      /\ Goto(p, "sync") /\ UNCHANGED <<role, job>>
  BY CopyFacts DEF Complete
<1>3. r \in Row /\ r.status = "completed" /\ r.resolved = job[p]
  BY <1>2 DEF Row, Status, Delivery, Mode, Quality
<1>4. Save(p, r)
  BY <1>1
<1> HIDE DEF r
<1>5. RowsInv' /\ WorkInv' /\ MayResolve /\ Lineage' = Lineage
  BY <1>2, <1>3, <1>4, SaveStep DEF Places
<1>6. KindInv'
  BY SameKind DEF Complete
<1>7. RestInv'
  BY <1>2 DEF Complete, RestInv, Issue
<1>8. QED
  BY <1>5, <1>6, <1>7 DEF Kept

\* A copy with another status or delivery.
LEMMA MarkStep ==
  ASSUME DeliveryInv, NEW p \in Proc, NEW place \in Places,
         pc[p] \notin {"idle", "claim", "sync_descendant"},
         place \notin {"idle", "claim"},
         NEW s \in Status \ {"absent"}, NEW d \in Delivery,
         Save(p, [copy[p] EXCEPT !.status = s, !.delivery = d]),
         Goto(p, place), UNCHANGED <<role, job>>
  PROVE  RowsInv' /\ WorkInv' /\ MayResolve /\ Lineage' = Lineage
<1> DEFINE r == [copy[p] EXCEPT !.status = s, !.delivery = d]
<1>1. r \in Row /\ r.status # "absent" /\ r.resolved = copy[p].resolved
  BY CopyFacts DEF Row
<1>2. Save(p, r)
  OBVIOUS
<1> HIDE DEF r
<1>3. QED
  BY <1>1, <1>2, CopyFacts, SaveStep DEF DeliveryInv

LEMMA FailKeeps ==
  ASSUME DeliveryInv, NEW p \in Proc, Fail(p) \/ FailLate(p) PROVE Kept
<1> USE DEF DeliveryInv
<1>1. PICK i \in Issue : issue' = [issue EXCEPT ![job[p]] = i]
  BY EnvironmentAssumption DEF Fail, FailLate, Issue
<1>2. /\ pc[p] \notin {"idle", "claim", "sync_descendant"}
      /\ Save(p, [copy[p] EXCEPT !.status = "failed"])
      /\ Goto(p, "repair") /\ UNCHANGED <<role, job, parent, kind, files>>
  BY DEF Fail, FailLate
<1>3. copy[p] \in Row
  BY DEF WorkInv
<1>4. [copy[p] EXCEPT !.status = "failed"]
        = [copy[p] EXCEPT !.status = "failed", !.delivery = copy[p].delivery]
  BY <1>3 DEF Row
<1>5. RowsInv' /\ WorkInv' /\ MayResolve /\ Lineage' = Lineage
  <2>1. copy[p].delivery \in Delivery /\ "failed" \in Status \ {"absent"}
    BY <1>3 DEF Row, Status
  <2>2. Save(p, [copy[p] EXCEPT !.status = "failed", !.delivery = copy[p].delivery])
    BY <1>2, <1>4
  <2>3. "repair" \in Places \ {"idle", "claim"}
    BY DEF Places
  <2>4. QED
    BY <1>2, <2>1, <2>2, <2>3, MarkStep
<1>6. KindInv'
  BY <1>2, SameKind
<1>7. events' \in 0..MaxEvents
  BY SettingsAssumption DEF Fail, FailLate, Happens, RestInv
<1>8. RestInv'
  BY <1>1, <1>2, <1>7, CopyFacts DEF RestInv, files
<1>9. QED
  BY <1>5, <1>6, <1>8 DEF Kept

LEMMA RunKeeps ==
  ASSUME DeliveryInv, NEW p \in Proc, Run(p) \/ Progress(p) \/ FailLate(p)
  PROVE  Kept
BY BeginKeeps, ClaimNothingKeeps, ProgressKeeps, CompleteKeeps, FailKeeps DEF Run

\* The end of a process's work, whatever it wrote last.
LEMMA FinishStep ==
  ASSUME DeliveryInv, NEW p \in Proc, Finish(p),
         RowsInv', KindInv', Lineage \subseteq Lineage', MayResolve,
         UNCHANGED <<issue, files, events>>
  PROVE  Kept
BY FinishWork, SameRest DEF DeliveryInv, Kept

LEMMA DecideKeeps ==
  ASSUME DeliveryInv, NEW p \in Proc,
         Repair(p) \/ CreateRepair(p) \/ Degrade(p) \/ CreateDegraded(p)
  PROVE  Kept
<1>1. /\ pc[p] \in {"repair", "create_repair", "degrade", "create_degraded"}
      /\ UNCHANGED <<rows, issue, files, role, job, copy, events>>
  BY DEF Repair, CreateRepair, Degrade, CreateDegraded
<1>2. \E place \in {"create_repair", "insert_repair", "degrade", "emergency",
                    "create_degraded", "insert_degraded"} : Goto(p, place)
  BY DEF Repair, CreateRepair, Degrade, CreateDegraded
<1>3. QED
  BY <1>1, <1>2, MoveStep DEF Places

LEMMA InsertRecoveryKeeps ==
  ASSUME DeliveryInv, NEW p \in Proc, InsertRecovery(p) PROVE Kept
<1>1. pc[p] \in {"insert_repair", "insert_degraded"}
  BY DEF InsertRecovery
<1>2. PICK k \in {"repair", "degraded"} : InsertChild(job[p], k)
  BY DEF InsertRecovery
<1>3. /\ RowsInv' /\ KindInv' /\ Lineage \subseteq Lineage'
      /\ row'[Root] = row[Root]
  BY <1>1, <1>2, CopyFacts, InsertRow DEF DeliveryInv, Kind
<1>4. QED
  BY <1>3, OwnResolution, FinishStep DEF InsertRecovery, DeliveryInv

LEMMA EmergencyKeeps == ASSUME DeliveryInv, NEW p \in Proc, Emergency(p) PROVE Kept
<1> USE DEF DeliveryInv
<1> DEFINE r == [copy[p] EXCEPT
       !.status = "completed",
       !.delivery = "delivered",
       !.resolved = job[p],
       !.mode = IF parent[job[p]] = None THEN "emergency" ELSE "degraded"]
<1>1. /\ pc[p] = "emergency" /\ Save(p, r) /\ Goto(p, "sync_guaranteed")
      /\ UNCHANGED <<role, job>>
  BY DEF Emergency
<1>2. job[p] # None /\ job[p] \in Task /\ copy[p] \in Row
  BY <1>1, CopyFacts
<1>3. r \in Row /\ r.status = "completed" /\ r.resolved = job[p]
  BY <1>2 DEF Row, Status, Delivery, Mode
<1> HIDE DEF r
<1>4. RowsInv' /\ WorkInv' /\ MayResolve /\ Lineage' = Lineage
  BY <1>1, <1>2, <1>3, SaveStep DEF Places
<1>5. KindInv'
  BY SameKind DEF Emergency
<1>6. RestInv'
  BY <1>2 DEF Emergency, RestInv
<1>7. QED
  BY <1>4, <1>5, <1>6 DEF Kept

\* The watchdog and _mark_delivery_failed mark the job as failed.
LEMMA MarkKeeps ==
  ASSUME DeliveryInv, NEW p \in Proc, GiveUp(p) \/ FailLost(p) \/ Kill(p)
  PROVE  Kept
<1> USE DEF DeliveryInv
<1>1. /\ pc[p] \notin {"idle", "claim", "sync_descendant"}
      /\ UNCHANGED <<parent, kind, issue, files, role, job, events>>
  BY DEF GiveUp, FailLost, Kill
<1>2. copy[p] \in Row /\ copy[p].status \in Status \ {"absent"}
  BY <1>1, CopyFacts DEF Row
<1>3. PICK s \in Status \ {"absent"} :
        Save(p, [copy[p] EXCEPT !.status = s, !.delivery = "failed"])
  <2>1. CASE GiveUp(p)
    <3>1. [copy[p] EXCEPT !.delivery = "failed"]
            = [copy[p] EXCEPT !.status = copy[p].status, !.delivery = "failed"]
      BY <1>2 DEF Row
    <3>2. QED
      BY <1>2, <2>1, <3>1 DEF GiveUp
  <2>2. CASE FailLost(p) \/ Kill(p)
    BY <2>2 DEF FailLost, Kill, Status
  <2>3. QED
    BY <2>1, <2>2
<1>4. PICK place \in {"fail_root", "repair", "kill_root"} : Goto(p, place)
  BY DEF GiveUp, FailLost, Kill
<1>5. place \in Places /\ place \notin {"idle", "claim"}
  BY DEF Places
<1>6. RowsInv' /\ WorkInv' /\ MayResolve /\ Lineage' = Lineage
  BY <1>1, <1>3, <1>4, <1>5, MarkStep DEF Delivery
<1>7. KindInv' /\ RestInv'
  BY <1>1, SameKind, SameRest
<1>8. QED
  BY <1>6, <1>7 DEF Kept

\* They mark the root after it.
LEMMA MarkRootKeeps ==
  ASSUME DeliveryInv, NEW p \in Proc, FailRoot(p) \/ KillRoot(p) PROVE Kept
<1> USE DEF DeliveryInv
<1>1. Root \in Lineage /\ Root \in Task /\ row[Root] \in Row
      /\ row[Root].status # "absent"
  BY TaskFacts DEF RowsInv, Lineage
<1>2. UNCHANGED <<parent, kind, issue, files, events>> /\ Finish(p)
  BY DEF FailRoot, KillRoot
<1>3. KindInv'
  BY <1>2, SameKind
<1>4. CASE job[p] = Root
  <2>1. UNCHANGED rows
    BY <1>4 DEF FailRoot, KillRoot, rows
  <2>2. QED
    BY <1>2, <2>1, SameRows, FinishStep
<1>5. CASE job[p] # Root /\ FailRoot(p)
  <2> DEFINE r == [row[Root] EXCEPT !.delivery = "failed"]
  <2>1. r \in Row /\ r.status = row[Root].status /\ r.resolved = row[Root].resolved
    BY <1>1 DEF Row, Delivery
  <2>2. row' = [row EXCEPT ![Root] = r]
    BY <1>5 DEF FailRoot
  <2> HIDE DEF r
  <2>3. QED
    BY <1>1, <1>2, <1>3, <2>1, <2>2, WriteOther, FinishStep
<1>6. CASE job[p] # Root /\ KillRoot(p)
  <2> DEFINE r == [row[Root] EXCEPT !.status = "failed", !.delivery = "failed"]
  <2>1. r \in Row /\ r.status = "failed" /\ r.resolved = row[Root].resolved
    BY <1>1 DEF Row, Status, Delivery
  <2>2. row' = [row EXCEPT ![Root] = r]
    BY <1>1, <1>6 DEF KillRoot, RowsInv
  <2> HIDE DEF r
  <2>3. QED
    BY <1>1, <1>2, <1>3, <2>1, <2>2, WriteOther, FinishStep DEF Active
<1>7. QED
  BY <1>4, <1>5, <1>6

LEMMA RecoverKeeps ==
  ASSUME DeliveryInv, NEW p \in Proc, Recover(p) PROVE Kept
BY DecideKeeps, InsertRecoveryKeeps, EmergencyKeeps, MarkKeeps, MarkRootKeeps
DEF Recover

\* A delivered task resolves the root, unless it is a challenger.
LEMMA ResolutionStep ==
  ASSUME DeliveryInv, NEW p \in Proc, pc[p] \notin {"idle", "claim"},
         SyncResolution(p)
  PROVE  RowsInv' /\ Lineage' = Lineage /\ MayResolve
<1> USE DEF DeliveryInv
<1>1. job[p] \in Lineage /\ job[p] \in Task /\ copy[p] \in Row
  BY DEF WorkInv, Lineage
<1>2. Root \in Lineage /\ Root \in Task /\ row[Root] \in Row
  BY TaskFacts DEF RowsInv
<1>3. CASE job[p] # Root /\ kind[job[p]] = "challenger"
  <2>1. UNCHANGED row
    BY <1>3 DEF SyncResolution
  <2>2. RowsInv' /\ Lineage' = Lineage
    BY <2>1 DEF RowsInv, Lineage, Leaf
  <2>3. QED
    BY <2>1, <2>2, OwnResolution
<1>4. CASE ~ (job[p] # Root /\ kind[job[p]] = "challenger")
  <2> DEFINE r == [row[Root] EXCEPT !.status = "completed",
                                    !.delivery = "delivered",
                                    !.resolved = job[p],
                                    !.mode = copy[p].mode]
  <2>1. row' = [row EXCEPT ![Root] = r]
    BY <1>4 DEF SyncResolution, SyncAlways
  <2>2. r \in Row /\ r.status = "completed" /\ r.resolved = job[p]
    BY <1>1, <1>2 DEF Row, Status, Delivery
  <2> HIDE DEF r
  <2>3. RowsInv' /\ Lineage' = Lineage
    BY <1>1, <1>2, <2>1, <2>2, WriteRow DEF Active
  <2>4. row'[Root].resolved = job[p]
    BY <1>2, <2>1, <2>2 DEF RowsInv
  <2>5. MayResolve
    BY <1>4, <2>4, OwnResolution DEF MayResolve
  <2>6. QED
    BY <2>3, <2>5
<1>5. QED
  BY <1>3, <1>4

LEMMA SyncRootKeeps == ASSUME DeliveryInv, NEW p \in Proc, SyncRoot(p) PROVE Kept
<1>1. /\ pc[p] \in {"sync", "sync_guaranteed", "sync_descendant"}
      /\ SyncResolution(p)
      /\ UNCHANGED <<parent, kind, issue, files, events>>
  BY DEF SyncRoot
<1>2. RowsInv' /\ Lineage' = Lineage /\ MayResolve
  BY <1>1, ResolutionStep
<1>3. KindInv' /\ RestInv'
  BY <1>1, SameKind, SameRest DEF DeliveryInv
<1>4. CASE Finish(p)
  BY <1>1, <1>2, <1>3, <1>4, FinishStep
<1>5. CASE /\ pc[p] = "sync" /\ Goto(p, "challenge")
           /\ UNCHANGED <<role, job, copy>>
  <2>1. job[p] # None
    BY <1>5, CopyFacts
  <2>2. WorkInv'
    BY <1>2, <1>5, <2>1, GoOnAsIs DEF DeliveryInv, Places
  <2>3. QED
    BY <1>2, <1>3, <2>2 DEF Kept, DeliveryInv
<1>6. QED
  BY <1>4, <1>5 DEF SyncRoot

LEMMA ChallengeKeeps ==
  ASSUME DeliveryInv, NEW p \in Proc, Challenge(p) PROVE Kept
BY MoveStep DEF Challenge, Places

LEMMA InsertChallengerKeeps ==
  ASSUME DeliveryInv, NEW p \in Proc, InsertChallenger(p) PROVE Kept
<1> USE DEF DeliveryInv
<1>1. /\ pc[p] = "insert_challenger" /\ InsertChild(job[p], "challenger")
      /\ Goto(p, "promote")
      /\ UNCHANGED <<issue, files, role, job, copy, events>>
  BY DEF InsertChallenger
<1>2. job[p] # None /\ job[p] \in Lineage
  BY <1>1, CopyFacts
<1>3. /\ RowsInv' /\ KindInv' /\ Lineage \subseteq Lineage'
      /\ row'[Root] = row[Root]
  BY <1>1, <1>2, InsertRow DEF Kind
<1>4. WorkInv'
  BY <1>1, <1>2, <1>3, GoOnAsIs DEF Places
<1>5. RestInv'
  BY <1>1, SameRest
<1>6. QED
  BY <1>3, <1>4, <1>5, OwnResolution DEF Kept

\* An acceptance marks what it makes the resolution.
LEMMA AcceptStep ==
  ASSUME RowsInv, NEW t \in Lineage, Accept(t)
  PROVE  RowsInv' /\ Lineage' = Lineage /\ MayResolve
BY AcceptRow DEF MayResolve

LEMMA PromoteKeeps == ASSUME DeliveryInv, NEW p \in Proc, Promote(p) PROVE Kept
<1>1. /\ pc[p] = "promote" /\ Finish(p)
      /\ UNCHANGED <<parent, kind, issue, files, events>>
  BY DEF Promote
<1>2. job[p] \in Lineage
  BY <1>1, CopyFacts
<1>3. KindInv'
  BY <1>1, SameKind DEF DeliveryInv
<1>4. CASE Accept(job[p])
  BY <1>1, <1>2, <1>3, <1>4, AcceptStep, FinishStep DEF DeliveryInv
<1>5. CASE UNCHANGED row
  BY <1>1, <1>5, SameRows, FinishStep DEF DeliveryInv, rows
<1>6. QED
  BY <1>4, <1>5 DEF Promote

LEMMA SettleKeeps == ASSUME DeliveryInv, NEW p \in Proc, Settle(p) PROVE Kept
BY SyncRootKeeps, ChallengeKeeps, InsertChallengerKeeps, PromoteKeeps DEF Settle

-----------------------------------------------------------------------------
(* The watchdog.  Where it turns to the root, the root is the only task or   *)
(* resolves itself.                                                          *)

LEMMA SweepKeeps == ASSUME DeliveryInv, NEW p \in Proc, Sweep(p) PROVE Kept
<1> USE DEF DeliveryInv
<1>1. pc[p] = "idle" /\ UNCHANGED <<rows, issue, files, events>>
  BY DEF Sweep
<1>2. RowsInv' /\ KindInv' /\ RestInv' /\ Lineage' = Lineage /\ MayResolve
  BY <1>1, SameRows, SameRest
<1>3. Leaf \in Lineage /\ (Leaf = Root => row[Root].resolved \in {None, Root})
  BY LeafFacts DEF RowsInv, Root
<1>4. WorkInv'
  <2>1. CASE SweepChallenger(p)
    BY <1>2, <1>3, <2>1, TakeWork DEF SweepChallenger, OpenChallenger, KindInv, Places
  <2>2. CASE SweepDescendant(p)
    BY <1>2, <2>2, TakeWork DEF SweepDescendant, Deliverable, Places
  <2>3. CASE SweepLost(p)
    <3>1. PICK t \in Lost : Take(p, "watchdog", t, "lost")
      BY <2>3 DEF SweepLost
    <3>2. t \in Lineage /\ (t = Root => row[Root].resolved \in {None, Root})
      BY <1>3 DEF Lost, Missing, Resolution, RowsInv
    <3>3. QED
      BY <1>2, <3>1, <3>2, TakeWork DEF Places
  <2>4. CASE SweepFailed(p)
    BY <1>2, <1>3, <2>4, TakeWork DEF SweepFailed, Places
  <2>5. CASE SweepUnready(p)
    BY <1>2, <1>3, <2>5, TakeWork DEF SweepUnready, Places
  <2>6. CASE SweepNothing(p)
    <3>1. job[p] = None
      BY <1>1 DEF WorkInv
    <3>2. QED
      BY <1>2, <2>6, <3>1, TaskFacts DEF SweepNothing, Goto, WorkInv, Places
  <2>7. QED
    BY <2>1, <2>2, <2>3, <2>4, <2>5, <2>6 DEF Sweep
<1>5. QED
  BY <1>2, <1>4 DEF Kept

LEMMA WatchKeeps == ASSUME DeliveryInv, NEW p \in Proc, Watch(p) PROVE Kept
BY SweepKeeps, MarkKeeps, MarkRootKeeps DEF Watch

-----------------------------------------------------------------------------
(* Requests and failures *)

LEMMA BranchKeeps ==
  ASSUME DeliveryInv, NEW base \in Lineage, Revise(base) \/ Retry(base)
  PROVE  Kept
<1> USE DEF DeliveryInv
<1>1. PICK k \in {"challenger", "revision"} : InsertChild(base, k)
  BY DEF Revise, Retry
<1>2. /\ RowsInv' /\ KindInv' /\ Lineage \subseteq Lineage'
      /\ row'[Root] = row[Root]
  BY <1>1, InsertRow DEF Kind
<1>3. RestInv'
  BY HappensRest DEF Revise, Retry
<1>4. WorkInv'
  BY <1>2, RestWork DEF Revise, Retry
<1>5. QED
  BY <1>2, <1>3, <1>4, OwnResolution DEF Kept

LEMMA AcceptRequestKeeps ==
  ASSUME DeliveryInv, NEW t \in Lineage, AcceptRequest(t) PROVE Kept
<1> USE DEF DeliveryInv
<1>1. RowsInv' /\ Lineage' = Lineage /\ MayResolve
  BY AcceptStep DEF AcceptRequest
<1>2. WorkInv' /\ KindInv' /\ RestInv'
  BY <1>1, RestWork, SameKind, HappensRest DEF AcceptRequest
<1>3. QED
  BY <1>1, <1>2 DEF Kept

LEMMA StatusKeeps ==
  ASSUME DeliveryInv, NEW t \in Task, Cancel(t) \/ Requeue(t), t \in Lineage
  PROVE  Kept
<1> USE DEF DeliveryInv
<1>1. PICK s \in {"cancelled", "queued"} :
        /\ row' = [row EXCEPT ![t].status = s]
        /\ s = "queued" => row[t].status = "running"
  BY DEF Cancel, Requeue
<1> DEFINE r == [row[t] EXCEPT !.status = s]
<1>2. row[t] \in Row
  BY DEF RowsInv
<1>3. /\ r \in Row /\ r.status = s /\ r.resolved = row[t].resolved
      /\ row' = [row EXCEPT ![t] = r]
  BY <1>1, <1>2 DEF Row, Status, Active
<1> HIDE DEF r
<1>4. RowsInv' /\ Lineage' = Lineage /\ MayResolve
  BY <1>1, <1>3, WriteOther DEF Active
<1>5. UNCHANGED <<parent, kind, issue, files, worker>>
  BY DEF Cancel, Requeue
<1>6. WorkInv' /\ KindInv'
  BY <1>4, <1>5, RestWork, SameKind
<1>7. events' \in 0..MaxEvents
  BY SettingsAssumption DEF Cancel, Requeue, Happens, RestInv
<1>8. RestInv'
  BY <1>5, <1>7 DEF RestInv, files
<1>9. QED
  BY <1>4, <1>6, <1>8 DEF Kept

LEMMA CrashKeeps == ASSUME DeliveryInv, NEW p \in Proc, Crash(p) PROVE Kept
<1> USE DEF DeliveryInv
<1>1. RowsInv' /\ KindInv' /\ Lineage' = Lineage /\ MayResolve
  BY SameRows DEF Crash
<1>2. WorkInv'
  BY <1>1, TaskFacts, BlankRowType DEF Crash, Goto, WorkInv, Places
<1>3. RestInv'
  BY HappensRest DEF Crash
<1>4. QED
  BY <1>1, <1>2, <1>3 DEF Kept

LEMMA LossKeeps == ASSUME DeliveryInv, NEW t \in Task, LoseVideo(t) PROVE Kept
<1> USE DEF DeliveryInv
<1>1. RowsInv' /\ KindInv' /\ Lineage' = Lineage /\ MayResolve
  BY SameRows DEF LoseVideo
<1>2. WorkInv'
  BY <1>1, RestWork DEF LoseVideo
<1>3. events' \in 0..MaxEvents
  BY SettingsAssumption DEF LoseVideo, Happens, RestInv
<1>4. RestInv'
  BY <1>3 DEF LoseVideo, RestInv
<1>5. QED
  BY <1>1, <1>2, <1>4 DEF Kept

-----------------------------------------------------------------------------
(* The invariant and the theorems *)

LEMMA InitDelivery == Init => DeliveryInv
<1> SUFFICES ASSUME Init PROVE DeliveryInv
  OBVIOUS
<1> USE TaskFacts
<1>1. row \in [Task -> Row] /\ row[Root] = [BlankRow EXCEPT !.status = "queued"]
  BY BlankRowType DEF Init, BlankRow, Row, Status, Active, Delivery, Mode, Quality
<1>2. Lineage = {Root}
  BY DEF Init, Lineage, BlankRow
<1>3. Lineage = 1..Leaf
  <2>1. Leaf = 1
    BY <1>2, FS_Singleton DEF Leaf
  <2>2. 1..1 = {Root}
    BY DEF Root
  <2>3. QED
    BY <1>2, <2>1, <2>2
<1>4. RowsInv
  BY <1>1, <1>2, <1>3 DEF RowsInv, BlankRow
<1>5. KindInv
  BY DEF Init, KindInv, Kind
<1>6. WorkInv
  BY BlankRowType DEF Init, WorkInv, Places
<1>7. RestInv
  BY SettingsAssumption DEF Init, RestInv, Issue
<1>8. QED
  BY <1>4, <1>5, <1>6, <1>7 DEF DeliveryInv

LEMMA StepKeeps == ASSUME DeliveryInv, Next PROVE Kept
<1>1. CASE \E p \in Proc : Step(p) \/ Progress(p) \/ FailLate(p) \/ Crash(p)
  BY <1>1, RunKeeps, RecoverKeeps, SettleKeeps, WatchKeeps, CrashKeeps DEF Step
<1>2. CASE \E t \in Task : Requeue(t) \/ LoseVideo(t)
  <2>1. PICK t \in Task : Requeue(t) \/ LoseVideo(t)
    BY <1>2
  <2>2. CASE Requeue(t)
    BY <2>2, StatusKeeps DEF Requeue, Lineage
  <2>3. QED
    BY <2>1, <2>2, LossKeeps
<1>3. CASE Api
  <2>1. PICK t \in Lineage : Revise(t) \/ Retry(t) \/ AcceptRequest(t) \/ Cancel(t)
    BY <1>3 DEF Api
  <2>2. t \in Task
    BY DEF Lineage
  <2>3. QED
    BY <2>1, <2>2, BranchKeeps, AcceptRequestKeeps, StatusKeeps
<1>4. QED
  BY <1>1, <1>2, <1>3 DEF Next

LEMMA StutterKeeps == ASSUME DeliveryInv, UNCHANGED vars PROVE DeliveryInv'
BY SameRows, RestWork, SameRest DEF DeliveryInv, vars

LEMMA DeliveryInvariant == Spec => []DeliveryInv
<1>1. DeliveryInv /\ [Next]_vars => DeliveryInv'
  BY StepKeeps, StutterKeeps DEF Kept
<1>2. QED
  BY InitDelivery, <1>1, PTL DEF Spec

\* Every variable keeps to its set and the lineage is a segment of the tasks,
\* for any number of processes and any settings.
THEOREM TypeCorrect == Spec => []TypeOK
BY DeliveryInvariant, InvTypeOK, PTL

\* No step of an engine, of a watchdog or of a request makes a challenger the
\* resolution of its root but an acceptance, whatever the races between them
\* and the crashes.
THEOREM PromotionNeedsAcceptance == Spec => ChallengerNeedsAcceptance
<1>1. DeliveryInv /\ [Next]_vars =>
        [\A c \in Task :
           /\ kind[c] = "challenger"
           /\ row'[Root].resolved = c
           /\ row[Root].resolved # c
           => row'[c].best]_vars
  BY StepKeeps DEF Kept, MayResolve
<1>2. QED
  BY DeliveryInvariant, <1>1, PTL DEF Spec, ChallengerNeedsAcceptance

-----------------------------------------------------------------------------
(* The budgets.  A process passes the limit in one transaction and inserts   *)
(* the child in a later one: what is bounded is the number of children made  *)
(* together with the processes that have passed the limit.                   *)

MadeAs(k) == {t \in Task : kind[t] = k}
At(places) == {p \in Proc : pc[p] \in places}
Spent(k, places) == Cardinality(MadeAs(k)) + Cardinality(At(places))

RepairPlaces   == {"create_repair", "insert_repair"}
DegradedPlaces == {"create_degraded", "insert_degraded"}

\* A branch is in the lineage, below another task, and a degraded attempt
\* keeps its delivery mode in its row and in every copy of it.
BranchInv ==
  /\ \A t \in Task : kind[t] # "root" => t \in Lineage /\ parent[t] # None
  /\ \A t \in Task : kind[t] = "degraded" => row[t].mode = "degraded"
  /\ \A p \in Proc : job[p] # None /\ kind[job[p]] = "degraded"
                       => copy[p].mode = "degraded"

BudgetInv ==
  /\ Spent("repair", RepairPlaces) <= MaxRepairs + Cardinality(Proc) - 1
  /\ Spent("degraded", DegradedPlaces) <= Cardinality(Proc)

LEMMA SpentType ==
  ASSUME NEW k, NEW places
  PROVE  /\ IsFiniteSet(MadeAs(k)) /\ IsFiniteSet(At(places))
         /\ Cardinality(MadeAs(k)) \in Nat /\ Cardinality(At(places)) \in Nat
         /\ Cardinality(At(places)) <= Cardinality(Proc)
         /\ Cardinality(Proc) \in Nat /\ Cardinality(Proc) > 0
<1>1. IsFiniteSet(MadeAs(k)) /\ IsFiniteSet(At(places))
      /\ Cardinality(At(places)) <= Cardinality(Proc)
  BY TaskFacts, EnvironmentAssumption, FS_Subset DEF MadeAs, At
<1>2. QED
  BY <1>1, EnvironmentAssumption, FS_CardinalityType, FS_EmptySet

\* Nobody arrives at the places and no such child is made.
LEMMA SpentLess ==
  ASSUME NEW k, NEW places, MadeAs(k)' \subseteq MadeAs(k),
         At(places)' \subseteq At(places)
  PROVE  Spent(k, places)' \in Nat /\ Spent(k, places)' <= Spent(k, places)
<1>1. /\ Cardinality(MadeAs(k)') <= Cardinality(MadeAs(k))
      /\ Cardinality(At(places)') <= Cardinality(At(places))
      /\ Cardinality(MadeAs(k)') \in Nat /\ Cardinality(At(places)') \in Nat
  BY SpentType, FS_Subset, FS_CardinalityType
<1>2. QED
  BY <1>1, SpentType DEF Spent

\* One process leaves the places with a child made.
LEMMA SpentMoved ==
  ASSUME NEW k, NEW places, NEW p \in At(places), NEW c,
         MadeAs(k)' \subseteq MadeAs(k) \cup {c},
         At(places)' \subseteq At(places) \ {p}
  PROVE  Spent(k, places)' \in Nat /\ Spent(k, places)' <= Spent(k, places)
<1> DEFINE M == MadeAs(k)
           A == At(places)
<1>1. /\ Cardinality(A \ {p}) = Cardinality(A) - 1 
      /\ Cardinality(A') <= Cardinality(A) - 1 /\ Cardinality(A') \in Nat
  BY SpentType, FS_Subset, FS_RemoveElement, FS_CardinalityType
<1>2. /\ Cardinality(M \cup {c}) <= Cardinality(M) + 1
      /\ IsFiniteSet(M \cup {c})
  <2>1. IsFiniteSet(M) /\ Cardinality(M) \in Nat
    BY SpentType
  <2> HIDE DEF M
  <2>2. /\ IsFiniteSet(M \cup {c})
        /\ Cardinality(M \cup {c}) = IF c \in M THEN Cardinality(M)
                                                ELSE Cardinality(M) + 1
    BY <2>1, FS_AddElement, Zenon
  <2>3. QED
    BY <2>1, <2>2
<1>3. Cardinality(M') <= Cardinality(M) + 1 /\ Cardinality(M') \in Nat
  BY <1>2, SpentType, FS_Subset, FS_CardinalityType
<1>4. QED
  BY <1>1, <1>3, SpentType DEF Spent


LEMMA BudgetType ==
  /\ MaxRepairs \in Nat
  /\ Cardinality(Proc) \in Nat
  /\ \A k, places : Spent(k, places) \in Nat
BY SpentType, SettingsAssumption DEF Spent

\* A step that makes no child, after which a process is at another place or
\* at the same of the two pairs of places.
LEMMA BudgetKept ==
  ASSUME BudgetInv, WorkInv, BudgetType, UNCHANGED kind, NEW p \in Proc, NEW place,
         pc' = [pc EXCEPT ![p] = place],
         place \in RepairPlaces => pc[p] \in RepairPlaces,
         place \in DegradedPlaces => pc[p] \in DegradedPlaces
  PROVE  BudgetInv'
<1>1. \A k : MadeAs(k)' = MadeAs(k)
  BY DEF MadeAs
<1>2. At(RepairPlaces)' \subseteq At(RepairPlaces)
  BY DEF At, WorkInv, RepairPlaces
<1>3. At(DegradedPlaces)' \subseteq At(DegradedPlaces)
  BY DEF At, WorkInv, DegradedPlaces
<1>4. /\ Spent("repair", RepairPlaces)' <= Spent("repair", RepairPlaces)
      /\ Spent("repair", RepairPlaces)' \in Nat
  BY <1>1, <1>2, SpentLess DEF RepairPlaces
<1>5. /\ Spent("degraded", DegradedPlaces)' <= Spent("degraded", DegradedPlaces)
      /\ Spent("degraded", DegradedPlaces)' \in Nat
  BY <1>1, <1>3, SpentLess DEF DegradedPlaces
<1>6. QED
  BY <1>4, <1>5, BudgetType DEF BudgetInv

Thrifty == BranchInv' /\ BudgetInv'

\* The tasks keep their kinds and, as far as it matters, their modes.
LEMMA BranchKept ==
  ASSUME BranchInv, Lineage \subseteq Lineage', UNCHANGED <<parent, kind>>,
         \A t \in Task : kind[t] = "degraded" => row'[t].mode = "degraded",
         \A p \in Proc : job'[p] # None /\ kind[job'[p]] = "degraded"
                           => copy'[p].mode = "degraded"
  PROVE  BranchInv'
BY DEF BranchInv

\* A process writes its copy back.
LEMMA SaveThrifty ==
  ASSUME DeliveryInv, BranchInv, BudgetInv, Lineage \subseteq Lineage',
         NEW p \in Proc, NEW place, NEW r,
         job[p] # None, Save(p, r), UNCHANGED <<parent, kind, job>>,
         kind[job[p]] = "degraded" => r.mode = "degraded",
         pc' = [pc EXCEPT ![p] = place],
         place \notin {"create_repair", "insert_repair",
                       "create_degraded", "insert_degraded"}
  PROVE  Thrifty
<1> USE DEF DeliveryInv
<1>1. BudgetInv'
  BY BudgetType, BudgetKept DEF RepairPlaces, DegradedPlaces
<1>2. job[p] \in Task
  BY DEF WorkInv
<1>3. \A t \in Task : kind[t] = "degraded" => row'[t].mode = "degraded"
  BY <1>2 DEF Save, BranchInv, RowsInv
<1>4. \A q \in Proc : job'[q] # None /\ kind[job'[q]] = "degraded"
                        => copy'[q].mode = "degraded"
  BY DEF Save, BranchInv, WorkInv
<1>5. BranchInv'
  BY <1>3, <1>4, BranchKept
<1>6. QED
  BY <1>1, <1>5 DEF Thrifty

\* A process goes on, or ends its job, with the copy it has; the rows keep
\* their modes.
LEMMA MoveThrifty ==
  ASSUME DeliveryInv, BranchInv, BudgetInv, Lineage \subseteq Lineage',
         NEW p \in Proc, NEW place, UNCHANGED <<parent, kind>>,
         \A t \in Task : kind[t] = "degraded" => row'[t].mode = "degraded",
         \A q \in Proc : job'[q] # None => job'[q] = job[q] /\ copy'[q] = copy[q],
         pc' = [pc EXCEPT ![p] = place],
         place \in {"create_repair", "insert_repair"}
           => pc[p] \in {"create_repair", "insert_repair"},
         place \in {"create_degraded", "insert_degraded"}
           => pc[p] \in {"create_degraded", "insert_degraded"}
  PROVE  Thrifty
<1>1. BudgetInv'
  BY BudgetType, BudgetKept DEF DeliveryInv, RepairPlaces, DegradedPlaces
<1>2. \A q \in Proc : job'[q] # None /\ kind[job'[q]] = "degraded"
                        => copy'[q].mode = "degraded"
  BY DEF BranchInv
<1>3. BranchInv'
  BY <1>2, BranchKept
<1>4. QED
  BY <1>1, <1>3 DEF Thrifty

\* It turns to a task, whose row it reads.
LEMMA TakeThrifty ==
  ASSUME DeliveryInv, BranchInv, BudgetInv, Lineage \subseteq Lineage',
         NEW p \in Proc, NEW place, NEW t \in Lineage, NEW r,
         UNCHANGED <<parent, kind>>, r.mode = row[t].mode,
         job' = [job EXCEPT ![p] = t], copy' = [copy EXCEPT ![p] = r],
         \A u \in Task : row'[u].mode = row[u].mode,
         pc' = [pc EXCEPT ![p] = place],
         place \notin {"create_repair", "insert_repair",
                       "create_degraded", "insert_degraded"}
  PROVE  Thrifty
<1>1. BudgetInv'
  BY BudgetType, BudgetKept DEF DeliveryInv, RepairPlaces, DegradedPlaces
<1>2. t \in Task
  BY DEF Lineage
<1>3. \A q \in Proc : job'[q] # None /\ kind[job'[q]] = "degraded"
                        => copy'[q].mode = "degraded"
  BY <1>2 DEF BranchInv, DeliveryInv, WorkInv
<1>4. BranchInv'
  BY <1>3, BranchKept DEF BranchInv
<1>5. QED
  BY <1>1, <1>4 DEF Thrifty

\* A child is made.
LEMMA InsertBranch ==
  ASSUME DeliveryInv, BranchInv, NEW base \in Lineage, NEW k \in Kind, k # "root",
         InsertChild(base, k), Lineage \subseteq Lineage',
         \A q \in Proc : job'[q] # None => job'[q] = job[q] /\ copy'[q] = copy[q]
  PROVE  /\ BranchInv'
         /\ \A l \in Kind : MadeAs(l)' \subseteq
              MadeAs(l) \cup (IF l = k THEN {Leaf + 1} ELSE {})
<1> USE DEF DeliveryInv
<1> DEFINE child == Leaf + 1
           new == [BlankRow EXCEPT !.status = "queued",
                                   !.quality = row[base].quality,
                                   !.mode = CASE k = "repair" -> "repaired"
                                              [] k = "degraded" -> "degraded"
                                              [] OTHER -> "none"]
<1>1. /\ child \in Task /\ base \in Task /\ base # None
      /\ row' = [row EXCEPT ![child] = new]
      /\ parent' = [parent EXCEPT ![child] = base]
      /\ kind' = [kind EXCEPT ![child] = k]
  BY TaskFacts DEF InsertChild, Lineage
<1>2. new.status = "queued" /\ (k = "degraded" => new.mode = "degraded")
  BY DEF BlankRow
<1>3. child \notin Lineage
  BY LeafFacts DEF RowsInv, Root
<1> HIDE DEF new, child
<1>4. \A t \in Task : /\ row'[t] = IF t = child THEN new ELSE row[t]
                      /\ parent'[t] = IF t = child THEN base ELSE parent[t]
                      /\ kind'[t] = IF t = child THEN k ELSE kind[t]
  BY <1>1 DEF RowsInv, KindInv
<1>5. child \in Lineage'
  BY <1>1, <1>2, <1>4 DEF Lineage
<1>6. \A t \in Task : kind'[t] # "root" => t \in Lineage' /\ parent'[t] # None
  BY <1>1, <1>4, <1>5 DEF BranchInv
<1>7. \A t \in Task : kind'[t] = "degraded" => row'[t].mode = "degraded"
  BY <1>2, <1>4 DEF BranchInv
<1>8. \A q \in Proc : job'[q] # None /\ kind'[job'[q]] = "degraded"
                        => copy'[q].mode = "degraded"
  <2> SUFFICES ASSUME NEW q \in Proc, job'[q] # None, kind'[job'[q]] = "degraded"
               PROVE  copy'[q].mode = "degraded"
    OBVIOUS
  <2>1. job'[q] = job[q] /\ copy'[q] = copy[q] /\ job[q] \in Lineage /\ job[q] \in Task
    BY DEF WorkInv, Lineage
  <2>2. kind'[job[q]] = kind[job[q]]
    BY <1>3, <1>4, <2>1
  <2>3. QED
    BY <2>1, <2>2 DEF BranchInv
<1>9. BranchInv'
  BY <1>6, <1>7, <1>8 DEF BranchInv
<1>10. \A l \in Kind : MadeAs(l)' \subseteq
                         MadeAs(l) \cup (IF l = k THEN {child} ELSE {})
  BY <1>4 DEF MadeAs
<1>11. QED
  BY <1>9, <1>10 DEF child

LEMMA RunThrifty ==
  ASSUME DeliveryInv, BranchInv, BudgetInv, Lineage \subseteq Lineage',
         NEW p \in Proc, Run(p) \/ Progress(p) \/ FailLate(p)
  PROVE  Thrifty
<1>0. /\ \A t \in Task : kind[t] = "degraded" => row[t].mode = "degraded"
      /\ job[p] # None /\ kind[job[p]] = "degraded" => copy[p].mode = "degraded"
  BY DEF BranchInv
<1>1. CASE Begin(p)
  <2>1. PICK t \in Queued :
          /\ row' = [row EXCEPT ![t].status = "running"]
          /\ copy' = [copy EXCEPT ![p] = [row[t] EXCEPT !.status = "running"]]
          /\ job' = [job EXCEPT ![p] = t]
    BY <1>1 DEF Begin
  <2> DEFINE r == [row[t] EXCEPT !.status = "running"]
  <2>2. t \in Lineage /\ t \in Task /\ row[t] \in Row
    BY DEF Queued, Lineage, RowsInv, DeliveryInv
  <2>3. r.mode = row[t].mode /\ copy' = [copy EXCEPT ![p] = r]
        /\ row' = [row EXCEPT ![t] = r]
    BY <2>1, <2>2 DEF Row
  <2> HIDE DEF r
  <2>4. \A u \in Task : row'[u].mode = row[u].mode
    BY <2>2, <2>3 DEF RowsInv, DeliveryInv
  <2>5. pc' = [pc EXCEPT ![p] = "running"] /\ UNCHANGED <<parent, kind>>
    BY <1>1 DEF Begin, Goto
  <2>6. QED
    BY <2>1, <2>2, <2>3, <2>4, <2>5, TakeThrifty
<1>2. CASE ClaimNothing(p)
  <2>1. /\ pc' = [pc EXCEPT ![p] = "idle"]
        /\ UNCHANGED <<row, parent, kind, job, copy>>
    BY <1>2 DEF ClaimNothing, Goto, rows
  <2>2. QED
    BY <1>0, <2>1, MoveThrifty
<1>3. CASE Progress(p)
  <2>1. /\ pc' = [pc EXCEPT ![p] = "running"] /\ job[p] # None
        /\ UNCHANGED <<parent, kind, job>> /\ Save(p, copy[p])
    BY <1>3 DEF Progress, WorkInv, DeliveryInv
  <2>2. QED
    BY <2>1, SaveThrifty, <1>0
<1>4. CASE Complete(p)
  <2>1. PICK q \in {"accepted", "needs_revision"} :
          Save(p, [copy[p] EXCEPT
            !.status = "completed",
            !.delivery = "delivered",
            !.resolved = job[p],
            !.quality = q,
            !.mode = IF @ # "none" THEN @
                     ELSE IF job[p] = Root THEN "primary" ELSE "repaired"])
    BY <1>4 DEF Complete
  <2> DEFINE r == [copy[p] EXCEPT
            !.status = "completed",
            !.delivery = "delivered",
            !.resolved = job[p],
            !.quality = q,
            !.mode = IF @ # "none" THEN @
                     ELSE IF job[p] = Root THEN "primary" ELSE "repaired"]
  <2>2. /\ pc' = [pc EXCEPT ![p] = "sync"] /\ job[p] # None
        /\ UNCHANGED <<parent, kind, job>> /\ copy[p] \in Row
    BY <1>4 DEF Complete, Goto, WorkInv, DeliveryInv
  <2>3. copy[p].mode = "degraded" => r.mode = "degraded"
    BY <2>2 DEF Row
  <2>4. Save(p, r)
    BY <2>1
  <2> HIDE DEF r
  <2>5. QED
    BY <2>2, <2>3, <2>4, SaveThrifty, <1>0
<1>5. CASE Fail(p) \/ FailLate(p)
  <2> DEFINE r == [copy[p] EXCEPT !.status = "failed"]
  <2>1. /\ pc' = [pc EXCEPT ![p] = "repair"] /\ job[p] # None /\ copy[p] \in Row
        /\ UNCHANGED <<parent, kind, job>> /\ Save(p, r)
    BY <1>5 DEF Fail, FailLate, Goto, WorkInv, DeliveryInv
  <2>2. r.mode = copy[p].mode
    BY <2>1 DEF Row
  <2> HIDE DEF r
  <2>3. QED
    BY <2>1, <2>2, SaveThrifty, <1>0
<1>6. QED
  BY <1>1, <1>2, <1>3, <1>4, <1>5 DEF Run

\* A process passes the limit: what has been spent is below it.
LEMMA RepairEntered ==
  ASSUME DeliveryInv, BranchInv, BudgetInv, UNCHANGED kind,
         NEW p \in Proc, WithinBudget, pc' = [pc EXCEPT ![p] = "create_repair"]
  PROVE  BudgetInv'
<1> USE DEF DeliveryInv
<1>1. MadeAs("repair") \subseteq Lineage \ {Root}
  BY DEF MadeAs, BranchInv, KindInv
<1>2. IsFiniteSet(Lineage)
  BY TaskFacts, FS_Subset DEF Lineage
<1>3. Cardinality(Lineage \ {Root}) = Leaf - 1
  BY <1>2, FS_RemoveElement DEF Leaf, RowsInv
<1>4. Cardinality(MadeAs("repair")) <= Leaf - 1
  BY <1>1, <1>2, <1>3, FS_Subset, FS_RemoveElement
<1>5. /\ Cardinality(MadeAs("repair")) <= MaxRepairs - 1
      /\ MaxRepairs \in Nat
  BY <1>4, LeafFacts, SpentType, SettingsAssumption DEF WithinBudget, Children, Leaf
<1>6. Cardinality(MadeAs("repair")') = Cardinality(MadeAs("repair"))
  BY DEF MadeAs
<1>7. /\ Cardinality(At(RepairPlaces)') \in Nat
      /\ Cardinality(At(RepairPlaces)') <= Cardinality(Proc)
  BY EnvironmentAssumption, FS_Subset, FS_CardinalityType DEF At
<1>8. Spent("repair", RepairPlaces)' <= MaxRepairs + Cardinality(Proc) - 1
  BY <1>5, <1>6, <1>7, SpentType DEF Spent, RepairPlaces
<1>9. At(DegradedPlaces)' \subseteq At(DegradedPlaces)
      /\ MadeAs("degraded")' \subseteq MadeAs("degraded")
  BY DEF At, MadeAs, WorkInv, DegradedPlaces
<1>10. Spent("degraded", DegradedPlaces)' <= Cardinality(Proc)
  <2>1. /\ Spent("degraded", DegradedPlaces)' <= Spent("degraded", DegradedPlaces)
        /\ Spent("degraded", DegradedPlaces)' \in Nat
    BY <1>9, SpentLess DEF DegradedPlaces
  <2>2. QED
    BY <2>1, BudgetType DEF BudgetInv
<1>11. QED
  BY <1>8, <1>10 DEF BudgetInv

LEMMA DegradedEntered ==
  ASSUME DeliveryInv, BranchInv, BudgetInv, UNCHANGED kind,
         NEW p \in Proc, DegradedAttempts = {},
         pc' = [pc EXCEPT ![p] = "create_degraded"]
  PROVE  BudgetInv'
<1> USE DEF DeliveryInv
<1>1. MadeAs("degraded") = {}
  BY DEF MadeAs, BranchInv, KindInv, DegradedAttempts
<1>2. MadeAs("degraded")' = {}
  BY <1>1 DEF MadeAs
<1>3. /\ Cardinality(At(DegradedPlaces)') \in Nat
      /\ Cardinality(At(DegradedPlaces)') <= Cardinality(Proc)
  BY EnvironmentAssumption, FS_Subset, FS_CardinalityType DEF At
<1>4. Spent("degraded", DegradedPlaces)' <= Cardinality(Proc)
  BY <1>2, <1>3, SpentType, FS_EmptySet DEF Spent, DegradedPlaces
<1>5. At(RepairPlaces)' \subseteq At(RepairPlaces)
      /\ MadeAs("repair")' \subseteq MadeAs("repair")
  BY DEF At, MadeAs, WorkInv, RepairPlaces
<1>6. Spent("repair", RepairPlaces)' <= MaxRepairs + Cardinality(Proc) - 1
  <2>1. /\ Spent("repair", RepairPlaces)' <= Spent("repair", RepairPlaces)
        /\ Spent("repair", RepairPlaces)' \in Nat
    BY <1>5, SpentLess DEF RepairPlaces
  <2>2. QED
    BY <2>1, BudgetType DEF BudgetInv
<1>7. QED
  BY <1>4, <1>6 DEF BudgetInv

LEMMA DecideThrifty ==
  ASSUME DeliveryInv, BranchInv, BudgetInv, Lineage \subseteq Lineage',
         NEW p \in Proc,
         Repair(p) \/ CreateRepair(p) \/ Degrade(p) \/ CreateDegraded(p)
           \/ Challenge(p)
  PROVE  Thrifty
<1>1. /\ \A t \in Task : kind[t] = "degraded" => row'[t].mode = "degraded"
      /\ \A q \in Proc : job'[q] # None => job'[q] = job[q] /\ copy'[q] = copy[q]
      /\ UNCHANGED <<parent, kind>>
  BY DEF Repair, CreateRepair, Degrade, CreateDegraded, Challenge, BranchInv, rows
<1>2. BranchInv'
  BY <1>1, BranchKept DEF BranchInv
<1>3. CASE pc' = [pc EXCEPT ![p] = "create_repair"] /\ WithinBudget
  BY <1>1, <1>2, <1>3, RepairEntered DEF Thrifty
<1>4. CASE pc' = [pc EXCEPT ![p] = "create_degraded"] /\ DegradedAttempts = {}
  BY <1>1, <1>2, <1>4, DegradedEntered DEF Thrifty
<1>5. CASE pc[p] = "create_repair" /\ pc' = [pc EXCEPT ![p] = "insert_repair"]
  BY <1>1, <1>5, MoveThrifty
<1>6. CASE pc[p] = "create_degraded" /\ pc' = [pc EXCEPT ![p] = "insert_degraded"]
  BY <1>1, <1>6, MoveThrifty
<1>7. CASE \E place \in {"degrade", "emergency", "insert_challenger", "promote"} :
             pc' = [pc EXCEPT ![p] = place]
  BY <1>1, <1>7, MoveThrifty
<1>8. QED
  BY <1>3, <1>4, <1>5, <1>6, <1>7
  DEF Repair, CreateRepair, Degrade, CreateDegraded, Challenge, Goto

\* The jobs and copies that are left when a process is done with its own.
LEMMA FinishLeaves ==
  ASSUME WorkInv, NEW p \in Proc, Finish(p)
  PROVE  /\ \A q \in Proc : job'[q] # None => job'[q] = job[q] /\ copy'[q] = copy[q]
         /\ \E place \in {"idle", "claim"} : pc' = [pc EXCEPT ![p] = place]
BY DEF WorkInv, Finish, Goto

\* The child comes out of a place that was counted.
LEMMA InsertRecoveryThrifty ==
  ASSUME DeliveryInv, BranchInv, BudgetInv, Lineage \subseteq Lineage',
         NEW p \in Proc, InsertRecovery(p)
  PROVE  Thrifty
<1>1. PICK k \in {"repair", "degraded"} :
        /\ InsertChild(job[p], k)
        /\ pc[p] = IF k = "repair" THEN "insert_repair" ELSE "insert_degraded"
  BY DEF InsertRecovery
<1>2. k \in Kind /\ k # "root" /\ job[p] \in Lineage
  BY <1>1, CopyFacts DEF Kind
<1>3. PICK place \in {"idle", "claim"} : pc' = [pc EXCEPT ![p] = place]
  BY FinishLeaves DEF InsertRecovery, DeliveryInv
<1>4. \A q \in Proc : job'[q] # None => job'[q] = job[q] /\ copy'[q] = copy[q]
  BY FinishLeaves DEF InsertRecovery, DeliveryInv
<1>5. /\ BranchInv'
      /\ \A l \in Kind : MadeAs(l)' \subseteq
           MadeAs(l) \cup (IF l = k THEN {Leaf + 1} ELSE {})
  BY <1>1, <1>2, <1>4, InsertBranch
<1>6. /\ "repair" \in Kind /\ "degraded" \in Kind
      /\ "repair" # "degraded"
  BY DEF Kind
<1>7. CASE k = "repair"
  <2>1. /\ MadeAs("repair")' \subseteq MadeAs("repair") \cup {Leaf + 1}
        /\ MadeAs("degraded")' \subseteq MadeAs("degraded")
    BY <1>5, <1>6, <1>7
  <2>2. /\ p \in At(RepairPlaces)
        /\ At(RepairPlaces)' \subseteq At(RepairPlaces) \ {p}
        /\ At(DegradedPlaces)' \subseteq At(DegradedPlaces)
    BY <1>1, <1>3, <1>7 DEF At, DeliveryInv, WorkInv, RepairPlaces, DegradedPlaces
  <2>3. /\ Spent("repair", RepairPlaces)' \in Nat
        /\ Spent("repair", RepairPlaces)' <= Spent("repair", RepairPlaces)
    BY <2>1, <2>2, SpentMoved DEF RepairPlaces
  <2>4. /\ Spent("degraded", DegradedPlaces)' \in Nat
        /\ Spent("degraded", DegradedPlaces)' <= Spent("degraded", DegradedPlaces)
    BY <2>1, <2>2, SpentLess DEF DegradedPlaces
  <2>5. QED
    BY <1>5, <2>3, <2>4, BudgetType DEF Thrifty, BudgetInv
<1>8. CASE k = "degraded"
  <2>1. /\ MadeAs("degraded")' \subseteq MadeAs("degraded") \cup {Leaf + 1}
        /\ MadeAs("repair")' \subseteq MadeAs("repair")
    BY <1>5, <1>6, <1>8
  <2>2. /\ p \in At(DegradedPlaces)
        /\ At(DegradedPlaces)' \subseteq At(DegradedPlaces) \ {p}
        /\ At(RepairPlaces)' \subseteq At(RepairPlaces)
    BY <1>1, <1>3, <1>8 DEF At, DeliveryInv, WorkInv, RepairPlaces, DegradedPlaces
  <2>3. /\ Spent("degraded", DegradedPlaces)' \in Nat
        /\ Spent("degraded", DegradedPlaces)' <= Spent("degraded", DegradedPlaces)
    BY <2>1, <2>2, SpentMoved DEF DegradedPlaces
  <2>4. /\ Spent("repair", RepairPlaces)' \in Nat
        /\ Spent("repair", RepairPlaces)' <= Spent("repair", RepairPlaces)
    BY <2>1, <2>2, SpentLess DEF RepairPlaces
  <2>5. QED
    BY <1>5, <2>3, <2>4, BudgetType DEF Thrifty, BudgetInv
<1>9. QED
  BY <1>7, <1>8

\* A child of another kind is not counted, wherever its maker goes next.
LEMMA InsertThrifty ==
  ASSUME DeliveryInv, BranchInv, BudgetInv, Lineage \subseteq Lineage',
         NEW base \in Lineage, NEW k \in {"revision", "challenger"},
         InsertChild(base, k),
         \A q \in Proc : job'[q] # None => job'[q] = job[q] /\ copy'[q] = copy[q],
         \A q \in Proc : pc'[q] \in {pc[q], "promote"}
  PROVE  Thrifty
<1>1. k \in Kind /\ k \notin {"root", "repair", "degraded"}
      /\ {"repair", "degraded"} \subseteq Kind
  BY DEF Kind
<1>2. /\ BranchInv'
      /\ \A l \in Kind : MadeAs(l)' \subseteq
           MadeAs(l) \cup (IF l = k THEN {Leaf + 1} ELSE {})
  BY <1>1, InsertBranch
<1>3. /\ MadeAs("repair")' \subseteq MadeAs("repair")
      /\ MadeAs("degraded")' \subseteq MadeAs("degraded")
  BY <1>1, <1>2
<1>4. /\ At(RepairPlaces)' \subseteq At(RepairPlaces)
      /\ At(DegradedPlaces)' \subseteq At(DegradedPlaces)
  BY DEF At, RepairPlaces, DegradedPlaces
<1>5. /\ Spent("repair", RepairPlaces)' \in Nat
      /\ Spent("repair", RepairPlaces)' <= Spent("repair", RepairPlaces)
  BY <1>3, <1>4, SpentLess DEF RepairPlaces
<1>6. /\ Spent("degraded", DegradedPlaces)' \in Nat
      /\ Spent("degraded", DegradedPlaces)' <= Spent("degraded", DegradedPlaces)
  BY <1>3, <1>4, SpentLess DEF DegradedPlaces
<1>7. QED
  BY <1>2, <1>5, <1>6, BudgetType DEF Thrifty, BudgetInv

LEMMA BranchThrifty ==
  ASSUME DeliveryInv, BranchInv, BudgetInv, Lineage \subseteq Lineage',
         \/ \E p \in Proc : InsertChallenger(p)
         \/ \E t \in Lineage : Revise(t) \/ Retry(t)
  PROVE  Thrifty
<1>1. CASE \E p \in Proc : InsertChallenger(p)
  <2>1. PICK p \in Proc : InsertChallenger(p)
    BY <1>1
  <2>2. job[p] \in Lineage
    BY <2>1, CopyFacts DEF InsertChallenger
  <2>3. \A q \in Proc : pc'[q] \in {pc[q], "promote"}
    BY <2>1 DEF InsertChallenger, Goto, DeliveryInv, WorkInv
  <2>4. QED
    BY <2>1, <2>2, <2>3, InsertThrifty DEF InsertChallenger
<1>2. CASE \E t \in Lineage : Revise(t) \/ Retry(t)
  <2>1. PICK t \in Lineage, k \in {"revision", "challenger"} :
          InsertChild(t, k) /\ UNCHANGED worker
    BY <1>2 DEF Revise, Retry
  <2>2. QED
    BY <2>1, InsertThrifty DEF worker
<1>3. QED
  BY <1>1, <1>2

LEMMA MarkThrifty ==
  ASSUME DeliveryInv, BranchInv, BudgetInv, Lineage \subseteq Lineage',
         NEW p \in Proc, Emergency(p) \/ GiveUp(p) \/ FailLost(p) \/ Kill(p)
  PROVE  Thrifty
<1>1. /\ pc[p] \notin {"idle", "claim", "sync_descendant"}
      /\ UNCHANGED <<parent, kind, job>>
  BY DEF Emergency, GiveUp, FailLost, Kill
<1>2. job[p] # None /\ job[p] \in Task /\ copy[p] \in Row
  BY <1>1, CopyFacts
<1>3. kind[job[p]] = "degraded" => copy[p].mode = "degraded" /\ parent[job[p]] # None
  BY <1>2 DEF BranchInv
<1>4. PICK place \in {"sync_guaranteed", "fail_root", "repair", "kill_root"} :
        pc' = [pc EXCEPT ![p] = place]
  BY DEF Emergency, GiveUp, FailLost, Kill, Goto
<1>5. CASE Emergency(p)
  <2> DEFINE r == [copy[p] EXCEPT
         !.status = "completed",
         !.delivery = "delivered",
         !.resolved = job[p],
         !.mode = IF parent[job[p]] = None THEN "emergency" ELSE "degraded"]
  <2>1. Save(p, r) /\ (kind[job[p]] = "degraded" => r.mode = "degraded")
    BY <1>2, <1>3, <1>5 DEF Emergency, Row
  <2> HIDE DEF r
  <2>2. QED
    BY <1>1, <1>2, <1>4, <2>1, SaveThrifty
<1>6. CASE GiveUp(p)
  <2> DEFINE r == [copy[p] EXCEPT !.delivery = "failed"]
  <2>1. Save(p, r) /\ r.mode = copy[p].mode
    BY <1>2, <1>6 DEF GiveUp, Row
  <2> HIDE DEF r
  <2>2. QED
    BY <1>1, <1>2, <1>3, <1>4, <2>1, SaveThrifty
<1>7. CASE FailLost(p) \/ Kill(p)
  <2> DEFINE r == [copy[p] EXCEPT !.status = "failed", !.delivery = "failed"]
  <2>1. Save(p, r) /\ r.mode = copy[p].mode
    BY <1>2, <1>7 DEF FailLost, Kill, Row
  <2> HIDE DEF r
  <2>2. QED
    BY <1>1, <1>2, <1>3, <1>4, <2>1, SaveThrifty
<1>8. QED
  BY <1>5, <1>6, <1>7

\* The root is marked or resolved, by which it alone may change its mode.
LEMMA AcceptModes ==
  ASSUME RowsInv, NEW t, Accept(t)
  PROVE  \A u \in Task : u # Root => row'[u].mode = row[u].mode
<1>1. \A u \in Task : u # Root =>
        row'[u] = IF u \in Lineage THEN [row[u] EXCEPT !.best = (u = t)] ELSE row[u]
  BY DEF Accept
<1>2. QED
  BY <1>1 DEF RowsInv, Row

LEMMA ResolveThrifty ==
  ASSUME DeliveryInv, BranchInv, BudgetInv, Lineage \subseteq Lineage',
         NEW p \in Proc, FailRoot(p) \/ KillRoot(p) \/ SyncRoot(p) \/ Promote(p)
  PROVE  Thrifty
<1>1. \A t \in Task : t # Root => row'[t].mode = row[t].mode
  <2>1. CASE Promote(p)
    BY <2>1, AcceptModes DEF Promote, DeliveryInv
  <2>2. CASE FailRoot(p) \/ KillRoot(p) \/ SyncRoot(p)
    BY <2>2 DEF FailRoot, KillRoot, SyncRoot, SyncResolution, SyncAlways,
                DeliveryInv, RowsInv
  <2>3. QED
    BY <2>1, <2>2
<1>2. \A t \in Task : kind[t] = "degraded" => row'[t].mode = "degraded"
  BY <1>1 DEF BranchInv, DeliveryInv, KindInv
<1>3. UNCHANGED <<parent, kind>>
  BY DEF FailRoot, KillRoot, SyncRoot, Promote
<1>4. CASE Finish(p)
  <2>1. /\ \A q \in Proc : job'[q] # None => job'[q] = job[q] /\ copy'[q] = copy[q]
        /\ \E place \in {"idle", "claim"} : pc' = [pc EXCEPT ![p] = place]
    BY <1>4, FinishLeaves DEF DeliveryInv
  <2>2. QED
    BY <1>2, <1>3, <2>1, MoveThrifty
<1>5. CASE pc' = [pc EXCEPT ![p] = "challenge"] /\ UNCHANGED <<job, copy>>
  BY <1>2, <1>3, <1>5, MoveThrifty
<1>6. QED
  BY <1>4, <1>5 DEF FailRoot, KillRoot, SyncRoot, Promote, Goto

LEMMA SweepThrifty ==
  ASSUME DeliveryInv, BranchInv, BudgetInv, Lineage \subseteq Lineage',
         NEW p \in Proc, Sweep(p)
  PROVE  Thrifty
<1>1. UNCHANGED <<row, parent, kind>>
  BY DEF Sweep, rows
<1>2. Leaf \in Lineage /\ Lost \subseteq Lineage
  BY LeafFacts DEF Lost, Missing, Resolution, DeliveryInv, RowsInv
<1>3. CASE \E t \in Lineage,
              place \in {"promote", "sync_descendant", "lost", "repair", "kill"} :
             Take(p, "watchdog", t, place)
  <2>1. PICK t \in Lineage,
             place \in {"promote", "sync_descendant", "lost", "repair", "kill"} :
          /\ job' = [job EXCEPT ![p] = t]
          /\ copy' = [copy EXCEPT ![p] = row[t]]
          /\ pc' = [pc EXCEPT ![p] = place]
    BY <1>3 DEF Take, Goto
  <2>2. \A u \in Task : row'[u].mode = row[u].mode
    BY <1>1
  <2>3. row[t].mode = row[t].mode
    OBVIOUS
  <2>4. QED
    BY <1>1, <2>1, <2>2, <2>3, TakeThrifty
<1>4. CASE SweepNothing(p)
  <2>1. pc' = [pc EXCEPT ![p] = "claim"] /\ UNCHANGED <<job, copy>>
    BY <1>4 DEF SweepNothing, Goto
  <2>2. \A t \in Task : kind[t] = "degraded" => row'[t].mode = "degraded"
    BY <1>1 DEF BranchInv
  <2>3. QED
    BY <1>1, <2>1, <2>2, MoveThrifty
<1>5. Sweep(p) => SweepNothing(p) \/
        \E t \in Lineage,
           place \in {"promote", "sync_descendant", "lost", "repair", "kill"} :
          Take(p, "watchdog", t, place)
  BY <1>2 DEF Sweep, SweepChallenger, SweepDescendant, SweepLost, SweepFailed,
              SweepUnready, Deliverable
<1>6. QED
  BY <1>3, <1>4, <1>5

\* Requests, failures and stuttering leave the places alone or empty them.
LEMMA RestThrifty ==
  ASSUME DeliveryInv, BranchInv, BudgetInv, Lineage \subseteq Lineage',
         \/ \E t \in Lineage : AcceptRequest(t) \/ Cancel(t)
         \/ \E t \in Task : Requeue(t) \/ LoseVideo(t)
         \/ UNCHANGED vars
  PROVE  Thrifty
<1>1. \A t \in Task : t # Root => row'[t].mode = row[t].mode
  <2>1. CASE \E t \in Lineage : AcceptRequest(t)
    BY <2>1, AcceptModes DEF AcceptRequest, DeliveryInv
  <2>2. CASE \E t \in Task : Cancel(t) \/ Requeue(t)
    BY <2>2 DEF Cancel, Requeue, DeliveryInv, RowsInv, Row
  <2>3. CASE UNCHANGED row
    BY <2>3
  <2>4. QED
    BY <2>1, <2>2, <2>3 DEF Lineage, LoseVideo, vars, rows
<1>2. \A t \in Task : kind[t] = "degraded" => row'[t].mode = "degraded"
  BY <1>1 DEF BranchInv, DeliveryInv, KindInv
<1>3. UNCHANGED <<parent, kind, pc, job, copy>>
  BY DEF AcceptRequest, Cancel, Requeue, LoseVideo, rows, worker, vars
<1>4. PICK p \in Proc : TRUE
  BY EnvironmentAssumption
<1>5. pc' = [pc EXCEPT ![p] = pc[p]]
  BY <1>3 DEF DeliveryInv, WorkInv
<1>6. QED
  BY <1>2, <1>3, <1>5, MoveThrifty

LEMMA CrashThrifty ==
  ASSUME DeliveryInv, BranchInv, BudgetInv, Lineage \subseteq Lineage',
         NEW p \in Proc, Crash(p)
  PROVE  Thrifty
<1>1. /\ \A t \in Task : kind[t] = "degraded" => row'[t].mode = "degraded"
      /\ UNCHANGED <<parent, kind>> /\ pc' = [pc EXCEPT ![p] = "idle"]
  BY DEF Crash, rows, BranchInv, Goto
<1>2. \A q \in Proc : job'[q] # None => job'[q] = job[q] /\ copy'[q] = copy[q]
  BY DEF Crash, DeliveryInv, WorkInv
<1>3. QED
  BY <1>1, <1>2, MoveThrifty

LEMMA StepThrifty ==
  ASSUME DeliveryInv, BranchInv, BudgetInv, [Next]_vars PROVE Thrifty
<1>1. Lineage \subseteq Lineage'
  BY StepKeeps DEF Kept, vars, rows, Lineage
<1>2. CASE \E p \in Proc : Step(p) \/ Progress(p) \/ FailLate(p) \/ Crash(p)
  <2>1. PICK p \in Proc : Step(p) \/ Progress(p) \/ FailLate(p) \/ Crash(p)
    BY <1>2
  <2>2. CASE Run(p) \/ Progress(p) \/ FailLate(p) \/ Crash(p)
    BY <1>1, <2>2, RunThrifty, CrashThrifty
  <2>3. CASE Recover(p)
    BY <1>1, <2>3, DecideThrifty, InsertRecoveryThrifty, MarkThrifty, ResolveThrifty
    DEF Recover
  <2>4. CASE Settle(p)
    BY <1>1, <2>4, DecideThrifty, BranchThrifty, ResolveThrifty DEF Settle
  <2>5. CASE Watch(p)
    BY <1>1, <2>5, SweepThrifty, MarkThrifty, ResolveThrifty DEF Watch
  <2>6. QED
    BY <2>1, <2>2, <2>3, <2>4, <2>5 DEF Step
<1>3. CASE (\E t \in Task : Requeue(t) \/ LoseVideo(t)) \/ UNCHANGED vars
  BY <1>1, <1>3, RestThrifty
<1>4. CASE Api
  BY <1>1, <1>4, BranchThrifty, RestThrifty DEF Api
<1>5. QED
  BY <1>2, <1>3, <1>4 DEF Next

LEMMA InitThrifty == Init => BranchInv /\ BudgetInv
<1> SUFFICES ASSUME Init PROVE BranchInv /\ BudgetInv
  OBVIOUS
<1>1. BranchInv
  BY DEF Init, BranchInv
<1>2. /\ MadeAs("repair") = {} /\ MadeAs("degraded") = {}
      /\ At(RepairPlaces) = {} /\ At(DegradedPlaces) = {}
  BY DEF Init, MadeAs, At, RepairPlaces, DegradedPlaces
<1>3. Spent("repair", RepairPlaces) = 0 /\ Spent("degraded", DegradedPlaces) = 0
  BY <1>2, FS_EmptySet DEF Spent
<1>4. QED
  BY <1>1, <1>3, BudgetType, SpentType DEF BudgetInv

LEMMA BudgetInvariant == Spec => [](BranchInv /\ BudgetInv)
<1>1. DeliveryInv /\ (BranchInv /\ BudgetInv) /\ [Next]_vars
        => (BranchInv /\ BudgetInv)'
  BY StepThrifty DEF Thrifty
<1>2. QED
  BY InitThrifty, DeliveryInvariant, <1>1, PTL DEF Spec

\* Engine, watchdog and API together make no more repairs beneath a root than
\* the setting allows and the processes under way, whatever the settings, the
\* number of processes, the races and the crashes.
THEOREM RepairsStayInBudget == Spec => []RepairBudget
<1>1. BudgetInv => RepairBudget
  <2>1. /\ Cardinality(MadeAs("repair")) \in Nat
        /\ Cardinality(At(RepairPlaces)) \in Nat /\ Cardinality(Proc) \in Nat
    BY SpentType DEF RepairPlaces
  <2>2. BudgetInv => Cardinality(MadeAs("repair")) + Cardinality(At(RepairPlaces))
                       <= MaxRepairs + Cardinality(Proc) - 1
    BY DEF BudgetInv, Spent
  <2>3. MaxRepairs \in Nat
    BY SettingsAssumption
  <2>4. BudgetInv => Cardinality(MadeAs("repair"))
                       <= MaxRepairs + Cardinality(Proc) - 1
    BY <2>1, <2>2, <2>3
  <2>5. QED
    BY <2>4 DEF RepairBudget, MadeAs
<1>2. QED
  BY BudgetInvariant, <1>1, PTL

\* Each process makes at most one degraded attempt for a root.
THEOREM DegradedStaysInBudget == Spec => []DegradedBudget
<1>1. BudgetInv => DegradedBudget
  <2>1. /\ Cardinality(MadeAs("degraded")) \in Nat
        /\ Cardinality(At(DegradedPlaces)) \in Nat /\ Cardinality(Proc) \in Nat
    BY SpentType DEF DegradedPlaces
  <2>2. BudgetInv => Cardinality(MadeAs("degraded")) + Cardinality(At(DegradedPlaces))
                       <= Cardinality(Proc)
    BY DEF BudgetInv, Spent
  <2>3. MaxRepairs \in Nat
    BY SettingsAssumption
  <2>4. BudgetInv => Cardinality(MadeAs("degraded"))
                       <= Cardinality(Proc)
    BY <2>1, <2>2, <2>3
  <2>5. QED
    BY <2>4 DEF DegradedBudget, MadeAs
<1>2. QED
  BY BudgetInvariant, <1>1, PTL

-----------------------------------------------------------------------------
(* The resolution of a delivered root.  Videos do not vanish by themselves:  *)
(* where none is lost, a completed task has one, and so has the resolution,  *)
(* unless the root itself was accepted for what a task below it delivered.   *)

\* What the row of a task says, when these tasks have a video.
RowReal(t, r, seen) ==
  /\ t # Root /\ r.status = "completed" => t \in seen
  /\ t = Root /\ r.delivery = "delivered"
       => r.resolved \in seen \/ (r.resolved = Root /\ r.best)

\* What a copy says, which may be written back at a later time: a copy of the
\* root does not name another task.
CopyReal(t, r, seen) ==
  /\ t # Root /\ r.status = "completed" => t \in seen
  /\ t = Root /\ r.delivery = "delivered"
       => r.resolved = Root /\ (Root \in seen \/ r.best)

ProcReal(p) ==
  job[p] # None =>
    /\ pc[p] # "sync_descendant" => CopyReal(job[p], copy[p], video)
    /\ pc[p] \in {"sync", "sync_guaranteed", "sync_descendant"} => job[p] \in video

RowsReal == \A t \in Task : RowReal(t, row[t], video)
WorkReal == \A p \in Proc : ProcReal(p)
RealInv  == RowsReal /\ WorkReal

LEMMA RealTransfer ==
  ASSUME NEW t, NEW r, NEW seen, NEW more, seen \subseteq more
  PROVE  /\ RowReal(t, r, seen) => RowReal(t, r, more)
         /\ CopyReal(t, r, seen) => CopyReal(t, r, more)
         /\ CopyReal(t, r, seen) => RowReal(t, r, more)
BY DEF RowReal, CopyReal

\* A row that may be copied.
LEMMA RowToCopy ==
  ASSUME NEW t \in Task, NEW r, video \subseteq Task, RowReal(t, r, video),
         t = Root => r.resolved \in {None, Root}
  PROVE  CopyReal(t, r, video)
BY TaskFacts DEF RowReal, CopyReal

\* What one process does, the others keep.
LEMMA WorkRealKept ==
  ASSUME WorkReal, NEW p \in Proc, video \subseteq video', ProcReal(p)',
         \A q \in Proc \ {p} :
           job'[q] = job[q] /\ copy'[q] = copy[q] /\ pc'[q] = pc[q]
  PROVE  WorkReal'
<1> SUFFICES ASSUME NEW q \in Proc PROVE ProcReal(q)'
  BY DEF WorkReal
<1>1. CASE q = p
  BY <1>1
<1>2. CASE q # p
  <2>1. ProcReal(q) /\ job'[q] = job[q] /\ copy'[q] = copy[q] /\ pc'[q] = pc[q]
    BY <1>2 DEF WorkReal
  <2>2. CopyReal(job[q], copy[q], video) => CopyReal(job[q], copy[q], video')
    BY RealTransfer
  <2>3. QED
    BY <2>1, <2>2 DEF ProcReal
<1>3. QED
  BY <1>1, <1>2

\* A row is written.
LEMMA RowsRealKept ==
  ASSUME RowsReal, NEW t \in Task, NEW r, video \subseteq video',
         row \in [Task -> Row], row' = [row EXCEPT ![t] = r], RowReal(t, r, video')
  PROVE  RowsReal'
<1> SUFFICES ASSUME NEW u \in Task PROVE RowReal(u, row'[u], video')
  BY DEF RowsReal
<1>1. RowReal(u, row[u], video')
  BY RealTransfer DEF RowsReal
<1>2. QED
  BY <1>1

LEMMA SameRowsReal ==
  ASSUME RowsReal, UNCHANGED row, video \subseteq video' PROVE RowsReal'
BY RealTransfer DEF RowsReal

\* The process writes its changed copy back.
LEMMA SaveReal ==
  ASSUME DeliveryInv, RealInv, video \subseteq video', NEW p \in Proc, NEW place,
         NEW r, job[p] # None, Save(p, r), UNCHANGED job,
         pc' = [pc EXCEPT ![p] = place], place # "sync_descendant",
         CopyReal(job[p], r, video'),
         place \in {"sync", "sync_guaranteed"} => job[p] \in video'
  PROVE  RealInv'
<1>1. job[p] \in Task /\ row \in [Task -> Row]
      /\ copy' = [copy EXCEPT ![p] = r] /\ row' = [row EXCEPT ![job[p]] = r]
  BY DEF DeliveryInv, WorkInv, RowsInv, Save
<1>2. RowReal(job[p], r, video')
  BY RealTransfer
<1>3. RowsReal'
  BY <1>1, <1>2, RowsRealKept DEF RealInv
<1>4. job'[p] = job[p] /\ copy'[p] = r /\ pc'[p] = place
  BY <1>1 DEF DeliveryInv, WorkInv
<1>5. ProcReal(p)'
  BY <1>4 DEF ProcReal
<1>6. \A q \in Proc \ {p} :
        job'[q] = job[q] /\ copy'[q] = copy[q] /\ pc'[q] = pc[q]
  BY <1>1 DEF DeliveryInv, WorkInv
<1>7. WorkReal'
  BY <1>5, <1>6, WorkRealKept DEF RealInv
<1>8. QED
  BY <1>3, <1>7 DEF RealInv

\* It goes on, or ends its job, with the copy it has.
LEMMA MoveReal ==
  ASSUME DeliveryInv, RealInv, video \subseteq video', RowsReal', NEW p \in Proc, NEW place,
         \/ job' = [job EXCEPT ![p] = None]
         \/ UNCHANGED <<job, copy>> /\ pc[p] # "sync_descendant",
         \A q \in Proc \ {p} : copy'[q] = copy[q],
         pc' = [pc EXCEPT ![p] = place],
         place \notin {"sync", "sync_guaranteed", "sync_descendant"}
  PROVE  RealInv'
<1>1. ProcReal(p)'
  <2>1. CASE job' = [job EXCEPT ![p] = None]
    BY <2>1 DEF ProcReal, DeliveryInv, WorkInv
  <2>2. CASE UNCHANGED <<job, copy>> /\ pc[p] # "sync_descendant"
    <3>1. job'[p] = job[p] /\ copy'[p] = copy[p] /\ pc'[p] = place
      BY <2>2 DEF DeliveryInv, WorkInv
    <3>2. job[p] # None => CopyReal(job[p], copy[p], video')
      BY <2>2, RealTransfer DEF RealInv, WorkReal, ProcReal
    <3>3. QED
      BY <3>1, <3>2 DEF ProcReal
  <2>3. QED
    BY <2>1, <2>2
<1>2. \A q \in Proc \ {p} :
        job'[q] = job[q] /\ copy'[q] = copy[q] /\ pc'[q] = pc[q]
  BY DEF DeliveryInv, WorkInv
<1>3. WorkReal'
  BY <1>1, <1>2, WorkRealKept DEF RealInv
<1>4. QED
  BY <1>3 DEF RealInv

LEMMA FinishReal ==
  ASSUME DeliveryInv, RealInv, video \subseteq video', RowsReal', NEW p \in Proc, Finish(p)
  PROVE  RealInv'
<1>1. PICK place \in {"idle", "claim"} : pc' = [pc EXCEPT ![p] = place]
  BY DEF Finish, Goto
<1>2. \A q \in Proc \ {p} : copy'[q] = copy[q]
  BY DEF Finish, DeliveryInv, WorkInv
<1>3. QED
  BY <1>1, <1>2, MoveReal DEF Finish

\* It turns to a task.
LEMMA TakeReal ==
  ASSUME DeliveryInv, RealInv, video \subseteq video', RowsReal', NEW p \in Proc,
         NEW t \in Task, NEW r, NEW place,
         job' = [job EXCEPT ![p] = t], copy' = [copy EXCEPT ![p] = r],
         pc' = [pc EXCEPT ![p] = place],
         place \notin {"sync", "sync_guaranteed"},
         place # "sync_descendant" => CopyReal(t, r, video'),
         place = "sync_descendant" => t \in video'
  PROVE  RealInv'
<1>1. ProcReal(p)'
  BY DEF ProcReal, DeliveryInv, WorkInv
<1>2. \A q \in Proc \ {p} :
        job'[q] = job[q] /\ copy'[q] = copy[q] /\ pc'[q] = pc[q]
  BY DEF DeliveryInv, WorkInv
<1>3. WorkReal'
  BY <1>1, <1>2, WorkRealKept DEF RealInv
<1>4. QED
  BY <1>3 DEF RealInv

LEMMA AcceptReal ==
  ASSUME DeliveryInv, RealInv, NEW t \in Lineage, Accept(t),
         row[t].status = "completed", UNCHANGED video
  PROVE  RowsReal'
<1> USE DEF DeliveryInv
<1>1. t \in Task /\ Root \in Task /\ Root \in Lineage /\ row \in [Task -> Row]
  BY TaskFacts DEF RowsInv, Lineage
<1>2. /\ row'[Root].resolved = t /\ row'[t].best
      /\ \A u \in Task : u # Root => row'[u].status = row[u].status
  <2>1. row'[Root].resolved = t /\ row'[t].best
    BY AcceptRow
  <2>2. \A u \in Task : u # Root =>
          row'[u] = IF u \in Lineage THEN [row[u] EXCEPT !.best = (u = t)] ELSE row[u]
    BY DEF Accept
  <2>3. \A u \in Task : [row[u] EXCEPT !.best = (u = t)].status = row[u].status
    BY <1>1 DEF Row
  <2>4. QED
    BY <2>1, <2>2, <2>3
<1>3. t # Root => t \in video
  BY <1>1 DEF RealInv, RowsReal, RowReal
<1>4. \A u \in Task : RowReal(u, row'[u], video')
  BY <1>1, <1>2, <1>3 DEF RealInv, RowsReal, RowReal
<1>5. QED
  BY <1>4 DEF RowsReal

LEMMA RealFacts ==
  ASSUME DeliveryInv, RealInv
  PROVE  /\ video \subseteq Task /\ row \in [Task -> Row]
         /\ \A t \in Task : RowReal(t, row[t], video)
         /\ \A p \in Proc : pc[p] \notin {"idle", "claim", "sync_descendant"} =>
              job[p] \in Task /\ job[p] # None /\ copy[p] \in Row
                /\ CopyReal(job[p], copy[p], video)
BY DEF DeliveryInv, RowsInv, WorkInv, RestInv, RealInv, RowsReal, WorkReal, ProcReal

LEMMA RunReal ==
  ASSUME DeliveryInv, RealInv, NEW p \in Proc,
         Run(p) \/ Progress(p) \/ FailLate(p)
  PROVE  RealInv'
<1>1. CASE Begin(p)
  <2>1. PICK t \in Queued :
          /\ row' = [row EXCEPT ![t].status = "running"]
          /\ copy' = [copy EXCEPT ![p] = [row[t] EXCEPT !.status = "running"]]
          /\ job' = [job EXCEPT ![p] = t]
    BY <1>1 DEF Begin
  <2> DEFINE r == [row[t] EXCEPT !.status = "running"]
  <2>2. t \in Task /\ row[t] \in Row /\ row[t].status = "queued"
        /\ RowReal(t, row[t], video)
    BY RealFacts DEF Queued, Lineage
  <2>3. /\ r.status = "running" /\ r.delivery = row[t].delivery
        /\ r.resolved = row[t].resolved /\ r.best = row[t].best
        /\ copy' = [copy EXCEPT ![p] = r] /\ row' = [row EXCEPT ![t] = r]
    BY <2>1, <2>2 DEF Row
  <2> HIDE DEF r
  <2>4. t = Root => r.resolved \in {None, Root}
    BY <2>2, <2>3 DEF DeliveryInv, RowsInv, Active
  <2>5. RowReal(t, r, video)
    BY <2>2, <2>3 DEF RowReal
  <2>6. CopyReal(t, r, video)
    BY <2>2, <2>4, <2>5, RowToCopy, RealFacts
  <2>7. /\ pc' = [pc EXCEPT ![p] = "running"] /\ UNCHANGED video
        /\ row \in [Task -> Row]
    BY <1>1, RealFacts DEF Begin, Goto, files
  <2>8. RowsReal'
    BY <2>2, <2>3, <2>5, <2>7, RowsRealKept DEF RealInv
  <2>9. QED
    BY <2>1, <2>2, <2>3, <2>6, <2>7, <2>8, TakeReal
<1>2. CASE ClaimNothing(p)
  <2>1. /\ pc' = [pc EXCEPT ![p] = "idle"] /\ pc[p] # "sync_descendant"
        /\ UNCHANGED <<row, video, job, copy>>
    BY <1>2 DEF ClaimNothing, Goto, rows, files
  <2>2. RowsReal'
    BY <2>1, SameRowsReal DEF RealInv
  <2>3. QED
    BY <2>1, <2>2, MoveReal
<1>3. CASE Progress(p)
  <2>1. /\ pc' = [pc EXCEPT ![p] = "running"] /\ pc[p] = "running"
        /\ UNCHANGED <<video, job>> /\ Save(p, copy[p])
    BY <1>3 DEF Progress, files, DeliveryInv, WorkInv
  <2>2. job[p] # None /\ CopyReal(job[p], copy[p], video')
    BY <2>1, RealFacts
  <2>3. QED
    BY <2>1, <2>2, SaveReal
<1>4. CASE Complete(p)
  <2>1. PICK q \in {"accepted", "needs_revision"} :
          Save(p, [copy[p] EXCEPT
            !.status = "completed",
            !.delivery = "delivered",
            !.resolved = job[p],
            !.quality = q,
            !.mode = IF @ # "none" THEN @
                     ELSE IF job[p] = Root THEN "primary" ELSE "repaired"])
    BY <1>4 DEF Complete
  <2> DEFINE r == [copy[p] EXCEPT
            !.status = "completed",
            !.delivery = "delivered",
            !.resolved = job[p],
            !.quality = q,
            !.mode = IF @ # "none" THEN @
                     ELSE IF job[p] = Root THEN "primary" ELSE "repaired"]
  <2>2. /\ pc' = [pc EXCEPT ![p] = "sync"] /\ job[p] # None
        /\ UNCHANGED job /\ video' = video \cup {job[p]} /\ copy[p] \in Row
    BY <1>4, RealFacts DEF Complete, Goto
  <2>3. r.resolved = job[p]
    BY <2>2 DEF Row
  <2>4. Save(p, r)
    BY <2>1
  <2> HIDE DEF r
  <2>5. CopyReal(job[p], r, video') /\ job[p] \in video' /\ video \subseteq video'
    BY <2>2, <2>3 DEF CopyReal
  <2>6. QED
    BY <2>2, <2>4, <2>5, SaveReal
<1>5. CASE Fail(p) \/ FailLate(p)
  <2> DEFINE r == [copy[p] EXCEPT !.status = "failed"]
  <2>1. /\ pc' = [pc EXCEPT ![p] = "repair"]
        /\ pc[p] \notin {"idle", "claim", "sync_descendant"}
        /\ UNCHANGED <<video, job>> /\ Save(p, r)
    BY <1>5 DEF Fail, FailLate, Goto, files
  <2>2. /\ job[p] # None /\ copy[p] \in Row /\ CopyReal(job[p], copy[p], video)
    BY <2>1, RealFacts
  <2>3. /\ r.status = "failed" /\ r.delivery = copy[p].delivery
        /\ r.resolved = copy[p].resolved /\ r.best = copy[p].best
    BY <2>2 DEF Row
  <2> HIDE DEF r
  <2>4. CopyReal(job[p], r, video')
    BY <2>1, <2>2, <2>3 DEF CopyReal
  <2>5. QED
    BY <2>1, <2>2, <2>4, SaveReal
<1>6. QED
  BY <1>1, <1>2, <1>3, <1>4, <1>5 DEF Run

LEMMA DecideReal ==
  ASSUME DeliveryInv, RealInv, NEW p \in Proc,
         Repair(p) \/ CreateRepair(p) \/ Degrade(p) \/ CreateDegraded(p)
           \/ Challenge(p)
  PROVE  RealInv'
<1>1. /\ UNCHANGED <<row, video, job, copy>> /\ pc[p] # "sync_descendant"
  BY DEF Repair, CreateRepair, Degrade, CreateDegraded, Challenge, rows, files
<1>2. PICK place \in {"create_repair", "insert_repair", "degrade", "emergency",
                      "create_degraded", "insert_degraded", "insert_challenger",
                      "promote"} :
        pc' = [pc EXCEPT ![p] = place]
  BY DEF Repair, CreateRepair, Degrade, CreateDegraded, Challenge, Goto
<1>3. RowsReal'
  BY <1>1, SameRowsReal DEF RealInv
<1>4. QED
  BY <1>1, <1>2, <1>3, MoveReal

LEMMA InsertReal ==
  ASSUME DeliveryInv, RealInv, NEW base, NEW k, InsertChild(base, k), UNCHANGED video
  PROVE  RowsReal'
<1> DEFINE child == Leaf + 1
           new == [BlankRow EXCEPT !.status = "queued",
                                   !.quality = row[base].quality,
                                   !.mode = CASE k = "repair" -> "repaired"
                                              [] k = "degraded" -> "degraded"
                                              [] OTHER -> "none"]
<1>1. /\ child \in Task /\ row \in [Task -> Row]
      /\ row' = [row EXCEPT ![child] = new]
  BY RealFacts DEF InsertChild
<1>2. new.status = "queued" /\ new.delivery = "pending"
  BY DEF BlankRow
<1> HIDE DEF new, child
<1>3. RowReal(child, new, video')
  BY <1>2 DEF RowReal
<1>4. QED
  BY <1>1, <1>3, RowsRealKept DEF RealInv

LEMMA BranchReal ==
  ASSUME DeliveryInv, RealInv,
         \/ \E p \in Proc : InsertChallenger(p) \/ InsertRecovery(p)
         \/ \E t \in Lineage : Revise(t) \/ Retry(t)
  PROVE  RealInv'
<1>1. CASE \E p \in Proc : InsertChallenger(p)
  <2>1. PICK p \in Proc : InsertChallenger(p)
    BY <1>1
  <2>2. /\ pc' = [pc EXCEPT ![p] = "promote"] /\ pc[p] # "sync_descendant"
        /\ UNCHANGED <<video, job, copy>>
    BY <2>1 DEF InsertChallenger, Goto, files
  <2>3. RowsReal'
    BY <2>1, <2>2, InsertReal DEF InsertChallenger
  <2>4. QED
    BY <2>2, <2>3, MoveReal
<1>2. CASE \E p \in Proc : InsertRecovery(p)
  <2>1. PICK p \in Proc : InsertRecovery(p)
    BY <1>2
  <2>2. UNCHANGED video /\ Finish(p)
    BY <2>1 DEF InsertRecovery, files
  <2>3. RowsReal'
    BY <2>1, <2>2, InsertReal DEF InsertRecovery
  <2>4. QED
    BY <2>2, <2>3, FinishReal
<1>3. CASE \E t \in Lineage : Revise(t) \/ Retry(t)
  <2>1. UNCHANGED <<video, worker>> /\ \E t, k : InsertChild(t, k)
    BY <1>3 DEF Revise, Retry, files
  <2>2. RowsReal'
    BY <2>1, InsertReal
  <2>3. WorkReal'
    BY <2>1 DEF RealInv, WorkReal, ProcReal, worker
  <2>4. QED
    BY <2>2, <2>3 DEF RealInv
<1>4. QED
  BY <1>1, <1>2, <1>3

LEMMA MarkReal ==
  ASSUME DeliveryInv, RealInv, NEW p \in Proc,
         Emergency(p) \/ GiveUp(p) \/ FailLost(p) \/ Kill(p)
  PROVE  RealInv'
<1>1. /\ pc[p] \notin {"idle", "claim", "sync_descendant"}
      /\ UNCHANGED job
  BY DEF Emergency, GiveUp, FailLost, Kill
<1>2. /\ job[p] # None /\ job[p] \in Task /\ copy[p] \in Row
      /\ CopyReal(job[p], copy[p], video)
  BY <1>1, RealFacts
<1>3. CASE Emergency(p)
  <2> DEFINE r == [copy[p] EXCEPT
         !.status = "completed",
         !.delivery = "delivered",
         !.resolved = job[p],
         !.mode = IF parent[job[p]] = None THEN "emergency" ELSE "degraded"]
  <2>1. /\ Save(p, r) /\ r.resolved = job[p] /\ video' = video \cup {job[p]}
        /\ pc' = [pc EXCEPT ![p] = "sync_guaranteed"]
    BY <1>2, <1>3 DEF Emergency, Row, Goto
  <2> HIDE DEF r
  <2>2. CopyReal(job[p], r, video') /\ job[p] \in video' /\ video \subseteq video'
    BY <2>1 DEF CopyReal
  <2>3. QED
    BY <1>1, <1>2, <2>1, <2>2, SaveReal
<1>4. CASE GiveUp(p)
  <2> DEFINE r == [copy[p] EXCEPT !.delivery = "failed"]
  <2>1. /\ Save(p, r) /\ r.delivery = "failed" /\ r.status = copy[p].status
        /\ UNCHANGED video /\ pc' = [pc EXCEPT ![p] = "fail_root"]
    BY <1>2, <1>4 DEF GiveUp, Row, Goto, files
  <2> HIDE DEF r
  <2>2. CopyReal(job[p], r, video')
    BY <1>2, <2>1 DEF CopyReal
  <2>3. QED
    BY <1>1, <1>2, <2>1, <2>2, SaveReal
<1>5. CASE FailLost(p) \/ Kill(p)
  <2> DEFINE r == [copy[p] EXCEPT !.status = "failed", !.delivery = "failed"]
  <2>1. /\ Save(p, r) /\ r.delivery = "failed" /\ r.status = "failed"
        /\ UNCHANGED video
    BY <1>2, <1>5 DEF FailLost, Kill, Row, files
  <2>2. PICK place \in {"repair", "kill_root"} : pc' = [pc EXCEPT ![p] = place]
    BY <1>5 DEF FailLost, Kill, Goto
  <2> HIDE DEF r
  <2>3. CopyReal(job[p], r, video')
    BY <2>1 DEF CopyReal
  <2>4. QED
    BY <1>1, <1>2, <2>1, <2>2, <2>3, SaveReal
<1>6. QED
  BY <1>3, <1>4, <1>5

\* The root is marked, or resolved by what a process has just delivered.
LEMMA ResolveReal ==
  ASSUME DeliveryInv, RealInv, NEW p \in Proc,
         FailRoot(p) \/ KillRoot(p) \/ SyncRoot(p) \/ Promote(p)
  PROVE  RealInv'
<1>1. UNCHANGED video /\ Root \in Task /\ row \in [Task -> Row]
  BY RealFacts, TaskFacts DEF FailRoot, KillRoot, SyncRoot, Promote, files
<1>2. CASE FailRoot(p) \/ KillRoot(p)
  <2>1. RowsReal'
    <3>1. CASE UNCHANGED row
      BY <1>1, <3>1, SameRowsReal DEF RealInv
    <3>2. CASE row' = [row EXCEPT ![Root].delivery = "failed"]
      <4> DEFINE r == [row[Root] EXCEPT !.delivery = "failed"]
      <4>1. r.delivery = "failed" /\ row' = [row EXCEPT ![Root] = r]
        BY <1>1, <3>2 DEF Row
      <4> HIDE DEF r
      <4>2. RowReal(Root, r, video')
        BY <4>1 DEF RowReal
      <4>3. QED
        BY <1>1, <4>1, <4>2, RowsRealKept DEF RealInv
    <3>3. CASE row' = [row EXCEPT ![Root].status = "failed", ![Root].delivery = "failed"]
      <4> DEFINE r == [row[Root] EXCEPT !.status = "failed", !.delivery = "failed"]
      <4>1. r.delivery = "failed" /\ row' = [row EXCEPT ![Root] = r]
        BY <1>1, <3>3 DEF Row
      <4> HIDE DEF r
      <4>2. RowReal(Root, r, video')
        BY <4>1 DEF RowReal
      <4>3. QED
        BY <1>1, <4>1, <4>2, RowsRealKept DEF RealInv
    <3>4. QED
      BY <1>2, <3>1, <3>2, <3>3 DEF FailRoot, KillRoot
  <2>2. QED
    BY <1>1, <1>2, <2>1, FinishReal DEF FailRoot, KillRoot
<1>3. CASE SyncRoot(p)
  <2>1. job[p] \in video
    BY <1>3 DEF SyncRoot, RealInv, WorkReal, ProcReal, DeliveryInv, WorkInv
  <2>2. RowsReal'
    <3>1. CASE UNCHANGED row
      BY <1>1, <3>1, SameRowsReal DEF RealInv
    <3>2. CASE SyncAlways(p)
      <4> DEFINE r == [row[Root] EXCEPT !.status = "completed",
                                        !.delivery = "delivered",
                                        !.resolved = job[p],
                                        !.mode = copy[p].mode]
      <4>1. r.resolved = job[p] /\ row' = [row EXCEPT ![Root] = r]
        BY <1>1, <3>2 DEF SyncAlways, Row
      <4> HIDE DEF r
      <4>2. RowReal(Root, r, video')
        BY <1>1, <2>1, <4>1 DEF RowReal
      <4>3. QED
        BY <1>1, <4>1, <4>2, RowsRealKept DEF RealInv
    <3>3. QED
      BY <1>3, <3>1, <3>2 DEF SyncRoot, SyncResolution
  <2>3. CASE Finish(p)
    BY <1>1, <2>2, <2>3, FinishReal
  <2>4. CASE /\ pc[p] = "sync" /\ pc' = [pc EXCEPT ![p] = "challenge"]
             /\ UNCHANGED <<role, job, copy>>
    BY <1>1, <2>2, <2>4, MoveReal
  <2>5. QED
    BY <1>3, <2>3, <2>4 DEF SyncRoot, Goto
<1>4. CASE Promote(p)
  <2>1. RowsReal'
    <3>1. CASE UNCHANGED row
      BY <1>1, <3>1, SameRowsReal DEF RealInv
    <3>2. CASE Accept(job[p]) /\ row[job[p]].status = "completed"
      BY <1>1, <1>4, <3>2, CopyFacts, AcceptReal DEF Promote
    <3>3. QED
      BY <1>4, <3>1, <3>2 DEF Promote
  <2>2. QED
    BY <1>1, <1>4, <2>1, FinishReal DEF Promote
<1>5. QED
  BY <1>2, <1>3, <1>4

\* Where the watchdog copies the root, the root does not name another task.
LEMMA SweepReal ==
  ASSUME DeliveryInv, RealInv, NEW p \in Proc, Sweep(p) PROVE RealInv'
<1>1. UNCHANGED <<row, video>>
  BY DEF Sweep, rows, files
<1>2. RowsReal'
  BY <1>1, SameRowsReal DEF RealInv
<1>3. Leaf \in Lineage /\ (Leaf = Root => row[Root].resolved \in {None, Root})
  BY LeafFacts DEF RowsInv, Root, DeliveryInv
<1>4. CASE SweepNothing(p)
  <2>1. /\ pc' = [pc EXCEPT ![p] = "claim"] /\ UNCHANGED <<job, copy>>
        /\ pc[p] = "idle"
    BY <1>4 DEF SweepNothing, Goto, Sweep
  <2>2. QED
    BY <1>1, <1>2, <2>1, MoveReal
<1>5. CASE SweepDescendant(p)
  <2>1. PICK t \in Deliverable : Take(p, "watchdog", t, "sync_descendant")
    BY <1>5 DEF SweepDescendant
  <2>2. t \in Task /\ t \in video'
    BY <1>1 DEF Deliverable, Lineage
  <2>3. QED
    BY <1>1, <1>2, <2>1, <2>2, TakeReal DEF Take, Goto
<1>6. CASE \E t \in Lineage, place \in {"promote", "lost", "repair", "kill"} :
             /\ Take(p, "watchdog", t, place)
             /\ t = Root => row[Root].resolved \in {None, Root}
  <2>1. PICK t \in Lineage, place \in {"promote", "lost", "repair", "kill"} :
          /\ Take(p, "watchdog", t, place)
          /\ t = Root => row[Root].resolved \in {None, Root}
    BY <1>6
  <2>2. t \in Task /\ CopyReal(t, row[t], video')
    BY <1>1, <2>1, RealFacts, RowToCopy DEF Lineage
  <2>3. QED
    BY <1>1, <1>2, <2>1, <2>2, TakeReal DEF Take, Goto
<1>7. SweepChallenger(p) => Take(p, "watchdog", Leaf, "promote")
      /\ (Leaf = Root => row[Root].resolved \in {None, Root})
  BY <1>3 DEF SweepChallenger
<1>8. ASSUME NEW t \in Lost
      PROVE  t \in Lineage /\ (t = Root => row[Root].resolved \in {None, Root})
  BY <1>3 DEF Lost, Missing, Resolution, RowsInv, DeliveryInv
<1>9. QED
  BY <1>3, <1>4, <1>5, <1>6, <1>7, <1>8
  DEF Sweep, SweepChallenger, SweepLost, SweepFailed, SweepUnready

LEMMA RestReal ==
  ASSUME DeliveryInv, RealInv,
         \/ \E t \in Lineage : AcceptRequest(t) \/ Cancel(t)
         \/ \E t \in Task : Requeue(t)
         \/ UNCHANGED vars
  PROVE  RealInv'
<1>1. UNCHANGED <<video, worker>>
  BY DEF AcceptRequest, Cancel, Requeue, vars, files
<1>2. WorkReal'
  BY <1>1 DEF RealInv, WorkReal, ProcReal, worker
<1>3. CASE \E t \in Lineage : AcceptRequest(t)
  BY <1>1, <1>2, <1>3, AcceptReal DEF AcceptRequest, RealInv
<1>4. CASE \E t \in Task, s \in {"cancelled", "queued"} :
             row' = [row EXCEPT ![t].status = s]
  <2>1. PICK t \in Task, s \in {"cancelled", "queued"} :
          row' = [row EXCEPT ![t].status = s]
    BY <1>4
  <2> DEFINE r == [row[t] EXCEPT !.status = s]
  <2>2. row[t] \in Row /\ row \in [Task -> Row] /\ RowReal(t, row[t], video)
    BY RealFacts
  <2>3. /\ r.status = s /\ r.delivery = row[t].delivery
        /\ r.resolved = row[t].resolved /\ r.best = row[t].best
        /\ row' = [row EXCEPT ![t] = r]
    BY <2>1, <2>2 DEF Row
  <2> HIDE DEF r
  <2>4. RowReal(t, r, video')
    BY <1>1, <2>2, <2>3 DEF RowReal
  <2>5. QED
    BY <1>1, <1>2, <2>2, <2>3, <2>4, RowsRealKept DEF RealInv
<1>5. CASE UNCHANGED row
  BY <1>1, <1>2, <1>5, SameRowsReal DEF RealInv
<1>6. QED
  BY <1>3, <1>4, <1>5 DEF Cancel, Requeue, vars, rows, Lineage

LEMMA CrashReal ==
  ASSUME DeliveryInv, RealInv, NEW p \in Proc, Crash(p) PROVE RealInv'
<1>1. /\ UNCHANGED <<row, video>> /\ job' = [job EXCEPT ![p] = None]
      /\ pc' = [pc EXCEPT ![p] = "idle"]
  BY DEF Crash, rows, files, Goto
<1>2. \A q \in Proc \ {p} : copy'[q] = copy[q]
  BY DEF Crash, DeliveryInv, WorkInv
<1>3. RowsReal'
  BY <1>1, SameRowsReal DEF RealInv
<1>4. QED
  BY <1>1, <1>2, <1>3, MoveReal

LEMMA StepReal ==
  ASSUME "loss" \notin Events, DeliveryInv, RealInv, [Next]_vars
  PROVE  RealInv'
<1>1. CASE \E p \in Proc : Step(p) \/ Progress(p) \/ FailLate(p) \/ Crash(p)
  <2>1. PICK p \in Proc : Step(p) \/ Progress(p) \/ FailLate(p) \/ Crash(p)
    BY <1>1
  <2>2. CASE Run(p) \/ Progress(p) \/ FailLate(p) \/ Crash(p)
    BY <2>2, RunReal, CrashReal
  <2>3. CASE Recover(p)
    BY <2>3, DecideReal, BranchReal, MarkReal, ResolveReal DEF Recover
  <2>4. CASE Settle(p)
    BY <2>4, DecideReal, BranchReal, ResolveReal DEF Settle
  <2>5. CASE Watch(p)
    BY <2>5, SweepReal, MarkReal, ResolveReal DEF Watch
  <2>6. QED
    BY <2>1, <2>2, <2>3, <2>4, <2>5 DEF Step
<1>2. CASE (\E t \in Task : Requeue(t) \/ LoseVideo(t)) \/ UNCHANGED vars
  BY <1>2, RestReal DEF LoseVideo, Happens
<1>3. CASE Api
  BY <1>3, BranchReal, RestReal DEF Api
<1>4. QED
  BY <1>1, <1>2, <1>3 DEF Next

LEMMA InitReal == Init => RealInv
<1> SUFFICES ASSUME Init PROVE RealInv
  OBVIOUS
<1>1. \A t \in Task : row[t].status # "completed" /\ row[t].delivery = "pending"
  BY DEF Init, BlankRow
<1>2. QED
  BY <1>1 DEF Init, RealInv, RowsReal, RowReal, WorkReal, ProcReal

\* Where no video is lost, a root that says it is delivered names a task that
\* has a video, or one that was accepted by hand, whatever stale copies the
\* processes write back and whichever of them die.
THEOREM ResolutionStaysReal ==
  ASSUME "loss" \notin Events PROVE Spec => []ResolutionIsReal
<1>1. DeliveryInv /\ RealInv /\ [Next]_vars => RealInv'
  BY StepReal
<1>2. DeliveryInv /\ RealInv => ResolutionIsReal
  BY TaskFacts DEF RealInv, RowsReal, RowReal, ResolutionIsReal, DeliveryInv, RestInv
<1>3. QED
  BY InitReal, DeliveryInvariant, <1>1, <1>2, PTL DEF Spec

\* A delivered root names a task without a video only in one way, the one the run
\* TaskDelivery_resolution shows: the root itself was accepted as the best version
\* (accept_task_as_best), though another task had delivered for it.
THEOREM OnlyAcceptedRootLacksVideo ==
  ASSUME "loss" \notin Events
  PROVE  Spec => [](~ ResolutionHasVideo => row[Root].resolved = Root /\ row[Root].best)
<1>1. DeliveryInv /\ RealInv /\ [Next]_vars => RealInv'
  BY StepReal
<1>2. RealInv => (~ ResolutionHasVideo => row[Root].resolved = Root /\ row[Root].best)
  BY TaskFacts DEF RealInv, RowsReal, RowReal, ResolutionHasVideo
<1>3. QED
  BY InitReal, DeliveryInvariant, <1>1, <1>2, PTL DEF Spec

-----------------------------------------------------------------------------
(* One version is the best.  Only an acceptance marks a version, and it      *)
(* takes the mark from all others; but a process may write back a marked     *)
(* copy of a row that has lost its mark since.  Where one process works and  *)
(* no video is lost, a copy that is written back and marked is one of the    *)
(* root, taken when nothing else was completed, so that nothing else can     *)
(* have been accepted in the meantime.                                       *)

NoRival == \A u \in Task \ {Root} : row[u].status # "completed"

\* A marked row was accepted as it was delivered.
MarkOf(t, r, seen) ==
  r.best => /\ r.status \notin Active \cup {"absent"}
            /\ t # Root => t \in seen /\ r.status # "failed"

\* At these places the copy is not written back.
ReadOnly == {"promote", "sync_descendant"}

MarkedCopy(p) ==
  copy[p].best =>
    /\ role[p] = "watchdog"
    /\ \/ pc[p] \in ReadOnly
       \/ /\ job[p] = Root /\ row[Root].best
          /\ copy[p].status \notin Active
          /\ NoRival

RowMarks == \A t \in Task : MarkOf(t, row[t], video)
MarksInv == OneBest /\ RowMarks /\ \A p \in Proc : MarkedCopy(p)

Alone == \A p, q \in Proc : p = q

\* Rows that are changed without a new mark.
LEMMA RowsMarked ==
  ASSUME MarksInv, video \subseteq video',
         \A t \in Task : \/ row'[t] = row[t]
                         \/ /\ row'[t].best => row[t].best
                            /\ MarkOf(t, row'[t], video')
  PROVE  OneBest' /\ RowMarks'
<1>1. \A t \in Task : row'[t].best => row[t].best
  OBVIOUS
<1>2. OneBest'
  BY <1>1 DEF MarksInv, OneBest
<1>3. \A t \in Task : MarkOf(t, row[t], video) => MarkOf(t, row[t], video')
  BY DEF MarkOf
<1>4. QED
  BY <1>2, <1>3 DEF MarksInv, RowMarks

LEMMA OneRowMarked ==
  ASSUME MarksInv, video \subseteq video', row \in [Task -> Row], NEW t \in Task, NEW r,
         row' = [row EXCEPT ![t] = r], r.best => row[t].best, MarkOf(t, r, video')
  PROVE  OneBest' /\ RowMarks'
<1>1. \A u \in Task : row'[u] = IF u = t THEN r ELSE row[u]
  OBVIOUS
<1>2. QED
  BY <1>1, RowsMarked

LEMMA SameRowsMarked ==
  ASSUME MarksInv, video \subseteq video', UNCHANGED row PROVE OneBest' /\ RowMarks'
BY RowsMarked

LEMMA AloneMarked ==
  ASSUME Alone, OneBest', RowMarks', NEW p \in Proc, MarkedCopy(p)' PROVE MarksInv'
<1>1. \A q \in Proc : MarkedCopy(q)'
  BY DEF Alone
<1>2. QED
  BY <1>1 DEF MarksInv

\* A copy that no row can have been marked beside keeps its mark.
LEMMA CopyMarked ==
  ASSUME MarksInv, NEW p \in Proc, job'[p] = job[p], copy'[p] = copy[p], role'[p] = role[p],
         pc[p] \in ReadOnly => pc'[p] \in ReadOnly,
         row[Root].best /\ NoRival => row'[Root].best /\ NoRival'
  PROVE  MarkedCopy(p)'
BY DEF MarksInv, MarkedCopy

LEMMA MarkFacts ==
  ASSUME DeliveryInv, RealInv, MarksInv
  PROVE  /\ row \in [Task -> Row] /\ Root \in Task
         /\ \A t \in Task : row[t] \in Row /\ MarkOf(t, row[t], video)
         /\ \A t \in Task : t # Root /\ row[t].status = "completed" => t \in video
         /\ \A p \in Proc : pc[p] \notin {"idle", "claim"} =>
              job[p] \in Task /\ job[p] # None /\ copy[p] \in Row
         /\ \A p \in Proc : MarkedCopy(p)
BY TaskFacts
DEF DeliveryInv, RowsInv, WorkInv, RealInv, RowsReal, RowReal, MarksInv, RowMarks

\* The process writes its changed copy back.
LEMMA SaveMarked ==
  ASSUME Alone, DeliveryInv, RealInv, MarksInv, video \subseteq video', NEW p \in Proc, NEW r,
         pc[p] \notin {"idle", "claim"}, Save(p, r), UNCHANGED <<job, role>>,
         r.best = copy[p].best, role[p] = "engine" \/ pc[p] \notin ReadOnly,
         r.status # "absent", r.status \in Active => r.status = copy[p].status
  PROVE  MarksInv'
<1>1. /\ job[p] \in Task /\ row \in [Task -> Row] /\ MarkedCopy(p)
      /\ copy[p] \in Row /\ row[job[p]] \in Row /\ Root \in Task
  BY MarkFacts
<1>2. /\ copy'[p] = r /\ row' = [row EXCEPT ![job[p]] = r]
  BY <1>1 DEF Save, DeliveryInv, WorkInv
<1>3. CASE r.best
  <2>1. /\ role[p] = "watchdog" /\ job[p] = Root /\ row[Root].best
        /\ copy[p].status \notin Active /\ NoRival
    BY <1>1, <1>3 DEF MarkedCopy
  <2>2. OneBest' /\ RowMarks'
    BY <1>1, <1>2, <2>1, OneRowMarked DEF MarkOf
  <2>3. row'[Root] = r /\ NoRival'
    BY <1>1, <1>2, <2>1 DEF NoRival
  <2>4. MarkedCopy(p)'
    BY <1>2, <1>3, <2>1, <2>3 DEF MarkedCopy
  <2>5. QED
    BY <2>2, <2>4, AloneMarked
<1>4. CASE ~ r.best
  <2>1. OneBest' /\ RowMarks'
    BY <1>1, <1>2, <1>4, OneRowMarked DEF MarkOf
  <2>2. MarkedCopy(p)'
    BY <1>2, <1>4 DEF MarkedCopy
  <2>3. QED
    BY <2>1, <2>2, AloneMarked
<1>5. QED
  BY <1>3, <1>4

\* It goes on with the copy it has, or ends its job.
LEMMA MoveMarked ==
  ASSUME Alone, MarksInv, OneBest', RowMarks', NEW p \in Proc, UNCHANGED <<job, copy, role>>,
         pc[p] \in ReadOnly => pc'[p] \in ReadOnly,
         row[Root].best /\ NoRival => row'[Root].best /\ NoRival'
  PROVE  MarksInv'
BY CopyMarked, AloneMarked

LEMMA ClearMarked ==
  ASSUME Alone, DeliveryInv, OneBest', RowMarks', NEW p \in Proc,
         copy' = [copy EXCEPT ![p] = BlankRow]
  PROVE  MarksInv'
<1>1. copy'[p] = BlankRow
  BY DEF DeliveryInv, WorkInv
<1>2. MarkedCopy(p)'
  BY <1>1 DEF MarkedCopy, BlankRow
<1>3. QED
  BY <1>2, AloneMarked

LEMMA RunMarked ==
  ASSUME Alone, DeliveryInv, RealInv, MarksInv, NEW p \in Proc,
         Run(p) \/ Progress(p) \/ FailLate(p)
  PROVE  MarksInv'
<1>1. CASE Begin(p)
  <2>1. PICK t \in Queued :
          /\ row' = [row EXCEPT ![t].status = "running"]
          /\ copy' = [copy EXCEPT ![p] = [row[t] EXCEPT !.status = "running"]]
    BY <1>1 DEF Begin
  <2> DEFINE r == [row[t] EXCEPT !.status = "running"]
  <2>2. /\ t \in Task /\ row[t] \in Row /\ row[t].status = "queued"
        /\ row \in [Task -> Row] /\ MarkOf(t, row[t], video)
    BY MarkFacts DEF Queued, Lineage
  <2>3. r.best = FALSE
    BY <2>2 DEF MarkOf, Active, Row
  <2>4. copy'[p] = r /\ row' = [row EXCEPT ![t] = r]
    BY <2>1, <2>2 DEF DeliveryInv, WorkInv
  <2> HIDE DEF r
  <2>5. OneBest' /\ RowMarks'
    BY <1>1, <2>2, <2>3, <2>4, OneRowMarked DEF MarkOf, Begin, files
  <2>6. MarkedCopy(p)'
    BY <2>3, <2>4 DEF MarkedCopy
  <2>7. QED
    BY <2>5, <2>6, AloneMarked
<1>2. CASE ClaimNothing(p)
  <2>1. UNCHANGED <<row, video, job, copy, role>> /\ pc[p] \notin ReadOnly
    BY <1>2 DEF ClaimNothing, rows, files, ReadOnly
  <2>2. OneBest' /\ RowMarks'
    BY <2>1, SameRowsMarked
  <2>3. QED
    BY <2>1, <2>2, MoveMarked DEF NoRival
<1>3. CASE Progress(p)
  <2>1. /\ pc[p] = "running" /\ UNCHANGED <<video, job, role>> /\ Save(p, copy[p])
    BY <1>3 DEF Progress, files
  <2>2. copy[p].status # "absent"
    BY <2>1 DEF DeliveryInv, WorkInv
  <2>3. QED
    BY <2>1, <2>2, SaveMarked DEF ReadOnly
<1>4. CASE Complete(p)
  <2>1. PICK q \in {"accepted", "needs_revision"} :
          Save(p, [copy[p] EXCEPT
            !.status = "completed",
            !.delivery = "delivered",
            !.resolved = job[p],
            !.quality = q,
            !.mode = IF @ # "none" THEN @
                     ELSE IF job[p] = Root THEN "primary" ELSE "repaired"])
    BY <1>4 DEF Complete
  <2> DEFINE r == [copy[p] EXCEPT
            !.status = "completed",
            !.delivery = "delivered",
            !.resolved = job[p],
            !.quality = q,
            !.mode = IF @ # "none" THEN @
                     ELSE IF job[p] = Root THEN "primary" ELSE "repaired"]
  <2>2. /\ pc[p] = "running" /\ UNCHANGED <<job, role>> /\ video \subseteq video'
        /\ copy[p] \in Row
    BY <1>4, MarkFacts DEF Complete
  <2>3. r.status = "completed" /\ r.best = copy[p].best
    BY <2>2 DEF Row
  <2>4. Save(p, r)
    BY <2>1
  <2> HIDE DEF r
  <2>5. QED
    BY <2>2, <2>3, <2>4, SaveMarked DEF ReadOnly, Active
<1>5. CASE Fail(p) \/ FailLate(p)
  <2> DEFINE r == [copy[p] EXCEPT !.status = "failed"]
  <2>1. /\ pc[p] \notin {"idle", "claim"} /\ Save(p, r)
        /\ UNCHANGED <<video, job, role>>
        /\ role[p] = "engine" \/ pc[p] \notin ReadOnly
    BY <1>5 DEF Fail, FailLate, files, ReadOnly
  <2>2. copy[p] \in Row
    BY <2>1, MarkFacts
  <2>3. r.status = "failed" /\ r.best = copy[p].best
    BY <2>2 DEF Row
  <2> HIDE DEF r
  <2>4. QED
    BY <2>1, <2>3, SaveMarked DEF Active
<1>6. QED
  BY <1>1, <1>2, <1>3, <1>4, <1>5 DEF Run

LEMMA DecideMarked ==
  ASSUME Alone, MarksInv, NEW p \in Proc,
         Repair(p) \/ CreateRepair(p) \/ Degrade(p) \/ CreateDegraded(p)
           \/ Challenge(p)
  PROVE  MarksInv'
<1>1. /\ UNCHANGED <<row, video, job, copy, role>> /\ pc[p] \notin ReadOnly
  BY DEF Repair, CreateRepair, Degrade, CreateDegraded, Challenge, rows, files, ReadOnly
<1>2. OneBest' /\ RowMarks'
  BY <1>1, SameRowsMarked
<1>3. QED
  BY <1>1, <1>2, MoveMarked DEF NoRival

\* A new row has no mark and has not been completed.
LEMMA InsertMarked ==
  ASSUME DeliveryInv, RealInv, MarksInv, NEW base \in Lineage, NEW k \in Kind, k # "root",
         InsertChild(base, k), UNCHANGED video
  PROVE  /\ OneBest' /\ RowMarks'
         /\ row[Root].best /\ NoRival => row'[Root].best /\ NoRival'
<1> DEFINE child == Leaf + 1
           new == [BlankRow EXCEPT !.status = "queued",
                                   !.quality = row[base].quality,
                                   !.mode = CASE k = "repair" -> "repaired"
                                              [] k = "degraded" -> "degraded"
                                              [] OTHER -> "none"]
<1>1. /\ child \in Task /\ row \in [Task -> Row]
      /\ row' = [row EXCEPT ![child] = new]
  BY MarkFacts DEF InsertChild
<1>2. new.status = "queued" /\ new.best = FALSE
  BY DEF BlankRow
<1>3. row'[Root] = row[Root]
  BY InsertRow DEF DeliveryInv
<1> HIDE DEF new, child
<1>4. OneBest' /\ RowMarks'
  BY <1>1, <1>2, OneRowMarked DEF MarkOf
<1>5. NoRival => NoRival'
  BY <1>1, <1>2 DEF NoRival
<1>6. QED
  BY <1>3, <1>4, <1>5

LEMMA BranchMarked ==
  ASSUME Alone, DeliveryInv, RealInv, MarksInv, NEW p \in Proc,
         \/ InsertChallenger(p) \/ InsertRecovery(p)
         \/ \E t \in Lineage : Revise(t) \/ Retry(t)
  PROVE  MarksInv'
<1>1. CASE InsertChallenger(p)
  <2>1. /\ pc[p] = "insert_challenger" /\ UNCHANGED <<video, job, copy, role>>
        /\ job[p] \in Lineage /\ InsertChild(job[p], "challenger")
    BY <1>1, CopyFacts DEF InsertChallenger, files
  <2>2. QED
    BY <2>1, InsertMarked, MoveMarked DEF ReadOnly, Kind
<1>2. CASE InsertRecovery(p)
  <2>1. PICK k \in {"repair", "degraded"} : InsertChild(job[p], k)
    BY <1>2 DEF InsertRecovery
  <2>2. /\ UNCHANGED video /\ job[p] \in Lineage
        /\ copy' = [copy EXCEPT ![p] = BlankRow]
    BY <1>2, CopyFacts DEF InsertRecovery, files, Finish
  <2>3. QED
    BY <2>1, <2>2, InsertMarked, ClearMarked DEF Kind
<1>3. CASE \E t \in Lineage : Revise(t) \/ Retry(t)
  <2>1. /\ UNCHANGED <<video, pc, job, copy, role>>
        /\ \E t \in Lineage, k \in {"challenger", "revision"} : InsertChild(t, k)
    BY <1>3 DEF Revise, Retry, files, worker
  <2>2. QED
    BY <2>1, InsertMarked, MoveMarked DEF Kind
<1>4. QED
  BY <1>1, <1>2, <1>3

LEMMA MarkMarked ==
  ASSUME Alone, DeliveryInv, RealInv, MarksInv, NEW p \in Proc,
         Emergency(p) \/ GiveUp(p) \/ FailLost(p) \/ Kill(p)
  PROVE  MarksInv'
<1>1. /\ pc[p] \notin {"idle", "claim"} /\ pc[p] \notin ReadOnly
      /\ UNCHANGED <<job, role>> /\ copy[p] \in Row /\ copy[p].status # "absent"
      /\ video \subseteq video'
  BY CopyFacts DEF Emergency, GiveUp, FailLost, Kill, ReadOnly, files
<1>2. CASE Emergency(p)
  <2> DEFINE r == [copy[p] EXCEPT
         !.status = "completed",
         !.delivery = "delivered",
         !.resolved = job[p],
         !.mode = IF parent[job[p]] = None THEN "emergency" ELSE "degraded"]
  <2>1. Save(p, r)
    BY <1>2 DEF Emergency
  <2>2. r.status = "completed" /\ r.best = copy[p].best
    BY <1>1 DEF Row
  <2> HIDE DEF r
  <2>3. QED
    BY <1>1, <2>1, <2>2, SaveMarked DEF Active
<1>3. CASE GiveUp(p)
  <2> DEFINE r == [copy[p] EXCEPT !.delivery = "failed"]
  <2>1. Save(p, r)
    BY <1>3 DEF GiveUp
  <2>2. r.status = copy[p].status /\ r.best = copy[p].best
    BY <1>1 DEF Row
  <2> HIDE DEF r
  <2>3. QED
    BY <1>1, <2>1, <2>2, SaveMarked
<1>4. CASE FailLost(p) \/ Kill(p)
  <2> DEFINE r == [copy[p] EXCEPT !.status = "failed", !.delivery = "failed"]
  <2>1. Save(p, r)
    BY <1>4 DEF FailLost, Kill
  <2>2. r.status = "failed" /\ r.best = copy[p].best
    BY <1>1 DEF Row
  <2> HIDE DEF r
  <2>3. QED
    BY <1>1, <2>1, <2>2, SaveMarked DEF Active
<1>5. QED
  BY <1>2, <1>3, <1>4

\* The root is marked as completed or failed; its mark as the best stays.
LEMMA RootMarked ==
  ASSUME DeliveryInv, RealInv, MarksInv, video \subseteq video', NEW r,
         row' = [row EXCEPT ![Root] = r],
         r.best = row[Root].best, r.status \notin Active \cup {"absent"}
  PROVE  OneBest' /\ RowMarks'
         /\ (row[Root].best /\ NoRival => row'[Root].best /\ NoRival')
<1>1. row \in [Task -> Row] /\ Root \in Task
  BY MarkFacts
<1>2. OneBest' /\ RowMarks'
  BY <1>1, OneRowMarked DEF MarkOf
<1>3. QED
  BY <1>1, <1>2 DEF NoRival

\* The version that is accepted takes the mark from all others.
LEMMA AcceptMarked ==
  ASSUME DeliveryInv, RealInv, MarksInv, NEW t \in Lineage, Accept(t),
         row[t].status = "completed", UNCHANGED video
  PROVE  /\ OneBest' /\ RowMarks'
         /\ row[Root].best /\ NoRival => row'[Root].best /\ NoRival'
<1>1. t \in Task /\ Root \in Task /\ Root \in Lineage /\ row \in [Task -> Row]
      /\ \A u \in Task : row[u] \in Row
  BY MarkFacts DEF DeliveryInv, RowsInv, Lineage
<1>2. \A u \in Task : row'[u].best <=> u = t
  <2> SUFFICES ASSUME NEW u \in Task PROVE row'[u].best <=> u = t
    OBVIOUS
  <2> DEFINE r == IF u \in Lineage THEN [row[u] EXCEPT !.best = (u = t)] ELSE row[u]
  <2>1. r.best <=> u = t
    <3>1. CASE u \in Lineage
      <4>1. [row[u] EXCEPT !.best = (u = t)].best = (u = t)
        BY <1>1 DEF Row
      <4>2. QED
        BY <3>1, <4>1
    <3>2. CASE u \notin Lineage
      <4>1. row[u].status = "absent" /\ u # t
        BY <3>2 DEF Lineage
      <4>2. ~ row[u].best
        BY <4>1, MarkFacts DEF MarkOf
      <4>3. QED
        BY <3>2, <4>1, <4>2
    <3>3. QED
      BY <3>1, <3>2
  <2>2. r \in Row
    BY <1>1 DEF Row
  <2>3. row'[u] = IF u # Root THEN r
                  ELSE [r EXCEPT !.status = "completed", !.delivery = "delivered",
                                 !.resolved = t, !.mode = row[t].mode]
    BY DEF Accept
  <2> HIDE DEF r
  <2>4. [r EXCEPT !.status = "completed", !.delivery = "delivered",
                  !.resolved = t, !.mode = row[t].mode].best = r.best
    BY <2>2 DEF Row
  <2>5. QED
    BY <2>1, <2>3, <2>4
<1>3. row'[Root].status = "completed"
  <2> DEFINE r == [row[Root] EXCEPT !.best = (Root = t)]
  <2>1. r \in Row
    BY <1>1 DEF Row
  <2>2. row'[Root] = [r EXCEPT !.status = "completed", !.delivery = "delivered",
                               !.resolved = t, !.mode = row[t].mode]
    BY <1>1 DEF Accept
  <2> HIDE DEF r
  <2>3. QED
    BY <2>1, <2>2 DEF Row
<1>4. \A u \in Task : u # Root => row'[u].status = row[u].status
  <2> SUFFICES ASSUME NEW u \in Task, u # Root PROVE row'[u].status = row[u].status
    OBVIOUS
  <2>1. row'[u] = IF u \in Lineage THEN [row[u] EXCEPT !.best = (u = t)] ELSE row[u]
    BY DEF Accept
  <2>2. [row[u] EXCEPT !.best = (u = t)].status = row[u].status
    BY <1>1 DEF Row
  <2>3. QED
    BY <2>1, <2>2
<1>5. row'[t].status = "completed" /\ (t # Root => t \in video')
  BY <1>1, <1>3, <1>4, MarkFacts
<1>6. OneBest' /\ RowMarks'
  BY <1>2, <1>5 DEF OneBest, RowMarks, MarkOf, Active
<1>7. NoRival => t = Root /\ NoRival'
  BY <1>1, <1>4 DEF NoRival
<1>8. QED
  BY <1>1, <1>2, <1>6, <1>7

LEMMA ResolveMarked ==
  ASSUME Alone, DeliveryInv, RealInv, MarksInv, NEW p \in Proc,
         FailRoot(p) \/ KillRoot(p) \/ SyncRoot(p) \/ Promote(p)
  PROVE  MarksInv'
<1>1. /\ UNCHANGED video /\ row[Root] \in Row /\ Root \in Task
      /\ row \in [Task -> Row] /\ MarkOf(Root, row[Root], video)
      /\ row[Root].status # "absent"
  BY MarkFacts
  DEF FailRoot, KillRoot, SyncRoot, Promote, files, DeliveryInv, RowsInv, Lineage
<1>2. CASE FailRoot(p) \/ KillRoot(p)
  <2>1. OneBest' /\ RowMarks'
    <3>1. CASE UNCHANGED row
      BY <1>1, <3>1, SameRowsMarked
    <3>2. CASE row' = [row EXCEPT ![Root].delivery = "failed"]
      <4> DEFINE r == [row[Root] EXCEPT !.delivery = "failed"]
      <4>1. /\ r.best = row[Root].best /\ r.status = row[Root].status
            /\ row' = [row EXCEPT ![Root] = r]
        BY <1>1, <3>2 DEF Row
      <4> HIDE DEF r
      <4>2. QED
        BY <1>1, <4>1, OneRowMarked DEF MarkOf
    <3>3. CASE row' = [row EXCEPT ![Root].status = "failed", ![Root].delivery = "failed"]
      <4> DEFINE r == [row[Root] EXCEPT !.status = "failed", !.delivery = "failed"]
      <4>1. /\ r.best = row[Root].best /\ r.status = "failed"
            /\ row' = [row EXCEPT ![Root] = r]
        BY <1>1, <3>3 DEF Row
      <4> HIDE DEF r
      <4>2. QED
        BY <1>1, <4>1, RootMarked DEF Active
    <3>4. QED
      BY <1>2, <3>1, <3>2, <3>3 DEF FailRoot, KillRoot
  <2>2. QED
    BY <1>2, <2>1, ClearMarked DEF FailRoot, KillRoot, Finish
<1>3. CASE SyncRoot(p)
  <2>1. /\ OneBest' /\ RowMarks'
        /\ row[Root].best /\ NoRival => row'[Root].best /\ NoRival'
    <3>1. CASE UNCHANGED row
      BY <1>1, <3>1, SameRowsMarked DEF NoRival
    <3>2. CASE SyncAlways(p)
      <4> DEFINE r == [row[Root] EXCEPT !.status = "completed",
                                        !.delivery = "delivered",
                                        !.resolved = job[p],
                                        !.mode = copy[p].mode]
      <4>1. /\ r.best = row[Root].best /\ r.status = "completed"
            /\ row' = [row EXCEPT ![Root] = r]
        BY <1>1, <3>2 DEF SyncAlways, Row
      <4> HIDE DEF r
      <4>2. QED
        BY <1>1, <4>1, RootMarked DEF Active
    <3>3. QED
      BY <1>3, <3>1, <3>2 DEF SyncRoot, SyncResolution
  <2>2. CASE Finish(p)
    BY <2>1, <2>2, ClearMarked DEF Finish
  <2>3. CASE pc[p] = "sync" /\ UNCHANGED <<role, job, copy>>
    BY <2>1, <2>3, MoveMarked DEF ReadOnly
  <2>4. QED
    BY <1>3, <2>2, <2>3 DEF SyncRoot
<1>4. CASE Promote(p)
  <2>1. OneBest' /\ RowMarks'
    <3>1. CASE UNCHANGED row
      BY <1>1, <3>1, SameRowsMarked
    <3>2. CASE Accept(job[p]) /\ row[job[p]].status = "completed"
      BY <1>1, <1>4, <3>2, CopyFacts, AcceptMarked DEF Promote
    <3>3. QED
      BY <1>4, <3>1, <3>2 DEF Promote
  <2>2. QED
    BY <1>4, <2>1, ClearMarked DEF Promote, Finish
<1>5. QED
  BY <1>2, <1>3, <1>4

\* The watchdog comes with a marked copy that it may write back only to the
\* root, and only if nothing else was delivered.
LEMMA SweepMarked ==
  ASSUME Alone, DeliveryInv, RealInv, MarksInv, NEW p \in Proc, Sweep(p)
  PROVE  MarksInv'
<1>1. UNCHANGED <<row, video>> /\ pc[p] = "idle"
  BY DEF Sweep, rows, files
<1>2. OneBest' /\ RowMarks'
  BY <1>1, SameRowsMarked
<1>3. Leaf \in Lineage /\ Leaf \in Task /\ Lineage = 1 .. Leaf
      /\ Root \in Lineage /\ Root \in Task
  BY LeafFacts, TaskFacts DEF RowsInv, DeliveryInv
<1>4. CASE SweepNothing(p)
  BY <1>1, <1>2, <1>4, MoveMarked DEF SweepNothing, ReadOnly, NoRival
<1>5. ASSUME NEW t \in Task, NEW place, Take(p, "watchdog", t, place),
             row[t].best => \/ place \in ReadOnly
                            \/ t = Root /\ row[t].status \notin Active /\ NoRival
      PROVE  MarksInv'
  <2>1. copy'[p] = row[t] /\ role'[p] = "watchdog" /\ job'[p] = t /\ pc'[p] = place
    BY <1>5 DEF Take, Goto, DeliveryInv, WorkInv
  <2>2. NoRival' <=> NoRival
    BY <1>1 DEF NoRival
  <2>3. MarkedCopy(p)'
    BY <1>1, <1>5, <2>1, <2>2 DEF MarkedCopy
  <2>4. QED
    BY <1>2, <2>3, AloneMarked
<1>6. CASE SweepChallenger(p)
  BY <1>3, <1>5, <1>6 DEF SweepChallenger, ReadOnly
<1>7. CASE SweepDescendant(p)
  BY <1>5, <1>7 DEF SweepDescendant, ReadOnly, Deliverable, Lineage
<1>8. ASSUME Deliverable = {} PROVE NoRival
  BY <1>8, MarkFacts DEF NoRival, Deliverable, Lineage
<1>9. CASE SweepLost(p)
  <2>1. PICK t \in Lost : Take(p, "watchdog", t, "lost")
    BY <1>9 DEF SweepLost
  <2>2. t \in Task /\ t \notin video
    BY <1>3 DEF Lost, Missing, Resolution, RowsInv, DeliveryInv, Lineage
  <2>3. row[t].best => t = Root /\ row[t].status \notin Active
    BY <2>2, MarkFacts DEF MarkOf
  <2>4. QED
    BY <1>5, <1>8, <1>9, <2>1, <2>2, <2>3 DEF SweepLost
<1>10. CASE SweepFailed(p)
  BY <1>3, <1>5, <1>8, <1>10, MarkFacts DEF SweepFailed, MarkOf
<1>11. CASE SweepUnready(p)
  BY <1>3, <1>5, <1>11, MarkFacts DEF SweepUnready, MarkOf
<1>12. QED
  BY <1>4, <1>6, <1>7, <1>9, <1>10, <1>11 DEF Sweep

LEMMA RestMarked ==
  ASSUME Alone, DeliveryInv, RealInv, MarksInv, NEW p \in Proc,
         \/ \E t \in Lineage : AcceptRequest(t) \/ Cancel(t)
         \/ \E t \in Task : Requeue(t)
         \/ UNCHANGED vars
  PROVE  MarksInv'
<1>1. UNCHANGED <<video, pc, job, copy, role>>
  BY DEF AcceptRequest, Cancel, Requeue, vars, files, worker
<1>2. /\ OneBest' /\ RowMarks'
      /\ row[Root].best /\ NoRival => row'[Root].best /\ NoRival'
  <2>1. CASE \E t \in Lineage : AcceptRequest(t)
    BY <1>1, <2>1, AcceptMarked DEF AcceptRequest
  <2>2. CASE \E t \in Task, s \in {"cancelled", "queued"} :
               /\ row' = [row EXCEPT ![t].status = s]
               /\ s = "queued" => row[t].status = "running"
               /\ row[t].status # "absent"
    <3>1. PICK t \in Task, s \in {"cancelled", "queued"} :
            /\ row' = [row EXCEPT ![t].status = s]
            /\ s = "queued" => row[t].status = "running"
            /\ row[t].status # "absent"
      BY <2>2
    <3> DEFINE r == [row[t] EXCEPT !.status = s]
    <3>2. /\ row[t] \in Row /\ row \in [Task -> Row] /\ MarkOf(t, row[t], video)
          /\ Root \in Task
      BY MarkFacts
    <3>3. /\ r.status = s /\ r.best = row[t].best
          /\ row' = [row EXCEPT ![t] = r]
      BY <3>1, <3>2 DEF Row
    <3> HIDE DEF r
    <3>4. MarkOf(t, r, video')
      BY <1>1, <3>1, <3>2, <3>3 DEF MarkOf, Active
    <3>5. OneBest' /\ RowMarks'
      BY <1>1, <3>2, <3>3, <3>4, OneRowMarked
    <3>6. row[Root].best => row'[Root].best
      BY <3>2, <3>3
    <3>7. NoRival => NoRival'
      BY <3>2, <3>3 DEF NoRival
    <3>8. QED
      BY <3>5, <3>6, <3>7
  <2>3. CASE UNCHANGED row
    BY <1>1, <2>3, SameRowsMarked DEF NoRival
  <2>4. QED
    BY <2>1, <2>2, <2>3 DEF Cancel, Requeue, vars, rows, Lineage
<1>3. QED
  BY <1>1, <1>2, MoveMarked

LEMMA CrashMarked ==
  ASSUME Alone, DeliveryInv, MarksInv, NEW p \in Proc, Crash(p) PROVE MarksInv'
<1>1. UNCHANGED <<row, video>> /\ copy' = [copy EXCEPT ![p] = BlankRow]
  BY DEF Crash, rows, files
<1>2. QED
  BY <1>1, SameRowsMarked, ClearMarked

LEMMA StepMarked ==
  ASSUME "loss" \notin Events, Alone, DeliveryInv, RealInv, MarksInv, [Next]_vars
  PROVE  MarksInv'
<1>1. CASE \E p \in Proc : Step(p) \/ Progress(p) \/ FailLate(p) \/ Crash(p)
  <2>1. PICK p \in Proc : Step(p) \/ Progress(p) \/ FailLate(p) \/ Crash(p)
    BY <1>1
  <2>2. CASE Run(p) \/ Progress(p) \/ FailLate(p) \/ Crash(p)
    BY <2>2, RunMarked, CrashMarked
  <2>3. CASE Recover(p)
    BY <2>3, DecideMarked, BranchMarked, MarkMarked, ResolveMarked DEF Recover
  <2>4. CASE Settle(p)
    BY <2>4, DecideMarked, BranchMarked, ResolveMarked DEF Settle
  <2>5. CASE Watch(p)
    BY <2>5, SweepMarked, MarkMarked, ResolveMarked DEF Watch
  <2>6. QED
    BY <2>1, <2>2, <2>3, <2>4, <2>5 DEF Step
<1>2. PICK p \in Proc : TRUE
  BY EnvironmentAssumption
<1>3. CASE (\E t \in Task : Requeue(t) \/ LoseVideo(t)) \/ UNCHANGED vars
  BY <1>2, <1>3, RestMarked DEF LoseVideo, Happens
<1>4. CASE Api
  BY <1>2, <1>4, BranchMarked, RestMarked DEF Api
<1>5. QED
  BY <1>1, <1>3, <1>4 DEF Next

LEMMA InitMarked == Init => MarksInv
<1> SUFFICES ASSUME Init PROVE MarksInv
  OBVIOUS
<1>1. (\A t \in Task : ~ row[t].best) /\ \A p \in Proc : ~ copy[p].best
  BY DEF Init, BlankRow
<1>2. QED
  BY <1>1 DEF MarksInv, OneBest, RowMarks, MarkOf, MarkedCopy

\* With one worker process, and as long as no video is lost, no sequence of
\* acceptances, promotions, retries, crashes and late write-backs leaves two
\* versions of a lineage marked as the best.
THEOREM OneVersionIsBest ==
  ASSUME "loss" \notin Events, \A p, q \in Proc : p = q
  PROVE  Spec => []OneBest
<1>1. Alone
  BY DEF Alone
<1>2. DeliveryInv /\ RealInv /\ MarksInv /\ [Next]_vars => RealInv' /\ MarksInv'
  BY <1>1, StepReal, StepMarked
<1>3. MarksInv => OneBest
  BY DEF MarksInv
<1>4. QED
  BY InitReal, InitMarked, DeliveryInvariant, <1>2, <1>3, PTL DEF Spec

-----------------------------------------------------------------------------
(* The refinement.  Seen by whoever waits for the answer, a worker that      *)
(* writes its copy back writes the row of one version, a delivered task      *)
(* resolves its root, an acceptance chooses, and all else is a stutter.      *)
(* What makes a stale mark harmless is that a row, and each copy of one, is  *)
(* marked only where that version may be chosen.                             *)

Chosen == {t \in Task : row[t].best}
Rivals == {t \in Task : kind[t] = "challenger"}
Answer == IF row[Root].delivery = "delivered" THEN row[Root].resolved ELSE None
Seen   == <<Lineage, Rivals, video, Chosen, Answer>>

MayBeChosen(t, seen) == t \in seen \/ (t = Root /\ seen # {})

\* What a row, or a copy of it, says while these tasks have a video.
Backed(t, r, seen) ==
  /\ r.best => MayBeChosen(t, seen) /\ r.status # "absent"
  /\ r.status = "completed" => seen # {}

BackedWork(p) ==
  /\ job[p] # None => Backed(job[p], copy[p], video)
  /\ pc[p] \in {"sync", "challenge", "insert_challenger"} => video # {}

RowsBacked == \A t \in Task : Backed(t, row[t], video)
WorkBacked == \A p \in Proc : BackedWork(p)
AnswerInv  == RowsBacked /\ WorkBacked

LEMMA BackedLater ==
  ASSUME NEW t, NEW r, NEW seen, NEW more, seen \subseteq more, Backed(t, r, seen)
  PROVE  Backed(t, r, more)
BY DEF Backed, MayBeChosen

\* What one process does, the others keep.
LEMMA WorkBackedKept ==
  ASSUME WorkBacked, NEW p \in Proc, video \subseteq video', BackedWork(p)',
         \A q \in Proc \ {p} :
           job'[q] = job[q] /\ copy'[q] = copy[q] /\ pc'[q] = pc[q]
  PROVE  WorkBacked'
<1> SUFFICES ASSUME NEW q \in Proc \ {p} PROVE BackedWork(q)'
  BY DEF WorkBacked
<1>1. BackedWork(q) /\ job'[q] = job[q] /\ copy'[q] = copy[q] /\ pc'[q] = pc[q]
  BY DEF WorkBacked
<1>2. Backed(job[q], copy[q], video) => Backed(job[q], copy[q], video')
  BY BackedLater
<1>3. QED
  BY <1>1, <1>2 DEF BackedWork

\* The process moves on, or ends its job, with what it has read.
LEMMA MoveBacked ==
  ASSUME DeliveryInv, WorkBacked, video \subseteq video', NEW p \in Proc, NEW place,
         pc' = [pc EXCEPT ![p] = place],
         place \in {"sync", "challenge", "insert_challenger"} => video' # {},
         \/ UNCHANGED <<job, copy>>
         \/ job' = [job EXCEPT ![p] = None] /\ \A q \in Proc \ {p} : copy'[q] = copy[q]
         \/ \E t, r : /\ Backed(t, r, video')
                      /\ job'[p] = t /\ copy' = [copy EXCEPT ![p] = r]
                      /\ \A q \in Proc \ {p} : job'[q] = job[q]
  PROVE  WorkBacked'
<1> USE DEF DeliveryInv, WorkInv
<1>1. \A q \in Proc \ {p} :
        job'[q] = job[q] /\ copy'[q] = copy[q] /\ pc'[q] = pc[q]
  OBVIOUS
<1>2. pc'[p] = place
  OBVIOUS
<1>3. job'[p] # None => Backed(job'[p], copy'[p], video')
  <2>1. CASE UNCHANGED <<job, copy>>
    BY <2>1, BackedLater DEF WorkBacked, BackedWork
  <2>2. CASE job' = [job EXCEPT ![p] = None]
    BY <2>2
  <2>3. CASE \E t, r : Backed(t, r, video') /\ job'[p] = t /\ copy' = [copy EXCEPT ![p] = r]
    <3>1. PICK t, r : Backed(t, r, video') /\ job'[p] = t /\ copy' = [copy EXCEPT ![p] = r]
      BY <2>3
    <3>2. copy'[p] = r
      BY <3>1
    <3>3. QED
      BY <3>1, <3>2
  <2>4. QED
    BY <2>1, <2>2, <2>3
<1>4. BackedWork(p)'
  BY <1>2, <1>3 DEF BackedWork
<1>5. QED
  BY <1>1, <1>4, WorkBackedKept

LEMMA FinishBacked ==
  ASSUME DeliveryInv, WorkBacked, video \subseteq video', NEW p \in Proc, Finish(p)
  PROVE  WorkBacked'
<1>1. PICK place \in {"idle", "claim"} : pc' = [pc EXCEPT ![p] = place]
  BY DEF Finish, Goto
<1>2. job' = [job EXCEPT ![p] = None] /\ \A q \in Proc \ {p} : copy'[q] = copy[q]
  BY DEF Finish, DeliveryInv, WorkInv
<1>3. QED
  BY <1>1, <1>2, MoveBacked

-----------------------------------------------------------------------------
(* What a step on the rows is to an observer.                                *)

Simulated == RowsBacked' /\ [Request!Next]_Seen

\* No row changes but in what nobody sees.
LEMMA SameSeen ==
  ASSUME RowsBacked, UNCHANGED <<row, kind, video>> PROVE Simulated
BY DEF RowsBacked, Simulated, Seen, Lineage, Rivals, Chosen, Answer

\* A row of the lineage is replaced.
LEMMA OneRowSeen ==
  ASSUME DeliveryInv, RowsBacked, NEW t \in Lineage, NEW r, r.status # "absent",
         video \subseteq video', UNCHANGED kind, row' = [row EXCEPT ![t] = r],
         Backed(t, r, video')
  PROVE  /\ RowsBacked' /\ UNCHANGED <<Lineage, Rivals>>
         /\ row'[t] = r
         /\ r.best \in BOOLEAN =>
              Chosen' = IF r.best THEN Chosen \cup {t} ELSE Chosen \ {t}
<1>1. t \in Task /\ row \in [Task -> Row]
  BY DEF DeliveryInv, RowsInv, Lineage
<1>2. row'[t] = r /\ \A u \in Task \ {t} : row'[u] = row[u]
  BY <1>1
<1>3. RowsBacked'
  BY <1>2, BackedLater DEF RowsBacked
<1>4. UNCHANGED <<Lineage, Rivals>>
  BY <1>1, <1>2 DEF Lineage, Rivals
<1>5. r.best \in BOOLEAN => Chosen' = IF r.best THEN Chosen \cup {t} ELSE Chosen \ {t}
  BY <1>1, <1>2 DEF Chosen
<1>6. QED
  BY <1>2, <1>3, <1>4, <1>5

\* Only the status of a row changes.
LEMMA StatusSeen ==
  ASSUME DeliveryInv, RowsBacked, NEW t \in Lineage, NEW s,
         s \notin {"absent", "completed"},
         row' = [row EXCEPT ![t].status = s], UNCHANGED <<kind, video>>
  PROVE  Simulated
<1> DEFINE r == [row[t] EXCEPT !.status = s]
<1>1. t \in Task /\ row[t] \in Row /\ row \in [Task -> Row] /\ Backed(t, row[t], video)
  BY DEF DeliveryInv, RowsInv, RowsBacked, Lineage
<1>2. /\ r.status = s /\ r.delivery = row[t].delivery /\ r.resolved = row[t].resolved
      /\ r.best = row[t].best /\ r.best \in BOOLEAN /\ row' = [row EXCEPT ![t] = r]
  BY <1>1 DEF Row
<1> HIDE DEF r
<1>3. Backed(t, r, video')
  BY <1>1, <1>2 DEF Backed
<1>4. /\ RowsBacked' /\ UNCHANGED <<Lineage, Rivals>> /\ row'[t] = r
      /\ Chosen' = IF r.best THEN Chosen \cup {t} ELSE Chosen \ {t}
  BY <1>2, <1>3, OneRowSeen
<1>5. UNCHANGED Chosen
  BY <1>1, <1>2, <1>4 DEF Chosen
<1>6. UNCHANGED Answer
  BY <1>1, <1>2, <1>4, TaskFacts DEF Answer
<1>7. QED
  BY <1>4, <1>5, <1>6 DEF Simulated, Seen

\* The row of a version is written by one who read it some time ago.
LEMMA WriteSeen ==
  ASSUME DeliveryInv, RowsBacked, NEW t \in Lineage, NEW r \in Row,
         r.status # "absent", UNCHANGED kind, row' = [row EXCEPT ![t] = r],
         video' \in {video, video \cup {t}},
         r.best => MayBeChosen(t, video),
         r.status = "completed" => video' # {},
         t = Root /\ r.delivery = "delivered"
           => r.resolved = Root /\ (Root \in video' \/ r.best)
  PROVE  Simulated
<1>1. t \in Task /\ r.best \in BOOLEAN /\ video \subseteq video'
  BY DEF Lineage, Row
<1>2. Backed(t, r, video')
  BY <1>1 DEF Backed, MayBeChosen
<1>3. /\ RowsBacked' /\ UNCHANGED <<Lineage, Rivals>> /\ row'[t] = r
      /\ Chosen' = IF r.best THEN Chosen \cup {t} ELSE Chosen \ {t}
  BY <1>1, <1>2, OneRowSeen
<1>4. /\ t # Root => UNCHANGED Answer
      /\ t = Root => Answer' = None \/ (Answer' = Root /\ Root \in video' \cup Chosen')
  <2>1. CASE t # Root
    BY <1>1, <2>1, TaskFacts DEF Answer, DeliveryInv, RowsInv
  <2>2. CASE t = Root
    BY <1>1, <1>3, <2>2, TaskFacts DEF Answer
  <2>3. QED
    BY <2>1, <2>2
<1>5. \/ Chosen' = Chosen \ {t}
      \/ t \in Request!Eligible /\ Chosen' = Chosen \cup {t}
  BY <1>3 DEF Request!Eligible, MayBeChosen
<1>6. Request!Write(t)
  BY <1>3, <1>4, <1>5 DEF Request!Write, Rivals, Chosen, Answer
<1>7. QED
  BY <1>1, <1>3, <1>6 DEF Simulated, Request!Next

\* A delivered task resolves its root.
LEMMA ResolveSeen ==
  ASSUME DeliveryInv, RowsBacked, NEW p \in Proc, SyncAlways(p), UNCHANGED <<kind, video>>,
         job[p] \in video, job[p] = Root \/ kind[job[p]] # "challenger"
  PROVE  Simulated
<1> DEFINE r == [row[Root] EXCEPT !.status = "completed", !.delivery = "delivered",
                                  !.resolved = job[p], !.mode = copy[p].mode]
<1>1. /\ Root \in Lineage /\ Root \in Task /\ row \in [Task -> Row]
      /\ Backed(Root, row[Root], video) /\ job[p] \in Task /\ kind[Root] = "root"
  BY TaskFacts DEF DeliveryInv, RowsInv, RestInv, KindInv, RowsBacked
<1>2. /\ r.status = "completed" /\ r.delivery = "delivered" /\ r.resolved = job[p]
      /\ r.best = row[Root].best /\ r.best \in BOOLEAN /\ row' = [row EXCEPT ![Root] = r]
  BY <1>1 DEF Row, SyncAlways
<1> HIDE DEF r
<1>3. Backed(Root, r, video')
  BY <1>1, <1>2 DEF Backed
<1>4. /\ RowsBacked' /\ UNCHANGED <<Lineage, Rivals>> /\ row'[Root] = r
      /\ Chosen' = IF r.best THEN Chosen \cup {Root} ELSE Chosen \ {Root}
  BY <1>1, <1>2, <1>3, OneRowSeen
<1>5. UNCHANGED Chosen
  BY <1>1, <1>2, <1>4 DEF Chosen
<1>6. Answer' = job[p]
  BY <1>2, <1>4 DEF Answer
<1>7. job[p] \in video \ Rivals
  BY <1>1 DEF Rivals
<1>8. Request!Resolve(job[p])
  BY <1>4, <1>5, <1>6, <1>7 DEF Request!Resolve, Rivals, Chosen, Answer
<1>9. QED
  BY <1>1, <1>4, <1>8 DEF Simulated, Request!Next

\* The root is marked as failed.
LEMMA WithdrawSeen ==
  ASSUME DeliveryInv, RowsBacked, NEW r \in Row, UNCHANGED <<kind, video>>,
         r.delivery = "failed", r.best = row[Root].best,
         r.status \in {row[Root].status, "failed"},
         row' = [row EXCEPT ![Root] = r]
  PROVE  Simulated
<1>1. /\ Root \in Lineage /\ Root \in Task /\ row[Root].status # "absent"
      /\ Backed(Root, row[Root], video) /\ row \in [Task -> Row]
  BY TaskFacts DEF DeliveryInv, RowsInv, RowsBacked, Lineage
<1>2. r.best \in BOOLEAN /\ r.status # "absent" /\ Backed(Root, r, video')
  BY <1>1 DEF Row, Backed
<1>3. /\ RowsBacked' /\ UNCHANGED <<Lineage, Rivals>> /\ row'[Root] = r
      /\ Chosen' = IF r.best THEN Chosen \cup {Root} ELSE Chosen \ {Root}
  BY <1>1, <1>2, OneRowSeen
<1>4. UNCHANGED Chosen
  BY <1>1, <1>2, <1>3 DEF Chosen
<1>5. Answer' = None
  BY <1>3 DEF Answer
<1>6. Request!Withdraw
  BY <1>3, <1>4, <1>5 DEF Request!Withdraw, Rivals, Chosen, Answer
<1>7. QED
  BY <1>3, <1>6 DEF Simulated, Request!Next

\* A version is accepted.
LEMMA AcceptSeen ==
  ASSUME DeliveryInv, RealInv, RowsBacked, NEW t \in Lineage, Accept(t),
         row[t].status = "completed", UNCHANGED <<kind, video>>
  PROVE  Simulated
<1>1. /\ t \in Task /\ Root \in Task /\ Root \in Lineage /\ row \in [Task -> Row]
      /\ Lineage' = Lineage
  BY TaskFacts, AcceptRow DEF DeliveryInv, RowsInv, Lineage
<1>2. video # {} /\ MayBeChosen(t, video)
  BY <1>1 DEF RowsBacked, Backed, MayBeChosen, RealInv, RowsReal, RowReal
<1>3. ASSUME NEW u \in Task
      PROVE  /\ row'[u].best <=> u = t
             /\ u # Root => row'[u].status = row[u].status
             /\ u = Root => row'[u].status = "completed" /\ row'[u].resolved = t
                              /\ row'[u].delivery = "delivered"
  <2> DEFINE marked == IF u \in Lineage THEN [row[u] EXCEPT !.best = (u = t)] ELSE row[u]
  <2>1. row'[u] = IF u # Root THEN marked
                  ELSE [marked EXCEPT !.status = "completed", !.delivery = "delivered",
                                      !.resolved = t, !.mode = row[t].mode]
    BY DEF Accept
  <2>2. row[u] \in Row /\ (u \notin Lineage => ~ row[u].best /\ u # t)
    BY <1>1 DEF Lineage, RowsBacked, Backed, Row
  <2>3. marked \in Row /\ (marked.best <=> u = t) /\ marked.status = row[u].status
    BY <2>2 DEF Row
  <2> HIDE DEF marked
  <2>4. QED
    BY <2>1, <2>3 DEF Row
<1>4. RowsBacked'
  <2> SUFFICES ASSUME NEW u \in Task PROVE Backed(u, row'[u], video')
    BY DEF RowsBacked
  <2>1. row'[u].best => u = t /\ row'[u].status # "absent"
    BY <1>1, <1>3 DEF Lineage
  <2>2. QED
    BY <1>2, <2>1 DEF Backed
<1>5. Chosen' = {t} /\ Answer' = t /\ UNCHANGED Rivals
  BY <1>1, <1>3 DEF Chosen, Answer, Rivals
<1>6. Request!Choose(t)
  BY <1>1, <1>2, <1>5
  DEF Request!Choose, Request!Eligible, MayBeChosen, Rivals, Chosen, Answer
<1>7. QED
  BY <1>1, <1>4, <1>6 DEF Simulated, Request!Next

\* A task is added.
LEMMA BranchSeen ==
  ASSUME DeliveryInv, BranchInv, RowsBacked, NEW base \in Lineage, NEW k,
         InsertChild(base, k), UNCHANGED video,
         k = "challenger" => video # {}
  PROVE  Simulated
<1> DEFINE child == Leaf + 1
           new == [BlankRow EXCEPT !.status = "queued",
                                   !.quality = row[base].quality,
                                   !.mode = CASE k = "repair" -> "repaired"
                                              [] k = "degraded" -> "degraded"
                                              [] OTHER -> "none"]
<1>1. /\ child \in Task /\ row \in [Task -> Row] /\ kind \in [Task -> Kind]
      /\ row' = [row EXCEPT ![child] = new] /\ kind' = [kind EXCEPT ![child] = k]
  BY DEF InsertChild, DeliveryInv, RowsInv, KindInv
<1>2. new.status = "queued" /\ new.delivery = "pending" /\ new.best = FALSE
  BY DEF BlankRow
<1>3. Leaf \in Nat /\ child \notin Lineage /\ child # Root
  BY LeafFacts DEF DeliveryInv, RowsInv, Root
<1> HIDE DEF new, child
<1>4. row'[child] = new /\ \A u \in Task \ {child} : row'[u] = row[u]
  BY <1>1
<1>5. kind'[child] = k /\ \A u \in Task \ {child} : kind'[u] = kind[u]
  BY <1>1
<1>6. RowsBacked'
  BY <1>2, <1>4 DEF RowsBacked, Backed
<1>7. Lineage' = Lineage \cup {child}
  BY <1>1, <1>2, <1>4 DEF Lineage
<1>8. ~ row[child].best
  BY <1>1, <1>3 DEF RowsBacked, Backed, Lineage
<1>9. UNCHANGED <<Chosen, Answer>>
  BY <1>1, <1>2, <1>3, <1>4, <1>8, TaskFacts DEF Chosen, Answer
<1>10. kind[child] # "challenger"
  BY <1>1, <1>3 DEF BranchInv
<1>11. Rivals' = IF k = "challenger" THEN Rivals \cup {child} ELSE Rivals
  BY <1>1, <1>5, <1>10 DEF Rivals
<1>12. ASSUME NEW v \in Task, v = child PROVE Request!Branch(v)
  BY <1>1, <1>3, <1>7, <1>9, <1>11, <1>12 DEF Request!Branch, Rivals, Chosen, Answer
<1>13. Request!Next
  <2>1. \E v \in Task : Request!Branch(v)
    BY <1>1, <1>12
  <2>2. QED
    BY <2>1 DEF Request!Next
<1>14. QED
  BY <1>6, <1>13 DEF Simulated

-----------------------------------------------------------------------------
(* Every step of the delivery is a step of the request, or a stutter.        *)

Answers == AnswerInv' /\ [Request!Next]_Seen

LEMMA AnswerFacts ==
  ASSUME DeliveryInv, AnswerInv, NEW p \in Proc,
         pc[p] \notin {"idle", "claim", "sync_descendant"}
  PROVE  /\ job[p] # None /\ job[p] \in Lineage /\ job[p] \in Task
         /\ copy[p] \in Row /\ copy[p].status # "absent"
         /\ Backed(job[p], copy[p], video)
         /\ copy[p].best => MayBeChosen(job[p], video)
BY CopyFacts DEF AnswerInv, WorkBacked, BackedWork, Backed

\* The process writes its changed copy back.
LEMMA SaveAnswers ==
  ASSUME DeliveryInv, RealInv, AnswerInv, NEW p \in Proc, NEW r \in Row, NEW place,
         pc[p] \notin {"idle", "claim", "sync_descendant"},
         Save(p, r), Goto(p, place), UNCHANGED <<kind, job>>,
         video' \in {video, video \cup {job[p]}},
         r.status # "absent", r.best = copy[p].best,
         r.status = "completed" => video' # {},
         place \in {"sync", "challenge", "insert_challenger"} => video' # {},
         CopyReal(job[p], r, video')
  PROVE  Answers
<1>1. /\ job[p] \in Lineage /\ job[p] \in Task /\ video \subseteq video'
      /\ r.best => MayBeChosen(job[p], video)
  BY AnswerFacts
<1>2. Backed(job[p], r, video')
  BY <1>1 DEF Backed, MayBeChosen
<1>3. RowsBacked' /\ [Request!Next]_Seen
  BY <1>1, WriteSeen DEF Save, Simulated, AnswerInv, CopyReal
<1>4. WorkBacked'
  BY <1>1, <1>2, MoveBacked DEF Save, Goto, AnswerInv
<1>5. QED
  BY <1>3, <1>4 DEF Answers, AnswerInv

\* The process moves on, with nothing written.
LEMMA MoveAnswers ==
  ASSUME DeliveryInv, AnswerInv, NEW p \in Proc, UNCHANGED <<row, kind, video>>,
         WorkBacked'
  PROVE  Answers
BY SameSeen DEF Answers, AnswerInv, Simulated

LEMMA RunAnswers ==
  ASSUME DeliveryInv, RealInv, AnswerInv, NEW p \in Proc,
         Run(p) \/ Progress(p) \/ FailLate(p)
  PROVE  Answers
<1>1. CASE Begin(p)
  <2>1. PICK t \in Queued :
          /\ row' = [row EXCEPT ![t].status = "running"]
          /\ copy' = [copy EXCEPT ![p] = [row[t] EXCEPT !.status = "running"]]
          /\ job' = [job EXCEPT ![p] = t]
    BY <1>1 DEF Begin
  <2> DEFINE r == [row[t] EXCEPT !.status = "running"]
  <2>2. t \in Task /\ t \in Lineage /\ row[t] \in Row /\ Backed(t, row[t], video)
    BY DEF Queued, Lineage, AnswerInv, RowsBacked, DeliveryInv, RowsInv
  <2>3. r.status = "running" /\ r.best = row[t].best
        /\ copy' = [copy EXCEPT ![p] = r]
    BY <2>1, <2>2 DEF Row
  <2> HIDE DEF r
  <2>4. pc' = [pc EXCEPT ![p] = "running"] /\ UNCHANGED <<kind, video>>
    BY <1>1 DEF Begin, Goto, files
  <2>5. Backed(t, r, video')
    BY <2>2, <2>3, <2>4 DEF Backed
  <2>6. job'[p] = t /\ \A q \in Proc \ {p} : job'[q] = job[q]
    BY <2>1 DEF DeliveryInv, WorkInv
  <2>7. WorkBacked'
    BY <2>3, <2>4, <2>5, <2>6, MoveBacked DEF AnswerInv
  <2>8. RowsBacked' /\ [Request!Next]_Seen
    <3>1. "running" \notin {"absent", "completed"}
      OBVIOUS
    <3>2. Simulated
      BY <2>1, <2>2, <2>4, <3>1, StatusSeen DEF AnswerInv
    <3>3. QED
      BY <3>2 DEF Simulated
  <2>9. QED
    BY <2>7, <2>8 DEF Answers, AnswerInv
<1>2. CASE ClaimNothing(p)
  <2>1. /\ pc' = [pc EXCEPT ![p] = "idle"]
        /\ UNCHANGED <<row, kind, video, job, copy>>
    BY <1>2 DEF ClaimNothing, Goto, rows, files
  <2>2. WorkBacked'
    BY <2>1, MoveBacked DEF AnswerInv
  <2>3. QED
    BY <2>1, <2>2, MoveAnswers
<1>3. CASE Progress(p)
  <2>1. /\ Goto(p, "running") /\ Save(p, copy[p])
        /\ pc[p] \notin {"idle", "claim", "sync_descendant"}
        /\ UNCHANGED <<kind, job, video>>
    BY <1>3 DEF Progress, Goto, DeliveryInv, WorkInv, files
  <2>2. /\ copy[p] \in Row /\ copy[p].status # "absent"
        /\ copy[p].status = "completed" => video' # {}
    BY <2>1, AnswerFacts DEF Backed
  <2>3. CopyReal(job[p], copy[p], video')
    BY <2>1, RealFacts
  <2>4. QED
    BY <2>1, <2>2, <2>3, SaveAnswers
<1>4. CASE Complete(p)
  <2>1. PICK q \in {"accepted", "needs_revision"} :
          Save(p, [copy[p] EXCEPT
            !.status = "completed",
            !.delivery = "delivered",
            !.resolved = job[p],
            !.quality = q,
            !.mode = IF @ # "none" THEN @
                     ELSE IF job[p] = Root THEN "primary" ELSE "repaired"])
    BY <1>4 DEF Complete
  <2> DEFINE r == [copy[p] EXCEPT
            !.status = "completed",
            !.delivery = "delivered",
            !.resolved = job[p],
            !.quality = q,
            !.mode = IF @ # "none" THEN @
                     ELSE IF job[p] = Root THEN "primary" ELSE "repaired"]
  <2>2. /\ Goto(p, "sync") /\ pc[p] \notin {"idle", "claim", "sync_descendant"}
        /\ UNCHANGED <<kind, job>> /\ video' = video \cup {job[p]}
    BY <1>4 DEF Complete
  <2>3. copy[p] \in Row /\ job[p] \in Task
    BY <2>2, AnswerFacts
  <2>4. /\ r \in Row /\ r.status = "completed" /\ r.best = copy[p].best
        /\ r.resolved = job[p]
    BY <2>3 DEF Row, Status, Delivery, Mode, Quality
  <2>5. Save(p, r)
    BY <2>1
  <2> HIDE DEF r
  <2>6. CopyReal(job[p], r, video')
    BY <2>2, <2>4 DEF CopyReal
  <2>7. QED
    BY <2>2, <2>4, <2>5, <2>6, SaveAnswers
<1>5. CASE Fail(p) \/ FailLate(p)
  <2> DEFINE r == [copy[p] EXCEPT !.status = "failed"]
  <2>1. /\ Goto(p, "repair") /\ Save(p, r)
        /\ pc[p] \notin {"idle", "claim", "sync_descendant"}
        /\ UNCHANGED <<kind, video, job>>
    BY <1>5 DEF Fail, FailLate, files
  <2>2. copy[p] \in Row /\ CopyReal(job[p], copy[p], video)
    BY <2>1, RealFacts
  <2>3. /\ r \in Row /\ r.status = "failed" /\ r.delivery = copy[p].delivery
        /\ r.resolved = copy[p].resolved /\ r.best = copy[p].best
    BY <2>2 DEF Row, Status
  <2> HIDE DEF r
  <2>4. CopyReal(job[p], r, video')
    BY <2>1, <2>2, <2>3 DEF CopyReal
  <2>5. QED
    BY <2>1, <2>3, <2>4, SaveAnswers
<1>6. QED
  BY <1>1, <1>2, <1>3, <1>4, <1>5 DEF Run

\* A challenger is added by the engine only after a completion.
LEMMA DecideAnswers ==
  ASSUME DeliveryInv, AnswerInv, NEW p \in Proc,
         Repair(p) \/ CreateRepair(p) \/ Degrade(p) \/ CreateDegraded(p)
           \/ Challenge(p)
  PROVE  Answers
<1>1. UNCHANGED <<row, kind, video, job, copy>>
  BY DEF Repair, CreateRepair, Degrade, CreateDegraded, Challenge, rows, files
<1>2. PICK place :
        /\ pc' = [pc EXCEPT ![p] = place]
        /\ place \in {"sync", "challenge", "insert_challenger"} => pc[p] = "challenge"
  BY DEF Repair, CreateRepair, Degrade, CreateDegraded, Challenge, Goto
<1>3. pc[p] = "challenge" => video # {}
  BY DEF AnswerInv, WorkBacked, BackedWork
<1>4. WorkBacked'
  BY <1>1, <1>2, <1>3, MoveBacked DEF AnswerInv
<1>5. QED
  BY <1>1, <1>4, MoveAnswers

LEMMA BranchAnswers ==
  ASSUME DeliveryInv, BranchInv, AnswerInv,
         \/ \E p \in Proc : InsertChallenger(p) \/ InsertRecovery(p)
         \/ \E t \in Lineage : Revise(t) \/ Retry(t)
  PROVE  Answers
<1>1. CASE \E p \in Proc : InsertChallenger(p)
  <2>1. PICK p \in Proc : InsertChallenger(p)
    BY <1>1
  <2>2. /\ pc' = [pc EXCEPT ![p] = "promote"] /\ pc[p] = "insert_challenger"
        /\ InsertChild(job[p], "challenger") /\ UNCHANGED <<video, job, copy>>
    BY <2>1 DEF InsertChallenger, Goto, files
  <2>3. job[p] \in Lineage /\ video # {}
    BY <2>2, AnswerFacts DEF AnswerInv, WorkBacked, BackedWork
  <2>4. RowsBacked' /\ [Request!Next]_Seen
    BY <2>2, <2>3, BranchSeen DEF AnswerInv, Simulated
  <2>5. WorkBacked'
    BY <2>2, MoveBacked DEF AnswerInv
  <2>6. QED
    BY <2>4, <2>5 DEF Answers, AnswerInv
<1>2. CASE \E p \in Proc : InsertRecovery(p)
  <2>1. PICK p \in Proc : InsertRecovery(p)
    BY <1>2
  <2>2. /\ UNCHANGED video /\ Finish(p)
        /\ InsertChild(job[p], "repair") \/ InsertChild(job[p], "degraded")
        /\ pc[p] \notin {"idle", "claim", "sync_descendant"}
    BY <2>1 DEF InsertRecovery, files
  <2>3. job[p] \in Lineage
    BY <2>2, AnswerFacts
  <2>4. RowsBacked' /\ [Request!Next]_Seen
    BY <2>2, <2>3, BranchSeen DEF AnswerInv, Simulated
  <2>5. WorkBacked'
    BY <2>2, FinishBacked DEF AnswerInv
  <2>6. QED
    BY <2>4, <2>5 DEF Answers, AnswerInv
<1>3. CASE \E t \in Lineage : Revise(t) \/ Retry(t)
  <2>1. PICK t \in Lineage : Revise(t) \/ Retry(t)
    BY <1>3
  <2>2. /\ UNCHANGED <<video, worker>>
        /\ \E k : InsertChild(t, k) /\ (k = "challenger" => Delivered(row[t]))
    BY <2>1 DEF Revise, Retry, files
  <2>3. Delivered(row[t]) => video # {}
    BY DEF Delivered, AnswerInv, RowsBacked, Backed, Lineage
  <2>4. RowsBacked' /\ [Request!Next]_Seen
    BY <2>2, <2>3, BranchSeen DEF AnswerInv, Simulated
  <2>5. WorkBacked'
    BY <2>2 DEF AnswerInv, WorkBacked, BackedWork, worker
  <2>6. QED
    BY <2>4, <2>5 DEF Answers, AnswerInv
<1>4. QED
  BY <1>1, <1>2, <1>3

LEMMA MarkAnswers ==
  ASSUME DeliveryInv, RealInv, AnswerInv, NEW p \in Proc,
         Emergency(p) \/ GiveUp(p) \/ FailLost(p) \/ Kill(p)
  PROVE  Answers
<1>1. /\ pc[p] \notin {"idle", "claim", "sync_descendant"} /\ UNCHANGED <<job, kind>>
  BY DEF Emergency, GiveUp, FailLost, Kill
<1>2. /\ job[p] # None /\ job[p] \in Task /\ copy[p] \in Row
      /\ CopyReal(job[p], copy[p], video) /\ copy[p].status # "absent"
      /\ copy[p].status = "completed" => video # {}
  BY <1>1, RealFacts, AnswerFacts DEF Backed
<1>3. CASE Emergency(p)
  <2> DEFINE r == [copy[p] EXCEPT
         !.status = "completed",
         !.delivery = "delivered",
         !.resolved = job[p],
         !.mode = IF parent[job[p]] = None THEN "emergency" ELSE "degraded"]
  <2>1. /\ Save(p, r) /\ video' = video \cup {job[p]} /\ Goto(p, "sync_guaranteed")
    BY <1>3 DEF Emergency
  <2>2. /\ r \in Row /\ r.status = "completed" /\ r.best = copy[p].best
        /\ r.resolved = job[p]
    BY <1>2 DEF Row, Status, Delivery, Mode
  <2> HIDE DEF r
  <2>3. CopyReal(job[p], r, video')
    BY <2>1, <2>2 DEF CopyReal
  <2>4. QED
    BY <1>1, <2>1, <2>2, <2>3, SaveAnswers
<1>4. CASE GiveUp(p)
  <2> DEFINE r == [copy[p] EXCEPT !.delivery = "failed"]
  <2>1. Save(p, r) /\ UNCHANGED video /\ Goto(p, "fail_root")
    BY <1>4 DEF GiveUp, files
  <2>2. /\ r \in Row /\ r.delivery = "failed" /\ r.status = copy[p].status
        /\ r.best = copy[p].best
    BY <1>2 DEF Row, Delivery
  <2> HIDE DEF r
  <2>3. CopyReal(job[p], r, video')
    BY <1>2, <2>1, <2>2 DEF CopyReal
  <2>4. QED
    BY <1>1, <1>2, <2>1, <2>2, <2>3, SaveAnswers
<1>5. CASE FailLost(p) \/ Kill(p)
  <2> DEFINE r == [copy[p] EXCEPT !.status = "failed", !.delivery = "failed"]
  <2>1. Save(p, r) /\ UNCHANGED video
    BY <1>5 DEF FailLost, Kill, files
  <2>2. PICK place \in {"repair", "kill_root"} : Goto(p, place)
    BY <1>5 DEF FailLost, Kill
  <2>3. r \in Row /\ r.delivery = "failed" /\ r.status = "failed" /\ r.best = copy[p].best
    BY <1>2 DEF Row, Status, Delivery
  <2> HIDE DEF r
  <2>4. CopyReal(job[p], r, video')
    BY <2>3 DEF CopyReal
  <2>5. QED
    BY <1>1, <1>2, <2>1, <2>2, <2>3, <2>4, SaveAnswers
<1>6. QED
  BY <1>3, <1>4, <1>5

LEMMA ResolveAnswers ==
  ASSUME DeliveryInv, RealInv, AnswerInv, NEW p \in Proc,
         FailRoot(p) \/ KillRoot(p) \/ SyncRoot(p) \/ Promote(p)
  PROVE  Answers
<1>1. /\ UNCHANGED <<kind, video>> /\ Root \in Task /\ row \in [Task -> Row]
      /\ row[Root] \in Row
  BY RealFacts, TaskFacts DEF FailRoot, KillRoot, SyncRoot, Promote, files
<1>2. UNCHANGED row => RowsBacked' /\ [Request!Next]_Seen
  BY <1>1, SameSeen DEF AnswerInv, Simulated
<1>3. Finish(p) => WorkBacked'
  BY <1>1, FinishBacked DEF AnswerInv
<1>4. CASE FailRoot(p) \/ KillRoot(p)
  <2>1. CASE row' = [row EXCEPT ![Root].delivery = "failed"]
    <3> DEFINE r == [row[Root] EXCEPT !.delivery = "failed"]
    <3>1. /\ r \in Row /\ r.delivery = "failed" /\ r.best = row[Root].best
          /\ r.status = row[Root].status /\ row' = [row EXCEPT ![Root] = r]
      BY <1>1, <2>1 DEF Row, Delivery
    <3> HIDE DEF r
    <3>2. QED
      BY <1>1, <1>3, <1>4, <3>1, WithdrawSeen
      DEF AnswerInv, Simulated, Answers, FailRoot, KillRoot
  <2>2. CASE row' = [row EXCEPT ![Root].status = "failed", ![Root].delivery = "failed"]
    <3> DEFINE r == [row[Root] EXCEPT !.status = "failed", !.delivery = "failed"]
    <3>1. /\ r \in Row /\ r.delivery = "failed" /\ r.best = row[Root].best
          /\ r.status = "failed" /\ row' = [row EXCEPT ![Root] = r]
      BY <1>1, <2>2 DEF Row, Delivery, Status
    <3> HIDE DEF r
    <3>2. QED
      BY <1>1, <1>3, <1>4, <3>1, WithdrawSeen
      DEF AnswerInv, Simulated, Answers, FailRoot, KillRoot
  <2>3. QED
    BY <1>2, <1>3, <1>4, <2>1, <2>2 DEF FailRoot, KillRoot, Answers, AnswerInv
<1>5. CASE SyncRoot(p)
  <2>1. job[p] \in video
    BY <1>5 DEF SyncRoot, RealInv, WorkReal, ProcReal, DeliveryInv, WorkInv
  <2>2. RowsBacked' /\ [Request!Next]_Seen
    BY <1>1, <1>2, <1>5, <2>1, ResolveSeen
    DEF SyncRoot, SyncResolution, AnswerInv, Simulated
  <2>3. CASE pc' = [pc EXCEPT ![p] = "challenge"] /\ UNCHANGED <<role, job, copy>>
    BY <1>1, <2>1, <2>2, <2>3, MoveBacked DEF AnswerInv, Answers
  <2>4. QED
    BY <1>3, <1>5, <2>2, <2>3 DEF SyncRoot, Goto, Answers, AnswerInv
<1>6. CASE Promote(p)
  <2>1. CASE Accept(job[p]) /\ row[job[p]].status = "completed"
    BY <1>1, <1>3, <1>6, <2>1, CopyFacts, AcceptSeen
    DEF Promote, AnswerInv, Simulated, Answers
  <2>2. QED
    BY <1>2, <1>3, <1>6, <2>1 DEF Promote, Answers, AnswerInv
<1>7. QED
  BY <1>4, <1>5, <1>6

LEMMA SweepAnswers ==
  ASSUME DeliveryInv, AnswerInv, NEW p \in Proc, Sweep(p) PROVE Answers
<1>1. UNCHANGED <<row, kind, video>>
  BY DEF Sweep, rows, files
<1>2. CASE SweepNothing(p)
  <2>1. pc' = [pc EXCEPT ![p] = "claim"] /\ UNCHANGED <<job, copy>>
    BY <1>2 DEF SweepNothing, Goto
  <2>2. QED
    BY <1>1, <2>1, MoveBacked, MoveAnswers DEF AnswerInv
<1>3. CASE \E t \in Lineage,
              place \in {"promote", "sync_descendant", "lost", "repair", "kill"} :
             Take(p, "watchdog", t, place)
  <2>1. PICK t \in Lineage,
             place \in {"promote", "sync_descendant", "lost", "repair", "kill"} :
          Take(p, "watchdog", t, place)
    BY <1>3
  <2>2. /\ pc' = [pc EXCEPT ![p] = place] /\ copy' = [copy EXCEPT ![p] = row[t]]
        /\ job'[p] = t /\ \A q \in Proc \ {p} : job'[q] = job[q]
    BY <2>1 DEF Take, Goto, DeliveryInv, WorkInv
  <2>3. Backed(t, row[t], video')
    BY <1>1 DEF AnswerInv, RowsBacked, Lineage
  <2>4. WorkBacked'
    BY <1>1, <2>2, <2>3, MoveBacked DEF AnswerInv
  <2>5. QED
    BY <1>1, <2>4, MoveAnswers
<1>4. Leaf \in Lineage /\ Resolution \in Lineage
  BY LeafFacts DEF Resolution, DeliveryInv, RowsInv
<1>5. QED
  BY <1>2, <1>3, <1>4
  DEF Sweep, SweepChallenger, SweepDescendant, SweepLost, SweepFailed, SweepUnready,
      Lost, Missing, Deliverable

LEMMA RestAnswers ==
  ASSUME DeliveryInv, RealInv, AnswerInv,
         \/ \E t \in Lineage : AcceptRequest(t) \/ Cancel(t)
         \/ \E t \in Task : Requeue(t)
         \/ UNCHANGED vars
  PROVE  Answers
<1>1. UNCHANGED <<kind, video, worker>>
  BY DEF AcceptRequest, Cancel, Requeue, vars, files, rows
<1>2. WorkBacked'
  BY <1>1 DEF AnswerInv, WorkBacked, BackedWork, worker
<1>3. CASE \E t \in Lineage : AcceptRequest(t)
  BY <1>1, <1>2, <1>3, AcceptSeen DEF AcceptRequest, AnswerInv, Simulated, Answers
<1>4. CASE \E t \in Lineage, s \in {"cancelled", "queued"} :
             row' = [row EXCEPT ![t].status = s]
  BY <1>1, <1>2, <1>4, StatusSeen DEF AnswerInv, Simulated, Answers
<1>5. CASE UNCHANGED row
  BY <1>1, <1>2, <1>5, SameSeen DEF AnswerInv, Simulated, Answers
<1>6. QED
  BY <1>3, <1>4, <1>5 DEF Cancel, Requeue, vars, rows, Lineage

LEMMA CrashAnswers ==
  ASSUME DeliveryInv, AnswerInv, NEW p \in Proc, Crash(p) PROVE Answers
<1>1. /\ UNCHANGED <<row, kind, video>> /\ job' = [job EXCEPT ![p] = None]
      /\ pc' = [pc EXCEPT ![p] = "idle"]
  BY DEF Crash, rows, files, Goto
<1>2. \A q \in Proc \ {p} : copy'[q] = copy[q]
  BY DEF Crash, DeliveryInv, WorkInv
<1>3. WorkBacked'
  BY <1>1, <1>2, MoveBacked DEF AnswerInv
<1>4. QED
  BY <1>1, <1>3, MoveAnswers

LEMMA StepAnswers ==
  ASSUME "loss" \notin Events, DeliveryInv, BranchInv, RealInv, AnswerInv, [Next]_vars
  PROVE  Answers
<1>1. CASE \E p \in Proc : Step(p) \/ Progress(p) \/ FailLate(p) \/ Crash(p)
  <2>1. PICK p \in Proc : Step(p) \/ Progress(p) \/ FailLate(p) \/ Crash(p)
    BY <1>1
  <2>2. CASE Run(p) \/ Progress(p) \/ FailLate(p) \/ Crash(p)
    BY <2>2, RunAnswers, CrashAnswers
  <2>3. CASE Recover(p)
    BY <2>3, DecideAnswers, BranchAnswers, MarkAnswers, ResolveAnswers DEF Recover
  <2>4. CASE Settle(p)
    BY <2>4, DecideAnswers, BranchAnswers, ResolveAnswers DEF Settle
  <2>5. CASE Watch(p)
    BY <2>5, SweepAnswers, MarkAnswers, ResolveAnswers DEF Watch
  <2>6. QED
    BY <2>1, <2>2, <2>3, <2>4, <2>5 DEF Step
<1>2. CASE (\E t \in Task : Requeue(t) \/ LoseVideo(t)) \/ UNCHANGED vars
  BY <1>2, RestAnswers DEF LoseVideo, Happens
<1>3. CASE Api
  BY <1>3, BranchAnswers, RestAnswers DEF Api
<1>4. QED
  BY <1>1, <1>2, <1>3 DEF Next

LEMMA InitAnswers == Init => AnswerInv /\ Request!Init
<1> SUFFICES ASSUME Init PROVE AnswerInv /\ Request!Init
  OBVIOUS
<1>1. \A t \in Task : /\ ~ row[t].best /\ row[t].delivery = "pending"
                      /\ row[t].status = IF t = Root THEN "queued" ELSE "absent"
                      /\ kind[t] = "root"
  BY DEF Init, BlankRow
<1>2. AnswerInv
  BY <1>1 DEF Init, AnswerInv, RowsBacked, WorkBacked, BackedWork, Backed
<1>3. Request!Init
  <2>1. Lineage = {Root}
    BY <1>1, TaskFacts DEF Lineage
  <2>2. {t \in Task : kind[t] = "challenger"} = {} /\ {t \in Task : row[t].best} = {}
    BY <1>1
  <2>3. video = {} /\ row[Root].delivery # "delivered"
    BY <1>1, TaskFacts DEF Init
  <2>4. QED
    BY <2>1, <2>2, <2>3 DEF Request!Init
<1>4. QED
  BY <1>2, <1>3

LEMMA AnswerInvariant ==
  ASSUME "loss" \notin Events
  PROVE  Spec => [](DeliveryInv /\ BranchInv /\ RealInv /\ AnswerInv)
<1>1. DeliveryInv /\ RealInv /\ [Next]_vars => RealInv'
  BY StepReal
<1>2. DeliveryInv /\ BranchInv /\ RealInv /\ AnswerInv /\ [Next]_vars => AnswerInv'
  BY StepAnswers DEF Answers
<1>3. QED
  BY InitReal, InitAnswers, DeliveryInvariant, BudgetInvariant, <1>1, <1>2, PTL DEF Spec

\* Where no video is lost, the delivery implements what RequestDelivery promises,
\* whatever the engines, watchdogs, requests and crashes do in between: the root
\* answers with a finished version, a challenger answers only by an acceptance,
\* which takes the mark from every other version, and a stale copy that is
\* written back gives at most the root its own answer again.
THEOREM DeliveryImplementsRequest ==
  ASSUME "loss" \notin Events PROVE Spec => RequestSpec
<1>1. Init => Request!Init
  BY InitAnswers
<1>2. DeliveryInv /\ BranchInv /\ RealInv /\ AnswerInv /\ [Next]_vars
        => [Request!Next]_Seen
  BY StepAnswers DEF Answers
<1>3. Spec => [](DeliveryInv /\ BranchInv /\ RealInv /\ AnswerInv)
  BY AnswerInvariant
<1>4. QED
  BY <1>1, <1>2, <1>3, PTL
  DEF Spec, RequestSpec, Request!Spec, Request!vars, Seen, Rivals, Chosen, Answer

\* What the answer of the request is backed by, from the abstract specification
\* alone: no step of it makes an answer up, and the root loses the mark it answers
\* by only where its answer is given anew or taken back.
LEMMA RequestBacksAnswer == Request!Spec => []Request!AnswerIsBacked
<1>1. Request!Init => Request!AnswerIsBacked
  BY DEF Request!Init, Request!AnswerIsBacked
<1>2. Request!AnswerIsBacked /\ [Request!Next]_Seen => Request!AnswerIsBacked'
  <2> SUFFICES ASSUME Request!AnswerIsBacked, [Request!Next]_Seen
               PROVE  Request!AnswerIsBacked'
    OBVIOUS
  <2>1. Answer # None => Answer \in video \/ (Answer = Root /\ Root \in Chosen)
    BY DEF Request!AnswerIsBacked, Answer, Chosen
  <2>2. Answer' # None => Answer' \in video' \/ (Answer' = Root /\ Root \in Chosen')
    <3>1. CASE UNCHANGED Seen
      BY <2>1, <3>1 DEF Seen
    <3>2. ASSUME NEW v \in Task, Request!Write(v)
          PROVE  Answer' # None => Answer' \in video' \/ (Answer' = Root /\ Root \in Chosen')
      <4>1. /\ video \subseteq video'
            /\ Root \in Chosen /\ v # Root => Root \in Chosen'
            /\ \/ v # Root /\ Answer' = Answer
               \/ v = Root /\ Answer' = None
               \/ v = Root /\ v \in video' \cup Chosen' /\ Answer' = v
        BY <3>2 DEF Request!Write, Answer, Chosen
      <4>2. QED
        BY <2>1, <4>1
    <3>3. ASSUME NEW v \in Task,
                 Request!Branch(v) \/ Request!Resolve(v) \/ Request!Choose(v)
                   \/ Request!Withdraw
          PROVE  Answer' # None => Answer' \in video' \/ (Answer' = Root /\ Root \in Chosen')
      <4>1. \/ Answer' = Answer /\ UNCHANGED <<video, Chosen>>
            \/ Answer' = None
            \/ Answer' = v /\ v \in video /\ UNCHANGED video
            \/ Answer' = v /\ v = Root /\ v \in Chosen'
        BY <3>3 DEF Request!Branch, Request!Resolve, Request!Choose, Request!Withdraw,
                    Request!Eligible, Answer, Chosen
      <4>2. QED
        BY <2>1, <4>1
    <3>4. QED
      BY <3>1, <3>2, <3>3, TaskFacts DEF Request!Next
  <2>3. QED
    BY <2>2 DEF Request!AnswerIsBacked, Answer, Chosen
<1>3. QED
  BY <1>1, <1>2, PTL DEF Request!Spec, Request!vars, Seen, Rivals, Chosen, Answer

\* Where no video is lost, a delivered root names a task that has a video, or
\* itself, accepted for what a task below it has finished.
THEOREM AnswerStaysBacked ==
  ASSUME "loss" \notin Events PROVE Spec => []Request!AnswerIsBacked
BY DeliveryImplementsRequest, RequestBacksAnswer, PTL DEF RequestSpec
=============================================================================
