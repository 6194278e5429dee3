-------------------------- MODULE BranchArbitration --------------------------
(***************************************************************************)
(* How easy-manim chooses among the versions of one request, and how the   *)
(* delivery case, the record the agents and the review bundle read, follows *)
(* the choice.                                                             *)
(*                                                                         *)
(* The choice is a judgement over the whole lineage: the accepted version  *)
(* with the best score, the incumbent on a tie, then the oldest.  It is    *)
(* made by the worker that completed a challenger and by the watchdog of   *)
(* every process, and between the judgement and the acceptance that acts   *)
(* on it other processes go on.  The case is brought up to date by reading *)
(* the root, then the lineage, then writing the record, each in its own    *)
(* transaction: a slow process may write an old record over a newer one.   *)
(*                                                                         *)
(* TaskDelivery models how the versions come about; here a run is the one  *)
(* step that writes its outcome.                                           *)
(***************************************************************************)
EXTENDS Naturals, FiniteSets

CONSTANTS
  Proc,       \* processes: workers, watchdogs and request handlers
  MaxTasks,   \* bound on the tasks of the lineage
  MaxScore,   \* scores are 0..MaxScore; 0 is one below the quality gate, or none
  MaxEvents   \* bound on the acceptances by hand and the crashes

ASSUME BoundAssumption ==
  MaxTasks \in Nat \ {0} /\ MaxScore \in Nat /\ MaxEvents \in Nat

Task == 1 .. MaxTasks
Root == 1
None == 0

VARIABLES
  row,        \* the versions, in the order of created_at
  selected,   \* resolved_task_id of the root
  delivery,   \* delivery_status of the root
  case,       \* the delivery case
  pc,         \* where each process is
  role,       \* engine or watchdog, while it may still judge
  job,        \* the challenger it judges
  seen,       \* the case it is about to write, or has read
  events      \* acceptances by hand and crashes so far

root == <<selected, delivery>>
vars == <<row, root, case, pc, role, job, seen, events>>

-----------------------------------------------------------------------------
(* Versions *)

Row == [status : {"absent", "active", "completed", "failed"},
        challenger : BOOLEAN, accepted : BOOLEAN, score : 0..MaxScore]

NoRow == [status |-> "absent", challenger |-> FALSE, accepted |-> FALSE, score |-> 0]

Lineage == {t \in Task : row[t].status # "absent"}
Leaf    == Cardinality(Lineage)

\* _is_delivered_candidate
Candidate(t) ==
  row[t].status = "completed" /\ (t = Root => delivery = "delivered")

Accepted == {t \in Lineage : Candidate(t) /\ row[t].accepted}

CaseStatus == {"failed", "arbitrating", "branching", "completed", "repairing", "open"}

Case == [selected : Task \cup {None}, delivery : {"pending", "delivered", "failed"},
         active : Task, status : CaseStatus]

NewCase == [selected |-> None, delivery |-> "pending", active |-> Root,
            status |-> "open"]

-----------------------------------------------------------------------------
(* The judgement: build_arbitration_summary *)

BeforeByRecency(t, u, incumbent) ==
  \/ row[t].score > row[u].score
  \/ row[t].score = row[u].score /\ t > u

\* _select_best_candidate: by score, the incumbent first, then by age.
Before(t, u, incumbent) ==
  \/ row[t].score > row[u].score
  \/ row[t].score = row[u].score /\ t = incumbent
  \/ row[t].score = row[u].score /\ u # incumbent /\ t < u

IsBest(t, S, incumbent) ==
  t \in S /\ \A u \in S \ {t} : Before(t, u, incumbent)

\* The incumbent in a view of the case; an unselected case has its root.
SelectedOf(view) == IF view.selected = None THEN Root ELSE view.selected

\* recommended_action is promote_challenger, for task t.
Recommended(t, incumbent) == IsBest(t, Accepted, incumbent) /\ t # incumbent

-----------------------------------------------------------------------------
(* The case: sync_case_for_root *)

StatusOf(view, t) ==
  CASE view.delivery = "failed" -> "failed"
    [] view.delivery = "delivered" ->
         IF t = SelectedOf(view) THEN "completed"
         ELSE IF row[t].challenger /\ Candidate(t) /\ row[t].accepted THEN "arbitrating"
         ELSE IF row[t].status = "active" THEN "branching" ELSE "completed"
    [] OTHER -> IF t # Root /\ row[t].status = "active" THEN "repairing" ELSE "open"

\* The case as it would be written now.
CurrentCase ==
  LET view == [selected |-> selected, delivery |-> delivery] IN
  [selected |-> selected, delivery |-> delivery,
   active |-> Leaf, status |-> StatusOf(view, Leaf)]

-----------------------------------------------------------------------------
Init ==
  /\ row = [t \in Task |-> IF t = Root THEN [NoRow EXCEPT !.status = "active"]
                                       ELSE NoRow]
  /\ selected = None
  /\ delivery = "pending"
  /\ case = NewCase
  /\ pc = [p \in Proc |-> "idle"]
  /\ role = [p \in Proc |-> "none"]
  /\ job = [p \in Proc |-> None]
  /\ seen = [p \in Proc |-> NewCase]
  /\ events = 0

-----------------------------------------------------------------------------
(* The steps.  A faulty variant stands before the definition it varies.      *)

Goto(p, place) == pc' = [pc EXCEPT ![p] = place]

DropJob(p) == job' = [job EXCEPT ![p] = None] /\ UNCHANGED role

\* Process p has nothing left to judge.
Drop(p) ==
  /\ role' = [role EXCEPT ![p] = "none"]
  /\ job' = [job EXCEPT ![p] = None]

\* A run ends with a delivered version, accepted if its score reaches the gate.
Deliver(p, t) ==
  /\ pc[p] = "idle" /\ row[t].status = "active"
  /\ \E s \in 0..MaxScore :
       row' = [row EXCEPT ![t].status = "completed", ![t].accepted = s > 0, ![t].score = s]
  /\ role' = [role EXCEPT ![p] = "engine"]
  /\ job' = [job EXCEPT ![p] = t]
  /\ Goto(p, "resolve")
  /\ UNCHANGED <<root, case, seen, events>>

\* A run fails and nothing can replace it.
Fail(p, t) ==
  /\ pc[p] = "idle" /\ row[t].status = "active"
  /\ row' = [row EXCEPT ![t].status = "failed"]
  /\ delivery' = "failed"
  /\ Goto(p, "read_root")
  /\ UNCHANGED <<selected, case, role, job, seen, events>>

\* A child: a challenger beside a delivered version, else a repair or revision.
\* It starts with the quality_gate_status of its parent.
Branch(p, base) ==
  /\ pc[p] = "idle"
  /\ row[base].status # "absent" /\ Leaf < MaxTasks
  /\ row' = [row EXCEPT ![Leaf + 1] =
       [status |-> "active", challenger |-> Candidate(base),
        accepted |-> row[base].accepted, score |-> 0]]
  /\ Goto(p, "read_root")
  /\ UNCHANGED <<root, case, role, job, seen, events>>

\* _sync_root_delivery_resolution
Resolve(p) ==
  /\ pc[p] = "resolve"
  /\ IF row[job[p]].challenger THEN UNCHANGED <<row, root>>
     ELSE /\ selected' = job[p]
          /\ delivery' = "delivered"
          /\ row' = [row EXCEPT ![Root].status = "completed"]
  /\ Goto(p, "read_root")
  /\ UNCHANGED <<case, role, job, seen, events>>

ReadRootOfCase(p) ==
  /\ pc[p] = "read_root"
  /\ seen' = [seen EXCEPT ![p].selected = case.selected, ![p].delivery = delivery]
  /\ Goto(p, "read_lineage")
  /\ UNCHANGED <<row, root, case, role, job, events>>

ReadRoot(p) ==
  /\ pc[p] = "read_root"
  /\ seen' = [seen EXCEPT ![p].selected = selected, ![p].delivery = delivery]
  /\ Goto(p, "read_lineage")
  /\ UNCHANGED <<row, root, case, role, job, events>>

ReadLineage(p) ==
  /\ pc[p] = "read_lineage"
  /\ seen' = [seen EXCEPT ![p].active = Leaf, ![p].status = StatusOf(seen[p], Leaf)]
  /\ Goto(p, "write_case")
  /\ UNCHANGED <<row, root, case, role, job, events>>

\* upsert_delivery_case.  The engine goes on to judge the challenger it has
\* completed, if the version is accepted; the watchdog looks for one.
WriteCase(p) ==
  /\ pc[p] = "write_case"
  /\ case' = seen[p]
  /\ seen' = [seen EXCEPT ![p] = NewCase]
  /\ \/ role[p] = "watchdog" /\ Goto(p, "look") /\ UNCHANGED <<role, job>>
     \/ /\ role[p] = "engine" /\ row[job[p]].challenger /\ row[job[p]].accepted
        /\ Goto(p, "judge") /\ UNCHANGED <<role, job>>
     \/ /\ \/ role[p] = "none"
           \/ role[p] = "engine" /\ ~ (row[job[p]].challenger /\ row[job[p]].accepted)
        /\ Goto(p, "idle") /\ Drop(p)
  /\ UNCHANGED <<row, root, events>>

Sweep(p) ==
  /\ pc[p] = "idle"
  /\ role' = [role EXCEPT ![p] = "watchdog"]
  /\ Goto(p, "read_root")
  /\ UNCHANGED <<row, root, case, job, seen, events>>

OpenVersion == Leaf # Root /\ Candidate(Leaf) /\ selected # Leaf

\* _reconcile_completed_challenger: a delivered challenger at the end of the
\* lineage that is not the resolution.
OpenChallenger ==
  /\ Leaf # Root /\ row[Leaf].challenger /\ Candidate(Leaf) /\ selected # Leaf

LookWhileBranching(p) ==
  /\ pc[p] = "look"
  /\ IF OpenChallenger /\ row[Leaf].accepted /\ case.status = "branching"
     THEN /\ job' = [job EXCEPT ![p] = Leaf]
          /\ Goto(p, "judge")
          /\ UNCHANGED role
     ELSE Goto(p, "idle") /\ Drop(p)
  /\ UNCHANGED <<row, root, case, seen, events>>

Look(p) ==
  /\ pc[p] = "look"
  /\ IF OpenChallenger /\ row[Leaf].accepted
     THEN /\ job' = [job EXCEPT ![p] = Leaf]
          /\ Goto(p, "judge")
          /\ UNCHANGED role
     ELSE Goto(p, "idle") /\ Drop(p)
  /\ UNCHANGED <<row, root, case, seen, events>>

\* maybe_auto_promote_challenger takes the incumbent from the case ...
ReadCase(p) ==
  /\ pc[p] = "judge"
  /\ seen' = [seen EXCEPT ![p].selected = case.selected]
  /\ Goto(p, "compare")
  /\ UNCHANGED <<row, root, case, role, job, events>>

\* ... and compares the rows, up to its call of accept_best_version.  The
\* watchdog that keeps the incumbent brings the case up to date once more.
Judge(p) ==
  /\ pc[p] = "compare"
  /\ IF Recommended(job[p], SelectedOf(seen[p]))
     THEN Goto(p, "promote") /\ UNCHANGED <<role, job>>
     ELSE Goto(p, IF role[p] = "engine" THEN "idle" ELSE "read_root") /\ Drop(p)
  /\ seen' = [seen EXCEPT ![p] = NewCase]
  /\ UNCHANGED <<row, root, case, events>>

\* accept_task_as_best
Accept(t) ==
  /\ selected' = t
  /\ delivery' = "delivered"
  /\ row' = [row EXCEPT ![Root].status = "completed"]

Promote(p) ==
  /\ pc[p] = "promote"
  /\ Accept(job[p])
  /\ Goto(p, "read_root")
  /\ Drop(p)
  /\ UNCHANGED <<case, seen, events>>

Happens == events < MaxEvents /\ events' = events + 1

AcceptRequest(p, t) ==
  /\ Happens
  /\ pc[p] = "idle" /\ row[t].status = "completed"
  /\ Accept(t)
  /\ Goto(p, "read_root")
  /\ UNCHANGED <<case, role, job, seen>>

Crash(p) ==
  /\ Happens
  /\ pc[p] # "idle"
  /\ Goto(p, "idle")
  /\ Drop(p)
  /\ seen' = [seen EXCEPT ![p] = NewCase]
  /\ UNCHANGED <<row, root, case>>

-----------------------------------------------------------------------------
Sync(p) == ReadRoot(p) \/ ReadLineage(p) \/ WriteCase(p)

Step(p) == Resolve(p) \/ Sync(p) \/ Sweep(p) \/ Look(p) \/ ReadCase(p)
           \/ Judge(p) \/ Promote(p)

Next ==
  \E p \in Proc :
    \/ Step(p) \/ Crash(p)
    \/ \E t \in Task : \/ Deliver(p, t) \/ Fail(p, t)
                       \/ Branch(p, t) \/ AcceptRequest(p, t)

Spec == Init /\ [][Next]_vars

\* What a process has begun it goes on with, and every process sweeps again and
\* again.  New versions, outcomes and requests are not forced.
FairSpec == Spec /\ \A p \in Proc : WF_vars(Step(p))

-----------------------------------------------------------------------------
(* Properties *)

Places == {"idle", "resolve", "read_root", "read_lineage", "write_case", "look",
           "judge", "compare", "promote"}

\* Every variable keeps to its set, and a process that is about to resolve or to
\* promote a version has one.
TypeOK ==
  /\ row \in [Task -> Row]
  /\ selected \in Task \cup {None}
  /\ delivery \in {"pending", "delivered", "failed"}
  /\ case \in Case
  /\ pc \in [Proc -> Places]
  /\ role \in [Proc -> {"none", "engine", "watchdog"}]
  /\ job \in [Proc -> Task \cup {None}]
  /\ seen \in [Proc -> Case]
  /\ events \in 0..MaxEvents
  /\ \A p \in Proc : pc[p] \in {"resolve", "judge", "compare", "promote"} => job[p] \in Task
  /\ \A p \in Proc : role[p] = "engine" => job[p] \in Task

\* What is promoted automatically is, whatever has happened since the
\* judgement, a delivered and accepted challenger.
PromotionEvidence ==
  \A p \in Proc : pc[p] = "promote" =>
    row[job[p]].challenger /\ row[job[p]].accepted /\ Candidate(job[p])

\* The judgement prefers a challenger to an accepted incumbent only for a
\* better score.
TieKeepsIncumbent ==
  [][\A p \in Proc :
       pc[p] = "compare" /\ pc'[p] = "promote" /\ SelectedOf(seen[p]) \in Accepted
       => row[job[p]].score > row[SelectedOf(seen[p])].score]_vars

\* The delivery case does not stay behind the rows, however its writers
\* overtake each other: once versions and choices stop changing it is as if
\* written now.
CaseCatchesUp == <>[](case = CurrentCase)

\* An accepted challenger at the end of the lineage that has the best score is
\* not left waiting, though the worker that completed it died.
ChallengerIsSettled ==
  <>[](OpenChallenger /\ row[Leaf].accepted => ~ Recommended(Leaf, SelectedOf(case)))

\* "while preserving incumbent selection in all other cases": an automatic
\* promotion does not replace an accepted version by a worse one.
PromotionKeepsBetter ==
  [][\A p \in Proc :
       pc[p] = "promote" /\ pc'[p] = "read_root" /\ selected \in Accepted
       => row[job[p]].score >= row[selected].score]_vars
=============================================================================
