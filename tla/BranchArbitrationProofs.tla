----------------------- MODULE BranchArbitrationProofs -----------------------
(***************************************************************************)
(* Proofs about the judgement among versions, for lineages and scores of   *)
(* any size and any number of processes.                                   *)
(***************************************************************************)
EXTENDS BranchArbitration, FiniteSetTheorems, WellFoundedInduction, TLAPS

\* Places of a process that has found a challenger to judge.
Judging == {"judge", "compare", "promote"}

\* A process that is about to promote was sure of the evidence when it read the
\* rows.  The evidence lasts because what it is about is final: a completed
\* version is not written again, and a new child takes a place that was empty.
EvidenceInv ==
  /\ TypeOK
  /\ Lineage = 1..Leaf /\ Root \in Lineage
  /\ ~ row[Root].challenger
  /\ \A p \in Proc :
       /\ role[p] = "engine" \/ pc[p] \in Judging
            => row[job[p]].status = "completed"
       /\ pc[p] \in Judging
            => row[job[p]].challenger /\ row[job[p]].accepted

-----------------------------------------------------------------------------
(* Lemmas about the operators *)

LEMMA TaskFacts ==
  Root \in Task /\ None \notin Task /\ Task \subseteq Nat /\ IsFiniteSet(Task)
<1>1. IsFiniteSet(Task)
  BY BoundAssumption, FS_Interval DEF Task
<1>2. QED
  BY <1>1, BoundAssumption DEF Task, Root, None

LEMMA LeafFacts ==
  ASSUME Lineage = 1..Leaf, Root \in Lineage
  PROVE  Leaf \in Nat /\ Leaf \in Lineage /\ Leaf \in Task
<1>1. Lineage \subseteq Task
  BY DEF Lineage
<1>2. Leaf \in Nat
  BY <1>1, TaskFacts, FS_Subset, FS_CardinalityType DEF Leaf
<1>3. Leaf \in Lineage
  BY <1>2 DEF Root
<1>4. QED
  BY <1>1, <1>2, <1>3

\* No two versions are both the best.
LEMMA BestIsUnique ==
  ASSUME row \in [Task -> Row], NEW S \in SUBSET Task, NEW incumbent,
         NEW t, NEW u, IsBest(t, S, incumbent), IsBest(u, S, incumbent)
  PROVE  t = u
<1>1. t \in Task /\ u \in Task /\ row[t].score \in Nat /\ row[u].score \in Nat
  BY BoundAssumption DEF IsBest, Row
<1>2. SUFFICES ASSUME t # u PROVE FALSE
  OBVIOUS
<1>3. Before(t, u, incumbent) /\ Before(u, t, incumbent)
  BY <1>2 DEF IsBest
<1>4. QED
  BY <1>1, <1>2, <1>3, TaskFacts DEF Before

\* A set of numbers has a least one.
LEMMA NaturalOrder ==
  \E R : /\ IsWellFoundedOn(R, Nat)
         /\ \A x, y \in Nat : <<y, x>> \in R <=> y < x
<1> DEFINE R == OpToRel(<, Nat)
<1>1. IsWellFoundedOn(R, Nat)
  BY NatLessThanWellFounded
<1>2. \A x, y \in Nat : <<y, x>> \in R <=> y < x
  BY DEF OpToRel
<1> HIDE DEF R
<1>3. QED
  BY <1>1, <1>2, Zenon

LEMMA LeastNatural ==
  ASSUME NEW N \in SUBSET Nat, N # {}
  PROVE  \E x \in N : \A y \in N : x <= y
<1>1. PICK R : /\ IsWellFoundedOn(R, Nat)
               /\ \A x, y \in Nat : <<y, x>> \in R <=> y < x
  BY NaturalOrder
<1>2. PICK x \in N : \A y \in N : ~ (<<y, x>> \in R)
  BY <1>1, WFMin
<1>3. \A y \in N : ~ (y < x)
  BY <1>1, <1>2
<1>4. QED
  BY <1>3

\* The judgement always has an answer and never two: of any versions exactly one
\* is the best.  First those with the best score; among them the incumbent, if it
\* is one of them, else the oldest.
THEOREM JudgementDecides ==
  ASSUME row \in [Task -> Row], NEW S \in SUBSET Task, S # {}, NEW incumbent
  PROVE  \E t \in S : /\ IsBest(t, S, incumbent)
                      /\ \A u : IsBest(u, S, incumbent) => u = t
<1> DEFINE Deficit(t) == MaxScore - row[t].score
           Top == {t \in S : \A u \in S : row[t].score >= row[u].score}
<1>1. \A t \in S : /\ row[t].score \in 0..MaxScore /\ MaxScore \in Nat
                  /\ Deficit(t) \in Nat
  BY BoundAssumption DEF Row
<1>2. Top # {}
  <2> DEFINE N == {Deficit(t) : t \in S}
  <2>1. N \in SUBSET Nat /\ N # {}
    BY <1>1
  <2>2. PICK d \in N : \A e \in N : d <= e
    <3> HIDE DEF N
    <3>1. QED
      BY <2>1, LeastNatural
  <2>3. PICK t \in S : d = Deficit(t)
    BY <2>2
  <2>4. \A u \in S : Deficit(t) <= Deficit(u)
    BY <2>2, <2>3
  <2>5. QED
    BY <2>4, <1>1
<1>3. \E t \in S : IsBest(t, S, incumbent)
  <2>1. CASE incumbent \in Top
    BY <2>1, <1>1 DEF IsBest, Before
  <2>2. CASE incumbent \notin Top
    <3>1. Top \in SUBSET Nat
      BY TaskFacts
    <3>2. PICK t \in Top : \A u \in Top : t <= u
      <4> HIDE DEF Top
      <4>1. QED
        BY <3>1, <1>2, LeastNatural
    <3>3. ASSUME NEW u \in S \ {t} PROVE Before(t, u, incumbent)
      <4>1. CASE u \in Top
        <5>1. t < u
          BY <4>1, <3>1, <3>2
        <5>2. row[t].score = row[u].score
          BY <4>1, <1>1
        <5>3. QED
          BY <5>1, <5>2, <4>1, <2>2 DEF Before
      <4>2. CASE u \notin Top
        <5>1. row[t].score > row[u].score
          BY <4>2, <1>1
        <5>2. QED
          BY <5>1 DEF Before
      <4>3. QED
        BY <4>1, <4>2
    <3>4. QED
      BY <3>3 DEF IsBest
  <2>3. QED
    BY <2>1, <2>2
<1>4. QED
  BY <1>3, BestIsUnique

\* An accepted incumbent gives way only to a better score.
LEMMA RecommendedIsBetter ==
  ASSUME NEW t, NEW incumbent \in Accepted, Recommended(t, incumbent)
  PROVE  row[t].score > row[incumbent].score
<1>1. Before(t, incumbent, incumbent) /\ t # incumbent
  BY DEF Recommended, IsBest
<1>2. QED
  BY <1>1 DEF Before

LEMMA StatusType ==
  ASSUME NEW view, NEW t PROVE StatusOf(view, t) \in CaseStatus
BY DEF StatusOf, CaseStatus

LEMMA NewCaseType == NewCase \in Case
BY TaskFacts DEF NewCase, Case, CaseStatus

-----------------------------------------------------------------------------
(* Writes of rows *)

\* Completed versions stay as they are.
Final ==
  \A t \in Task : row[t].status = "completed" =>
    /\ row'[t].status = "completed"
    /\ row'[t].accepted = row[t].accepted
    /\ row'[t].challenger = row[t].challenger

RowsKept ==
  /\ row' \in [Task -> Row]
  /\ (Lineage = 1..Leaf)' /\ (Root \in Lineage)'
  /\ ~ row'[Root].challenger
  /\ Final

LEMMA SameRowsKept == ASSUME EvidenceInv, UNCHANGED row PROVE RowsKept
BY DEF EvidenceInv, TypeOK, RowsKept, Final, Lineage, Leaf

\* A row of the lineage that is not final gets another status and verdict.
LEMMA WriteKept ==
  ASSUME EvidenceInv, NEW t \in Lineage, NEW r \in Row, r.status # "absent",
         r.challenger = row[t].challenger,
         row[t].status = "completed" =>
           r.status = "completed" /\ r.accepted = row[t].accepted,
         row' = [row EXCEPT ![t] = r]
  PROVE  RowsKept
<1> USE DEF EvidenceInv, TypeOK
<1>1. t \in Task /\ Root \in Task
  BY TaskFacts DEF Lineage
<1>2. row' \in [Task -> Row] /\ Final /\ ~ row'[Root].challenger
  BY <1>1 DEF Final
<1>3. Lineage' = Lineage
  BY <1>1 DEF Lineage
<1>4. Leaf' = Leaf
  BY <1>3 DEF Leaf
<1>5. QED
  BY <1>2, <1>3, <1>4 DEF RowsKept

\* The root becomes completed.
LEMMA RootKept ==
  ASSUME EvidenceInv, row' = [row EXCEPT ![Root].status = "completed"]
  PROVE  RowsKept
<1> DEFINE r == [row[Root] EXCEPT !.status = "completed"]
<1>1. row[Root] \in Row
  BY TaskFacts DEF EvidenceInv, TypeOK
<1>2. /\ r \in Row /\ r.status = "completed"
      /\ r.challenger = row[Root].challenger /\ r.accepted = row[Root].accepted
  BY <1>1 DEF Row
<1>3. row' = [row EXCEPT ![Root] = r]
  OBVIOUS
<1> HIDE DEF r
<1>4. QED
  BY <1>2, <1>3, WriteKept DEF EvidenceInv

\* A child is added.
LEMMA InsertKept ==
  ASSUME EvidenceInv, NEW r \in Row, r.status = "active", Leaf < MaxTasks,
         row' = [row EXCEPT ![Leaf + 1] = r]
  PROVE  RowsKept
<1> USE DEF EvidenceInv, TypeOK
<1> DEFINE child == Leaf + 1
<1>1. Leaf \in Nat /\ child \in Task /\ child \notin Lineage /\ child # Root
  BY LeafFacts, BoundAssumption DEF Task, Root
<1>2. /\ row' \in [Task -> Row] /\ row'[Root] = row[Root]
      /\ \A t \in Task : row'[t] = IF t = child THEN r ELSE row[t]
  BY <1>1, TaskFacts
<1>3. Lineage' = Lineage \cup {child}
  BY <1>1, <1>2 DEF Lineage
<1>4. Leaf' = Leaf + 1
  <2>1. IsFiniteSet(Lineage)
    BY TaskFacts, FS_Subset DEF Lineage
  <2>2. QED
    BY <2>1, <1>1, <1>3, FS_AddElement DEF Leaf
<1>5. Lineage' = 1..Leaf'
  BY <1>1, <1>3, <1>4
<1>6. Final
  BY <1>1, <1>2 DEF Final, Lineage
<1>7. QED
  BY <1>2, <1>3, <1>5, <1>6 DEF RowsKept

-----------------------------------------------------------------------------
(* Moves of a process *)

RecordsTyped ==
  /\ selected' \in Task \cup {None}
  /\ delivery' \in {"pending", "delivered", "failed"}
  /\ case' \in Case
  /\ seen' \in [Proc -> Case]
  /\ events' \in 0..MaxEvents

\* The process comes to a place with a role and a job for which there is the
\* evidence that the place asks for.
LEMMA MoveKept ==
  ASSUME EvidenceInv, RowsKept, RecordsTyped,
         NEW p \in Proc, NEW place \in Places,
         NEW r \in {"none", "engine", "watchdog"}, NEW j \in Task \cup {None},
         pc' = [pc EXCEPT ![p] = place],
         role' = [role EXCEPT ![p] = r],
         job' = [job EXCEPT ![p] = j],
         r = "engine" \/ place \in {"resolve"} \cup Judging => j \in Task,
         r = "engine" \/ place \in Judging
           => row'[j].status = "completed",
         place \in Judging => row'[j].challenger /\ row'[j].accepted
  PROVE  EvidenceInv'
<1> USE DEF EvidenceInv, TypeOK
<1>1. TypeOK'
  BY DEF RowsKept, RecordsTyped, Judging
<1>2. ASSUME NEW q \in Proc
      PROVE  /\ role'[q] = "engine" \/ pc'[q] \in Judging
                  => row'[job'[q]].status = "completed"
             /\ pc'[q] \in Judging
                  => row'[job'[q]].challenger /\ row'[job'[q]].accepted
  <2>1. CASE q = p
    BY <2>1
  <2>2. CASE q # p
    BY <2>2 DEF RowsKept, Final, Judging
  <2>3. QED
    BY <2>1, <2>2
<1>3. QED
  BY <1>1, <1>2 DEF RowsKept

\* The case record of the process and the rest stay as they are.
LEMMA SameRecords ==
  ASSUME EvidenceInv, UNCHANGED <<root, case, seen, events>> PROVE RecordsTyped
BY DEF EvidenceInv, TypeOK, root, RecordsTyped

LEMMA DeliverKeeps ==
  ASSUME EvidenceInv, NEW p \in Proc, NEW t \in Task, Deliver(p, t)
  PROVE  EvidenceInv'
<1>1. PICK s \in 0..MaxScore :
        row' = [row EXCEPT ![t].status = "completed", ![t].accepted = s > 0,
                           ![t].score = s]
  BY DEF Deliver
<1> DEFINE good == s > 0
           r == [row[t] EXCEPT !.status = "completed", !.accepted = good, !.score = s]
<1>2. row[t] \in Row /\ row[t].status = "active" /\ t \in Lineage
  BY DEF EvidenceInv, TypeOK, Deliver, Lineage
<1>3. r \in Row /\ r.status = "completed" /\ r.challenger = row[t].challenger
  <2>1. good \in BOOLEAN
    OBVIOUS
  <2> HIDE DEF good
  <2>2. QED
    BY <1>2, <2>1 DEF Row
<1>4. row' = [row EXCEPT ![t] = r]
  BY <1>1, <1>2 DEF EvidenceInv, TypeOK
<1> HIDE DEF r
<1>5. RowsKept
  BY <1>2, <1>3, <1>4, WriteKept
<1>6. row'[t].status = "completed"
  BY <1>3, <1>4 DEF EvidenceInv, TypeOK
<1>7. RecordsTyped
  BY SameRecords DEF Deliver
<1>8. /\ role' = [role EXCEPT ![p] = "engine"] /\ job' = [job EXCEPT ![p] = t]
      /\ pc' = [pc EXCEPT ![p] = "resolve"]
  BY DEF Deliver, Goto
<1>9. QED
  BY <1>5, <1>6, <1>7, <1>8, MoveKept DEF Places, Judging

\* A step after which the process has the same role and job, at a place that
\* asks for no evidence.
LEMMA CarryOn ==
  ASSUME EvidenceInv, RowsKept, RecordsTyped, NEW p \in Proc,
         NEW place \in Places \ ({"resolve"} \cup Judging),
         Goto(p, place), UNCHANGED <<role, job>>
  PROVE  EvidenceInv'
<1>1. /\ role' = [role EXCEPT ![p] = role[p]] /\ role[p] \in {"none", "engine", "watchdog"}
      /\ job' = [job EXCEPT ![p] = job[p]] /\ job[p] \in Task \cup {None}
      /\ pc' = [pc EXCEPT ![p] = place]
  BY DEF Goto, EvidenceInv, TypeOK
<1>2. role[p] = "engine" => job[p] \in Task /\ row'[job[p]].status = "completed"
  BY DEF RowsKept, Final, EvidenceInv, TypeOK
<1>3. QED
  BY <1>1, <1>2, MoveKept

\* A step after which the process has nothing left to judge.
LEMMA PutDown ==
  ASSUME EvidenceInv, RowsKept, RecordsTyped, NEW p \in Proc,
         NEW place \in {"idle", "read_root"}, Goto(p, place), Drop(p)
  PROVE  EvidenceInv'
BY MoveKept DEF Drop, Goto, Places, Judging

LEMMA FailKeeps ==
  ASSUME EvidenceInv, NEW p \in Proc, NEW t \in Task, Fail(p, t)
  PROVE  EvidenceInv'
<1> DEFINE r == [row[t] EXCEPT !.status = "failed"]
<1>1. row[t] \in Row /\ row[t].status = "active" /\ t \in Lineage
  BY DEF EvidenceInv, TypeOK, Fail, Lineage
<1>2. /\ r \in Row /\ r.status = "failed" /\ r.challenger = row[t].challenger
      /\ row' = [row EXCEPT ![t] = r]
  BY <1>1 DEF Row, Fail
<1> HIDE DEF r
<1>3. RowsKept
  BY <1>1, <1>2, WriteKept
<1>4. RecordsTyped
  BY DEF Fail, RecordsTyped, EvidenceInv, TypeOK
<1>5. QED
  BY <1>3, <1>4, CarryOn DEF Fail, Places, Judging

LEMMA BranchKeeps ==
  ASSUME EvidenceInv, NEW p \in Proc, NEW base \in Task, Branch(p, base)
  PROVE  EvidenceInv'
<1> DEFINE r == [status |-> "active", challenger |-> Candidate(base),
                 accepted |-> row[base].accepted, score |-> 0]
<1>1. row[base] \in Row
  BY DEF EvidenceInv, TypeOK
<1>2. Candidate(base) \in BOOLEAN
  BY DEF Candidate
<1>3. r \in Row /\ r.status = "active"
  BY <1>1, <1>2, BoundAssumption DEF Row
<1>4. row' = [row EXCEPT ![Leaf + 1] = r] /\ Leaf < MaxTasks
  BY DEF Branch
<1> HIDE DEF r
<1>5. RowsKept
  BY <1>3, <1>4, InsertKept
<1>6. RecordsTyped
  BY SameRecords DEF Branch
<1>7. QED
  BY <1>5, <1>6, CarryOn DEF Branch, Places, Judging

LEMMA ResolveKeeps ==
  ASSUME EvidenceInv, NEW p \in Proc, Resolve(p) PROVE EvidenceInv'
<1>1. job[p] \in Task
  BY DEF EvidenceInv, TypeOK, Resolve
<1>2. RowsKept
  BY SameRowsKept, RootKept DEF Resolve
<1>3. RecordsTyped
  BY <1>1 DEF Resolve, RecordsTyped, EvidenceInv, TypeOK, root
<1>4. QED
  BY <1>2, <1>3, CarryOn DEF Resolve, Places, Judging

LEMMA ReadKeeps ==
  ASSUME EvidenceInv, NEW p \in Proc, ReadRoot(p) \/ ReadLineage(p)
  PROVE  EvidenceInv'
<1>1. RowsKept
  BY SameRowsKept DEF ReadRoot, ReadLineage
<1>2. seen[p] \in Case /\ Leaf \in Task
  BY LeafFacts DEF EvidenceInv, TypeOK
<1>3. CASE ReadRoot(p)
  <2>1. [seen[p] EXCEPT !.selected = selected, !.delivery = delivery] \in Case
    BY <1>2 DEF Case, EvidenceInv, TypeOK
  <2>2. RecordsTyped
    BY <1>3, <2>1 DEF ReadRoot, RecordsTyped, EvidenceInv, TypeOK, root
  <2>3. QED
    BY <1>1, <1>3, <2>2, CarryOn DEF ReadRoot, Places, Judging
<1>4. CASE ReadLineage(p)
  <2>1. [seen[p] EXCEPT !.active = Leaf, !.status = StatusOf(seen[p], Leaf)] \in Case
    BY <1>2, StatusType DEF Case
  <2>2. RecordsTyped
    BY <1>4, <2>1 DEF ReadLineage, RecordsTyped, EvidenceInv, TypeOK, root
  <2>3. QED
    BY <1>1, <1>4, <2>2, CarryOn DEF ReadLineage, Places, Judging
<1>5. QED
  BY <1>3, <1>4

\* The process goes on to judge, or from the judgement to the promotion.
LEMMA GoToEvidence ==
  ASSUME EvidenceInv, UNCHANGED row, RecordsTyped, NEW p \in Proc,
         NEW place \in Judging, NEW j \in Task,
         row[j].status = "completed", row[j].challenger, row[j].accepted,
         Goto(p, place), UNCHANGED role, job' = [job EXCEPT ![p] = j]
  PROVE  EvidenceInv'
<1>1. role' = [role EXCEPT ![p] = role[p]] /\ role[p] \in {"none", "engine", "watchdog"}
  BY DEF EvidenceInv, TypeOK
<1>2. RowsKept /\ row' = row
  BY SameRowsKept
<1>3. QED
  BY <1>1, <1>2, MoveKept DEF Goto, Places, Judging

LEMMA WriteCaseKeeps ==
  ASSUME EvidenceInv, NEW p \in Proc, WriteCase(p) PROVE EvidenceInv'
<1>1. RowsKept
  BY SameRowsKept DEF WriteCase
<1>2. RecordsTyped
  BY NewCaseType DEF WriteCase, RecordsTyped, EvidenceInv, TypeOK, root
<1>3. CASE Goto(p, "look") /\ UNCHANGED <<role, job>>
  BY <1>1, <1>2, <1>3, CarryOn DEF Places, Judging
<1>4. CASE /\ role[p] = "engine" /\ row[job[p]].challenger /\ row[job[p]].accepted
           /\ Goto(p, "judge") /\ UNCHANGED <<role, job>>
  <2>1. /\ job[p] \in Task /\ row[job[p]].status = "completed"
        /\ job' = [job EXCEPT ![p] = job[p]]
    BY <1>4 DEF EvidenceInv, TypeOK
  <2>2. QED
    BY <1>2, <1>4, <2>1, GoToEvidence DEF WriteCase, Judging
<1>5. CASE Goto(p, "idle") /\ Drop(p)
  BY <1>1, <1>2, <1>5, PutDown
<1>6. QED
  BY <1>3, <1>4, <1>5 DEF WriteCase

LEMMA LookKeeps ==
  ASSUME EvidenceInv, NEW p \in Proc, Look(p) PROVE EvidenceInv'
<1>1. UNCHANGED row /\ RowsKept /\ RecordsTyped
  BY SameRowsKept, SameRecords DEF Look
<1>2. CASE OpenChallenger /\ row[Leaf].accepted
  BY <1>1, <1>2, LeafFacts, GoToEvidence
  DEF Look, OpenChallenger, Candidate, EvidenceInv, Judging
<1>3. CASE ~ (OpenChallenger /\ row[Leaf].accepted)
  BY <1>1, <1>3, PutDown DEF Look
<1>4. QED
  BY <1>2, <1>3

LEMMA ReadCaseKeeps ==
  ASSUME EvidenceInv, NEW p \in Proc, ReadCase(p) PROVE EvidenceInv'
<1>1. [seen[p] EXCEPT !.selected = case.selected] \in Case
  BY DEF EvidenceInv, TypeOK, Case
<1>2. UNCHANGED row /\ RecordsTyped
  BY <1>1 DEF ReadCase, RecordsTyped, EvidenceInv, TypeOK, root
<1>3. /\ job[p] \in Task /\ row[job[p]].status = "completed"
      /\ row[job[p]].challenger /\ row[job[p]].accepted
      /\ job' = [job EXCEPT ![p] = job[p]]
  BY DEF ReadCase, EvidenceInv, TypeOK, Judging
<1>4. QED
  BY <1>2, <1>3, GoToEvidence DEF ReadCase, Judging

LEMMA JudgeKeeps ==
  ASSUME EvidenceInv, NEW p \in Proc, Judge(p) PROVE EvidenceInv'
<1>1. UNCHANGED row /\ RowsKept /\ RecordsTyped
  BY NewCaseType, SameRowsKept DEF Judge, RecordsTyped, EvidenceInv, TypeOK, root
<1>2. CASE Recommended(job[p], SelectedOf(seen[p]))
  <2>1. /\ job[p] \in Task /\ row[job[p]].status = "completed"
        /\ row[job[p]].challenger /\ row[job[p]].accepted
        /\ Goto(p, "promote") /\ UNCHANGED role
        /\ job' = [job EXCEPT ![p] = job[p]]
    BY <1>2 DEF Judge, EvidenceInv, TypeOK, Judging
  <2>2. QED
    BY <1>1, <2>1, GoToEvidence DEF Judging
<1>3. CASE ~ Recommended(job[p], SelectedOf(seen[p]))
  BY <1>1, <1>3, PutDown DEF Judge
<1>4. QED
  BY <1>2, <1>3

LEMMA AcceptRecords ==
  ASSUME EvidenceInv, NEW t \in Task, Accept(t), UNCHANGED <<case, seen>>,
         events' \in 0..MaxEvents
  PROVE  RowsKept /\ RecordsTyped
BY RootKept DEF Accept, RecordsTyped, EvidenceInv, TypeOK

LEMMA PromoteKeeps ==
  ASSUME EvidenceInv, NEW p \in Proc, Promote(p) PROVE EvidenceInv'
<1>1. job[p] \in Task /\ events' \in 0..MaxEvents
  BY DEF Promote, EvidenceInv, TypeOK
<1>2. QED
  BY <1>1, AcceptRecords, PutDown DEF Promote

LEMMA AcceptRequestKeeps ==
  ASSUME EvidenceInv, NEW p \in Proc, NEW t \in Task, AcceptRequest(p, t)
  PROVE  EvidenceInv'
<1>1. events' \in 0..MaxEvents
  BY BoundAssumption DEF AcceptRequest, Happens, EvidenceInv, TypeOK
<1>2. QED
  BY <1>1, AcceptRecords, CarryOn DEF AcceptRequest, Places, Judging

LEMMA SweepKeeps ==
  ASSUME EvidenceInv, NEW p \in Proc, Sweep(p) PROVE EvidenceInv'
<1>1. RowsKept /\ RecordsTyped
  BY SameRowsKept, SameRecords DEF Sweep
<1>2. /\ job[p] \in Task \cup {None} /\ job' = [job EXCEPT ![p] = job[p]]
      /\ role' = [role EXCEPT ![p] = "watchdog"]
      /\ pc' = [pc EXCEPT ![p] = "read_root"]
  BY DEF Sweep, Goto, EvidenceInv, TypeOK
<1>3. QED
  BY <1>1, <1>2, MoveKept DEF Places, Judging

LEMMA CrashKeeps ==
  ASSUME EvidenceInv, NEW p \in Proc, Crash(p) PROVE EvidenceInv'
<1>1. events' \in 0..MaxEvents
  BY BoundAssumption DEF Crash, Happens, EvidenceInv, TypeOK
<1>2. RowsKept /\ RecordsTyped
  BY <1>1, SameRowsKept, NewCaseType
  DEF Crash, RecordsTyped, EvidenceInv, TypeOK, root
<1>3. QED
  BY <1>2, PutDown DEF Crash

-----------------------------------------------------------------------------
(* The theorems *)

LEMMA InitEvidence == Init => EvidenceInv
<1> SUFFICES ASSUME Init PROVE EvidenceInv
  OBVIOUS
<1> USE TaskFacts
<1>1. NoRow \in Row /\ [NoRow EXCEPT !.status = "active"] \in Row
  <2>1. 0 \in 0..MaxScore
    BY BoundAssumption
  <2>2. QED
    BY <2>1 DEF NoRow, Row
<1>2. row \in [Task -> Row] /\ row[Root] = [NoRow EXCEPT !.status = "active"]
  BY <1>1 DEF Init
<1>3. TypeOK
  BY <1>2, NewCaseType, BoundAssumption DEF Init, TypeOK, Places
<1>4. Lineage = {Root}
  BY DEF Init, Lineage, NoRow
<1>5. Leaf = 1
  BY <1>4, FS_Singleton DEF Leaf
<1>6. 1..1 = {Root}
  BY DEF Root
<1>7. ~ row[Root].challenger
  BY <1>2 DEF NoRow
<1>8. \A p \in Proc : pc[p] = "idle" /\ role[p] = "none"
  BY DEF Init
<1>9. QED
  BY <1>3, <1>4, <1>5, <1>6, <1>7, <1>8 DEF EvidenceInv, Judging

LEMMA EvidenceStep == EvidenceInv /\ [Next]_vars => EvidenceInv'
<1> SUFFICES ASSUME EvidenceInv, [Next]_vars PROVE EvidenceInv'
  OBVIOUS
<1>1. CASE UNCHANGED vars
  <2>1. UNCHANGED <<row, root, case, pc, role, job, seen, events>>
    BY <1>1 DEF vars
  <2>2. RowsKept /\ RecordsTyped
    BY <2>1, SameRowsKept, SameRecords
  <2>3. QED
    BY <2>1, <2>2 DEF EvidenceInv, TypeOK, RowsKept, RecordsTyped
<1>2. CASE Next
  <2>1. PICK p \in Proc :
          \/ Step(p) \/ Crash(p)
          \/ \E t \in Task : \/ Deliver(p, t) \/ Fail(p, t)
                             \/ Branch(p, t) \/ AcceptRequest(p, t)
    BY <1>2 DEF Next
  <2>2. CASE Step(p)
    BY <2>2, ResolveKeeps, ReadKeeps, WriteCaseKeeps, SweepKeeps, LookKeeps,
       ReadCaseKeeps, JudgeKeeps, PromoteKeeps
    DEF Step, Sync
  <2>3. CASE \E t \in Task : \/ Deliver(p, t) \/ Fail(p, t)
                             \/ Branch(p, t) \/ AcceptRequest(p, t)
    BY <2>3, DeliverKeeps, FailKeeps, BranchKeeps, AcceptRequestKeeps
  <2>4. QED
    BY <2>1, <2>2, <2>3, CrashKeeps
<1>3. QED
  BY <1>1, <1>2

LEMMA EvidenceInvariant == Spec => []EvidenceInv
BY InitEvidence, EvidenceStep, PTL DEF Spec

\* Every variable keeps to its set, and whoever resolves or promotes has a job.
THEOREM TypeCorrect == Spec => []TypeOK
<1>1. EvidenceInv => TypeOK
  BY DEF EvidenceInv
<1>2. QED
  BY <1>1, EvidenceInvariant, PTL

\* What an automatic promotion is about to accept is a delivered and accepted
\* challenger, however long ago it was judged and whatever others did since.
THEOREM PromotionHasEvidence == Spec => []PromotionEvidence
<1>1. EvidenceInv => PromotionEvidence
  BY TaskFacts DEF EvidenceInv, TypeOK, PromotionEvidence, Candidate, Judging
<1>2. QED
  BY <1>1, EvidenceInvariant, PTL

\* A judgement replaces an accepted incumbent only for a better score.
THEOREM TieGoesToIncumbent == Spec => TieKeepsIncumbent
<1>1. EvidenceInv /\ [Next]_vars =>
        [\A p \in Proc :
           pc[p] = "compare" /\ pc'[p] = "promote" /\ SelectedOf(seen[p]) \in Accepted
           => row[job[p]].score > row[SelectedOf(seen[p])].score]_vars
  <2> SUFFICES ASSUME EvidenceInv, Next, NEW p \in Proc,
                      pc[p] = "compare", pc'[p] = "promote",
                      SelectedOf(seen[p]) \in Accepted
               PROVE  row[job[p]].score > row[SelectedOf(seen[p])].score
    BY DEF vars
  <2>1. pc \in [Proc -> Places]
    BY DEF EvidenceInv, TypeOK
  <2>2. Judge(p)
    BY <2>1 DEF Next, Step, Sync, Resolve, ReadRoot, ReadLineage, WriteCase, Sweep,
                Look, ReadCase, Judge, Promote, Crash, Deliver, Fail, Branch, AcceptRequest, Goto
  <2>3. Recommended(job[p], SelectedOf(seen[p]))
    BY <2>1, <2>2 DEF Judge, Goto
  <2>4. QED
    BY <2>3, RecommendedIsBetter
<1>2. QED
  BY <1>1, EvidenceInvariant, PTL DEF Spec, TieKeepsIncumbent

-----------------------------------------------------------------------------
(* The promotion that acts on a judgement.  Between the two the rows go on   *)
(* changing; a worse version replaces a better one only if the better one    *)
(* was accepted in between, which is what the run BranchArbitration_race     *)
(* shows.                                                                    *)

\* While a process is about to promote, no version becomes an accepted one.
NothingAccepted ==
  [][\A p \in Proc : pc[p] = "promote" /\ pc'[p] = "promote" => Accepted' \subseteq Accepted]_vars

\* What is about to be promoted is as good as every accepted version.
IsTopScore(t) == \A u \in Accepted : row[t].score >= row[u].score
PromotesTop == \A p \in Proc : pc[p] = "promote" => IsTopScore(job[p])

\* The score of a completed version is not written again.
LEMMA ScoreIsFinal ==
  ASSUME EvidenceInv, [Next]_vars, NEW t \in Task, row[t].status = "completed"
  PROVE  row'[t].score = row[t].score
<1>1. row \in [Task -> Row] /\ Root \in Task /\ Leaf \in Nat /\ Lineage = 1..Leaf
  BY TaskFacts, LeafFacts DEF EvidenceInv, TypeOK
<1>2. CASE UNCHANGED row
  BY <1>2
<1>3. CASE \E u \in Task, s \in 0..MaxScore : row[u].status = "active" /\
             row' = [row EXCEPT ![u].status = "completed", ![u].accepted = s > 0, ![u].score = s]
  BY <1>1, <1>3
<1>4. CASE \E u \in Task : row' = [row EXCEPT ![u].status = "failed"]
  BY <1>1, <1>4
<1>5. CASE row' = [row EXCEPT ![Root].status = "completed"]
  BY <1>1, <1>5
<1>6. ASSUME NEW p \in Proc, NEW base \in Task, Branch(p, base)
      PROVE  row'[t].score = row[t].score
  <2>1. t \in Lineage /\ t # Leaf + 1
    BY <1>1 DEF Lineage
  <2>2. QED
    BY <1>1, <1>6, <2>1 DEF Branch
<1>7. ASSUME NEW p \in Proc, Resolve(p) \/ Promote(p) \/ \E u \in Task : AcceptRequest(p, u)
      PROVE  row'[t].score = row[t].score
  BY <1>2, <1>5, <1>7 DEF Resolve, Promote, Accept, AcceptRequest
<1>8. ASSUME NEW p \in Proc, NEW u \in Task, Deliver(p, u) \/ Fail(p, u)
      PROVE  row'[t].score = row[t].score
  BY <1>3, <1>4, <1>8 DEF Deliver, Fail
<1>9. ASSUME NEW p \in Proc, Sync(p) \/ Sweep(p) \/ Look(p) \/ ReadCase(p) \/ Judge(p) \/ Crash(p)
      PROVE  row'[t].score = row[t].score
  BY <1>2, <1>9 DEF Sync, ReadRoot, ReadLineage, WriteCase, Sweep, Look, ReadCase, Judge, Crash
<1>10. QED
  BY <1>2, <1>6, <1>7, <1>8, <1>9 DEF Next, Step, vars

\* The judgement recommends a version of the best score.
LEMMA RecommendedIsTop ==
  ASSUME row \in [Task -> Row], NEW t, NEW incumbent, Recommended(t, incumbent)
  PROVE  IsTopScore(t)
<1>1. t \in Accepted /\ \A u \in Accepted \ {t} : Before(t, u, incumbent)
  BY DEF Recommended, IsBest
<1>2. \A u \in Accepted : row[u].score \in Nat
  BY BoundAssumption DEF Accepted, Lineage, Row
<1>3. QED
  BY <1>1, <1>2 DEF Before, IsTopScore

LEMMA TopStep ==
  ASSUME EvidenceInv, PromotesTop, [Next]_vars,
         \A p \in Proc : pc[p] = "promote" /\ pc'[p] = "promote" => Accepted' \subseteq Accepted
  PROVE  PromotesTop'
<1> SUFFICES ASSUME NEW p \in Proc, pc'[p] = "promote" PROVE IsTopScore(job[p])'
  BY DEF PromotesTop
<1>1. pc \in [Proc -> Places] /\ job \in [Proc -> Task \cup {None}] /\ row \in [Task -> Row]
  BY DEF EvidenceInv, TypeOK
<1>2. CASE pc[p] = "promote"
  <2>1. job'[p] = job[p]
    BY <1>1, <1>2 DEF Next, Step, Sync, Resolve, ReadRoot, ReadLineage, WriteCase, Sweep, Look, ReadCase,
         Judge, Promote, Crash, Deliver, Fail, Branch, AcceptRequest, Goto, Drop, vars
  <2>2. job[p] \in Task /\ row[job[p]].status = "completed"
    BY <1>2 DEF EvidenceInv, TypeOK, Judging
  <2>3. \A u \in Accepted' : u \in Accepted /\ row'[u].score = row[u].score
    BY <1>2, ScoreIsFinal DEF Accepted, Lineage, Candidate
  <2>4. row'[job[p]].score = row[job[p]].score
    BY <2>2, ScoreIsFinal
  <2>5. QED
    BY <1>2, <2>1, <2>3, <2>4 DEF PromotesTop, IsTopScore
<1>3. CASE pc[p] # "promote"
  <2>1. Judge(p) /\ Recommended(job[p], SelectedOf(seen[p])) /\ UNCHANGED <<row, root, job>>
    BY <1>1, <1>3 DEF Next, Step, Sync, Resolve, ReadRoot, ReadLineage, WriteCase, Sweep, Look, ReadCase,
         Judge, Promote, Crash, Deliver, Fail, Branch, AcceptRequest, Goto, vars
  <2>2. IsTopScore(job[p])
    BY <1>1, <2>1, RecommendedIsTop
  <2>3. QED
    BY <2>1, <2>2 DEF IsTopScore, Accepted, Lineage, Candidate, root
<1>4. QED
  BY <1>2, <1>3

\* An automatic promotion replaces an accepted version by a worse one only if some
\* version was accepted between the judgement and the promotion
\* (maybe_auto_promote_challenger, accept_best_version): otherwise it never does,
\* for any lineages, scores, processes and crashes.
THEOREM UndisturbedPromotionKeepsBetter == Spec /\ NothingAccepted => PromotionKeepsBetter
<1>1. Init => PromotesTop
  BY DEF Init, PromotesTop
<1>2. EvidenceInv /\ PromotesTop /\ [Next]_vars
        /\ [\A p \in Proc : pc[p] = "promote" /\ pc'[p] = "promote" => Accepted' \subseteq Accepted]_vars
        => PromotesTop'
  <2> SUFFICES ASSUME EvidenceInv, PromotesTop, [Next]_vars,
                 [\A p \in Proc : pc[p] = "promote" /\ pc'[p] = "promote" => Accepted' \subseteq Accepted]_vars
               PROVE  PromotesTop'
    OBVIOUS
  <2>1. CASE UNCHANGED vars
    BY <2>1 DEF vars, root, PromotesTop, IsTopScore, Accepted, Lineage, Candidate
  <2>2. CASE \A p \in Proc : pc[p] = "promote" /\ pc'[p] = "promote" => Accepted' \subseteq Accepted
    BY <2>2, TopStep
  <2>3. QED
    BY <2>1, <2>2
<1>3. PromotesTop /\ [Next]_vars =>
        [\A p \in Proc : pc[p] = "promote" /\ pc'[p] = "read_root" /\ selected \in Accepted
                          => row[job[p]].score >= row[selected].score]_vars
  BY DEF PromotesTop, IsTopScore
<1>4. QED
  BY <1>1, <1>2, <1>3, InitEvidence, EvidenceStep, PTL DEF Spec, NothingAccepted, PromotionKeepsBetter
=============================================================================
