--------------------------- MODULE StrategyPromotion ---------------------------
(***************************************************************************)
(* The promotion of prompt strategies (run_strategy_challenger of          *)
(* application/eval_service.py, sqlite_strategy_store.py): evaluators judge*)
(* a strategy against the baseline, record the verdict, and activate it    *)
(* after enough verdicts in its favour or roll it back when it regresses.  *)
(* Each reads rows that it later writes back whole.                        *)
(***************************************************************************)
EXTENDS EvaluationSuite

CONSTANTS
    Strategies,     \* the ids, numbered in the order of creation
    ClusterOf,      \* ClusterOf[s]: scope and prompt cluster of s
    FirstStatus,    \* FirstStatus[s]: status it is created with
    Evaluators,
    MinPasses,      \* strategy_promotion_guarded_auto_apply_min_shadow_passes
    MaxEvaluations  \* bound: evaluations in a behaviour

Clusters == {ClusterOf[s] : s \in Strategies}

ASSUME StrategyAssumption ==
    /\ Strategies \subseteq Nat \ {0}
    /\ FirstStatus \in [Strategies -> {"active", "candidate"}]
    /\ \A s, t \in Strategies :
          FirstStatus[s] = "active" /\ FirstStatus[t] = "active" /\ ClusterOf[s] = ClusterOf[t]
             => s = t
    /\ MinPasses \in Nat \ {0}
    /\ MaxEvaluations \in Nat

VARIABLES
    profile,        \* strategy_profiles
    evaluator,      \* the step of each evaluator and the rows it has read
    evaluations,
    overlapped      \* clusters in which two evaluations have been under way at once

strategyVars == <<profile, evaluator, evaluations, overlapped>>

NoStrategy == 0
ProfileRow == [status : {"candidate", "active", "superseded", "rolled_back"},
               target : Strategies \cup {NoStrategy}, armed : BOOLEAN, passes : Nat]
Steps == {"idle", "read", "record", "target", "previous", "activate",
          "regressed", "restored", "rollback"}
NewRow(status) == [status |-> status, target |-> NoStrategy, armed |-> FALSE, passes |-> 0]
Idle == [step |-> "idle", id |-> NoStrategy, approved |-> FALSE, mode |-> "shadow",
         row |-> NewRow("candidate"), other |-> NoStrategy, otherRow |-> NewRow("candidate")]

StrategyTypeOK ==
    /\ profile \in [Strategies -> ProfileRow]
    /\ \A e \in Evaluators :
          /\ evaluator[e].step \in Steps
          /\ evaluator[e].id \in Strategies \cup {NoStrategy}
          /\ evaluator[e].row \in ProfileRow
          /\ evaluator[e].otherRow \in ProfileRow
    /\ evaluations \in 0 .. MaxEvaluations
    /\ overlapped \subseteq Clusters

StrategyInit ==
    /\ profile = [s \in Strategies |-> NewRow(FirstStatus[s])]
    /\ evaluator = [e \in Evaluators |-> Idle]
    /\ evaluations = 0
    /\ overlapped = {}

-----------------------------------------------------------------------------
(* Queries.                                                                *)

Active(c) == {s \in Strategies : ClusterOf[s] = c /\ profile[s].status = "active"}

\* get_active_strategy_profile: the oldest active profile of the cluster.
GetActive(c, except) ==
    LET found == Active(c) \ {except}
    IN IF found = {} THEN NoStrategy ELSE CHOOSE s \in found : \A t \in found : s <= t

NextPasses(row, approved) == IF approved THEN row.passes + 1 ELSE 0

\* What run_strategy_challenger decides from the row it read.
Mode(row, approved) ==
    CASE approved /\ row.status # "active" /\ NextPasses(row, approved) >= MinPasses -> "apply"
      [] ~approved /\ row.status = "active" /\ row.armed /\ row.target # NoStrategy -> "rollback"
      [] OTHER -> "shadow"

-----------------------------------------------------------------------------
(* Actions.                                                                *)

Busy(c) == {e \in Evaluators : evaluator[e].id # NoStrategy /\ ClusterOf[evaluator[e].id] = c}

Go(e, step) == [evaluator EXCEPT ![e].step = step]

\* Both suites have been run, the row is read and the decision made.
Decide(e, s, approved) ==
    /\ evaluator[e].step = "idle"
    /\ evaluations < MaxEvaluations
    /\ evaluations' = evaluations + 1
    /\ evaluator' = [evaluator EXCEPT ![e] =
         [Idle EXCEPT !.step = "read", !.id = s, !.approved = approved,
                      !.mode = Mode(profile[s], approved)]]
    /\ overlapped' = overlapped \cup (IF Busy(ClusterOf[s]) = {} THEN {} ELSE {ClusterOf[s]})
    /\ UNCHANGED profile

\* record_strategy_eval_run reads the row again ...
ReadRecord(e) ==
    /\ evaluator[e].step = "read"
    /\ evaluator' = [evaluator EXCEPT ![e].row = profile[evaluator[e].id], ![e].step = "record"]
    /\ UNCHANGED <<profile, evaluations, overlapped>>

\* ... and writes it back with the verdict counted.
Record(e) ==
    LET self == evaluator[e]
    IN /\ self.step = "record"
       /\ profile' = [profile EXCEPT ![self.id] =
             [self.row EXCEPT !.passes = NextPasses(self.row, self.approved)]]
       /\ evaluator' = CASE self.mode = "apply" -> Go(e, "target")
                         [] self.mode = "rollback" -> Go(e, "regressed")
                         [] OTHER -> [evaluator EXCEPT ![e] = Idle]
       /\ UNCHANGED <<evaluations, overlapped>>

\* activate_strategy_profile: the target, then the profile it replaces.
ReadTarget(e) ==
    /\ evaluator[e].step = "target"
    /\ evaluator' = [evaluator EXCEPT ![e].row = profile[evaluator[e].id], ![e].step = "previous"]
    /\ UNCHANGED <<profile, evaluations, overlapped>>

ReadPrevious(e) ==
    LET other == GetActive(ClusterOf[evaluator[e].id], evaluator[e].id)
    IN /\ evaluator[e].step = "previous"
       /\ evaluator' = [evaluator EXCEPT
             ![e].other = other,
             ![e].otherRow = IF other = NoStrategy THEN @ ELSE profile[other],
             ![e].step = "activate"]
       /\ UNCHANGED <<profile, evaluations, overlapped>>

Activated(self) ==
    [self.row EXCEPT !.status = "active", !.target = self.other, !.armed = self.other # NoStrategy]

\* The row of the new profile only; the old one stays active.
ActivateBeside(e) ==
    LET self == evaluator[e]
    IN /\ self.step = "activate"
       /\ profile' = [profile EXCEPT ![self.id] = Activated(self)]
       /\ evaluator' = [evaluator EXCEPT ![e] = Idle]
       /\ UNCHANGED <<evaluations, overlapped>>

\* One transaction: the profile replaced and the one activated, both from the rows read.
Activate(e) ==
    LET self == evaluator[e]
    IN /\ self.step = "activate"
       /\ profile' = [s \in Strategies |->
             CASE s = self.id -> Activated(self)
               [] s = self.other -> [self.otherRow EXCEPT !.status = "superseded"]
               [] OTHER -> profile[s]]
       /\ evaluator' = [evaluator EXCEPT ![e] = Idle]
       /\ UNCHANGED <<evaluations, overlapped>>

\* rollback_strategy_profile: the regressed row, which must name a target ...
ReadRegressed(e) ==
    LET row == profile[evaluator[e].id]
    IN /\ evaluator[e].step = "regressed"
       /\ evaluator' = IF row.target = NoStrategy THEN [evaluator EXCEPT ![e] = Idle]
                       ELSE [evaluator EXCEPT ![e].row = row, ![e].other = row.target,
                                              ![e].step = "restored"]
       /\ UNCHANGED <<profile, evaluations, overlapped>>

\* ... then the row of that target ...
ReadRestored(e) ==
    /\ evaluator[e].step = "restored"
    /\ evaluator' = [evaluator EXCEPT ![e].otherRow = profile[evaluator[e].other], ![e].step = "rollback"]
    /\ UNCHANGED <<profile, evaluations, overlapped>>

\* The target is never restored.
RollbackOnly(e) ==
    LET self == evaluator[e]
    IN /\ self.step = "rollback"
       /\ profile' = [profile EXCEPT ![self.id] =
             [self.row EXCEPT !.status = "rolled_back", !.armed = FALSE, !.passes = 0]]
       /\ evaluator' = [evaluator EXCEPT ![e] = Idle]
       /\ UNCHANGED <<evaluations, overlapped>>

\* ... and both are written, whatever has become of the target since it was replaced.
Rollback(e) ==
    LET self == evaluator[e]
    IN /\ self.step = "rollback"
       /\ profile' = [s \in Strategies |->
             CASE s = self.other -> [self.otherRow EXCEPT !.status = "active"]
               [] s = self.id -> [self.row EXCEPT !.status = "rolled_back", !.armed = FALSE,
                                                  !.passes = 0]
               [] OTHER -> profile[s]]
       /\ evaluator' = [evaluator EXCEPT ![e] = Idle]
       /\ UNCHANGED <<evaluations, overlapped>>

\* The process ends between two of its transactions.
LoseEvaluator(e) ==
    /\ evaluator[e].step # "idle"
    /\ evaluator' = [evaluator EXCEPT ![e] = Idle]
    /\ UNCHANGED <<profile, evaluations, overlapped>>

Evaluate(e) ==
    \/ \E s \in Strategies, approved \in Verdicts : Decide(e, s, approved)
    \/ ReadRecord(e) \/ Record(e)
    \/ ReadTarget(e) \/ ReadPrevious(e) \/ Activate(e)
    \/ ReadRegressed(e) \/ ReadRestored(e) \/ Rollback(e)
    \/ LoseEvaluator(e)

StrategyNext == \E e \in Evaluators : Evaluate(e)

StrategySpec == StrategyInit /\ [][StrategyNext]_strategyVars

-----------------------------------------------------------------------------
\* While the evaluations of a cluster do not overlap, at most one of its strategies
\* is active, through promotions, roll-backs, restored targets and dead evaluators
\* and beside the evaluations of other clusters.
OneActiveStrategy ==
    \A s, t \in Strategies :
       /\ ClusterOf[s] = ClusterOf[t] /\ ClusterOf[s] \notin overlapped
       /\ profile[s].status = "active" /\ profile[t].status = "active"
       => s = t

\* A cluster that has an active strategy keeps having one: a roll-back or a stale
\* row never leaves its requests without.
KeepsServing ==
    [][\A c \in Clusters \ overlapped' :
          GetActive(c, NoStrategy) # NoStrategy => GetActive(c, NoStrategy)' # NoStrategy
      ]_strategyVars

=============================================================================
