----------------------------- MODULE LearningProofs -----------------------------
(***************************************************************************)
(* Proofs about what learns from finished work: the runs of a suite        *)
(* (EvaluationSuite), the promotion of strategies that rests on them       *)
(* (StrategyPromotion) and the suggestions to the profile of an agent      *)
(* (AgentProfiles).                                                        *)
(***************************************************************************)
EXTENDS StrategyPromotion, AgentProfiles, FiniteSetTheorems, WellFoundedInduction,
        NaturalsInduction, TLAPS

-----------------------------------------------------------------------------
(* A run of a suite.  While it runs, the process and the file agree; the     *)
(* attempt of a case only grows, and is counted before its task is created,  *)
(* so that the key of the next task is above every key in use; and what the  *)
(* manifest calls done has a task.                                           *)

CaseEnded == {"completed", "failed"}

SuiteBase ==
  /\ manifest = NoManifest => submitted = {}
  /\ \A k \in submitted : k[2] <= manifest[k[1]].attempt
  /\ manifest # NoManifest => \A c \in Cases :
       /\ manifest[c].status \in CaseEnded => <<c, manifest[c].attempt>> \in submitted
       /\ manifest[c].attempt <= starts

\* The cases before the current one are done, those after it have not yet been
\* begun in this run.
SuiteProgress ==
  runner.step # "none" =>
    /\ memory = manifest /\ manifest \in Manifests
    /\ runner.case \in 1 .. CaseCount + 1
    /\ \A c \in Cases :
         /\ c < runner.case => manifest[c].status \in CaseEnded
         /\ c > runner.case \/ (c = runner.case /\ runner.step = "next")
              => manifest[c].attempt < starts

SuiteCase ==
  /\ runner.step \in {"submit", "wait"} =>
       runner.case \in Cases /\ memory[runner.case].attempt > 0
  /\ runner.step = "submit" =>
       \A k \in submitted : k[1] = runner.case => k[2] < memory[runner.case].attempt
  /\ runner.step = "wait" => Key \in submitted

SuiteInv == SuiteTypeOK /\ SuiteBase /\ SuiteProgress /\ SuiteCase /\ SummaryIsBacked

LEMMA SuiteBounds == CaseCount \in Nat /\ MaxStarts \in Nat
BY SuiteAssumption

LEMMA ManifestsAreNot ==
  ASSUME NEW c \in Cases, NEW m \in Manifests PROVE m # NoManifest
BY SuiteBounds DEF Manifests, NoManifest, Cases

LEMMA InitSuite == SuiteInit => SuiteInv
BY SuiteBounds DEF SuiteInit, SuiteInv, SuiteTypeOK, SuiteBase, SuiteProgress, SuiteCase,
   SummaryIsBacked, Runner, None, NoManifest

LEMMA StartKeeps ==
  ASSUME SuiteInv, NEW rerun \in SUBSET Cases, StartSuite(rerun) PROVE SuiteInv'
<1> USE SuiteBounds DEF SuiteInv, SuiteTypeOK
<1>1. Fresh \in Manifests
  BY DEF Fresh, Manifests, CaseState, CaseStatus
<1>2. /\ manifest' \in Manifests /\ memory' = manifest'
      /\ UNCHANGED <<submitted, summary>> /\ starts' = starts + 1 /\ starts < MaxStarts
      /\ runner' = [step |-> "next", case |-> 1, rerun |-> rerun]
  BY <1>1 DEF StartSuite
<1>3. \A c \in Cases : /\ manifest'[c].attempt <= starts
                       /\ manifest'[c].status \in CaseEnded
                            => <<c, manifest'[c].attempt>> \in submitted
                       /\ manifest'[c].attempt \in Nat
  <2>1. CASE manifest = NoManifest
    BY <2>1, <1>2 DEF StartSuite, Fresh, CaseEnded
  <2>2. CASE manifest # NoManifest
    BY <2>2, <1>2 DEF StartSuite, SuiteBase, Manifests, CaseState
  <2>3. QED
    BY <2>1, <2>2
<1>4. \A k \in submitted : k[2] <= manifest'[k[1]].attempt
  BY DEF StartSuite, SuiteBase
<1>5. SuiteTypeOK'
  BY <1>2 DEF Runner, Manifests
<1>6. SuiteBase'
  <2>1. manifest' = NoManifest => submitted = {}
    BY <1>2, ManifestsAreNot DEF Cases
  <2>2. QED
    BY <1>2, <1>3, <1>4, <2>1 DEF SuiteBase
<1>7. SuiteProgress'
  <2>1. runner'.case = 1 /\ starts' = starts + 1 /\ starts \in Nat
    BY <1>2
  <2>2. \A c \in Cases : ~ (c < 1) /\ manifest'[c].attempt < starts'
    <3> HIDE DEF SuiteInv, SuiteTypeOK
    <3>1. \A c \in Cases : ~ (c < 1)
      BY DEF Cases
    <3>2. ASSUME NEW c \in Cases PROVE manifest'[c].attempt < starts'
      <4>1. manifest'[c].attempt <= starts /\ manifest'[c].attempt \in Nat
        BY <1>3
      <4>2. QED
        BY <2>1, <4>1
    <3>3. QED
      BY <3>1, <3>2
  <2>3. 1 \in 1 .. CaseCount + 1
    OBVIOUS
  <2>4. QED
    BY <1>2, <2>1, <2>2, <2>3 DEF SuiteProgress
<1>8. SuiteCase' /\ SummaryIsBacked'
  BY <1>2 DEF SuiteCase, SummaryIsBacked
<1>9. QED
  BY <1>5, <1>6, <1>7, <1>8

LEMMA SkipKeeps == ASSUME SuiteInv, SkipCase PROVE SuiteInv'
<1> USE SuiteBounds DEF SuiteInv, SuiteTypeOK
<1> DEFINE c == runner.case
<1>1. /\ c \in Cases /\ runner.step = "next"
      /\ UNCHANGED <<manifest, memory, submitted, summary, starts>>
      /\ runner' = [runner EXCEPT !.case = c + 1]
  BY DEF SkipCase
<1>2. manifest[c].status \in CaseEnded
  BY <1>1 DEF SkipCase, Kept, SuiteProgress, CaseEnded
<1>3. c \in Nat /\ c + 1 \in 1 .. CaseCount + 1
  BY <1>1 DEF Cases
<1>4. runner'.case = c + 1 /\ runner'.step = "next" /\ runner' \in Runner
  BY <1>1, <1>3 DEF Runner
<1> HIDE DEF c
<1>5. SuiteTypeOK'
  BY <1>1, <1>4
<1>6. SuiteBase' /\ SummaryIsBacked'
  BY <1>1 DEF SuiteBase, SummaryIsBacked
<1>7. \A d \in Cases : /\ d < c + 1 => d < c \/ d = c
                       /\ d > c + 1 \/ d = c + 1 => d > c
  BY <1>3 DEF Cases
<1>8. SuiteProgress'
  BY <1>1, <1>2, <1>3, <1>4, <1>7 DEF SuiteProgress, c
<1>9. SuiteCase'
  BY <1>4 DEF SuiteCase
<1>10. QED
  BY <1>5, <1>6, <1>8, <1>9

LEMMA BeginKeeps == ASSUME SuiteInv, BeginCase PROVE SuiteInv'
<1> USE SuiteBounds DEF SuiteInv, SuiteTypeOK
<1> DEFINE c == runner.case
           a == manifest[c].attempt
<1>1. /\ c \in Cases /\ runner.step = "next"
      /\ UNCHANGED <<submitted, summary, starts>>
      /\ manifest \in Manifests /\ memory = manifest
  BY DEF BeginCase, SuiteProgress
<1>2. a < starts /\ a \in Nat /\ starts \in Nat /\ starts <= MaxStarts
  BY <1>1 DEF SuiteProgress, Manifests, CaseState
<1>3. /\ memory' = [manifest EXCEPT ![c] = [status |-> "running", attempt |-> a + 1]]
      /\ manifest' = memory' /\ runner' = [runner EXCEPT !.step = "submit"]
  BY <1>1 DEF BeginCase
<1>4. runner' \in Runner /\ runner'.step = "submit" /\ runner'.case = c
  BY <1>3 DEF Runner
<1>5. [status |-> "running", attempt |-> a + 1] \in CaseState
  BY <1>2 DEF CaseState, CaseStatus
<1> HIDE DEF a
<1>6. manifest' \in Manifests
  BY <1>1, <1>3, <1>5 DEF Manifests
<1>7. \A d \in Cases : manifest'[d] = IF d = c THEN [status |-> "running", attempt |-> a + 1]
                                               ELSE manifest[d]
  BY <1>1, <1>3 DEF Manifests
<1>8. manifest' # NoManifest /\ manifest # NoManifest
  BY <1>1, <1>6, ManifestsAreNot
<1>9. \A d \in Cases : manifest[d].attempt \in Nat
  BY <1>1 DEF Manifests, CaseState
<1>10. SuiteTypeOK'
  BY <1>1, <1>3, <1>4, <1>6
<1>11. SuiteBase'
  <2>1. \A k \in submitted : k[2] <= manifest'[k[1]].attempt
    <3> SUFFICES ASSUME NEW k \in submitted PROVE k[2] <= manifest'[k[1]].attempt
      OBVIOUS
    <3>1. k[1] \in Cases /\ k[2] \in Nat /\ k[2] <= manifest[k[1]].attempt
      BY DEF SuiteBase
    <3>2. QED
      BY <1>2, <1>7, <3>1 DEF a
  <2>2. \A d \in Cases : /\ manifest'[d].status \in CaseEnded
                              => <<d, manifest'[d].attempt>> \in submitted
                         /\ manifest'[d].attempt <= starts
    BY <1>2, <1>7, <1>8 DEF SuiteBase, CaseEnded
  <2>3. QED
    BY <1>1, <1>8, <2>1, <2>2 DEF SuiteBase
<1>12. SuiteProgress'
  <2>1. c \in 1 .. CaseCount + 1
    BY <1>1 DEF SuiteProgress
  <2>2. \A d \in Cases : d < c => manifest'[d].status \in CaseEnded
    BY <1>1, <1>7 DEF SuiteProgress, Cases
  <2>3. \A d \in Cases : d > c => manifest'[d].attempt < starts
    BY <1>1, <1>7 DEF SuiteProgress, Cases
  <2>4. QED
    BY <1>1, <1>3, <1>4, <1>6, <2>1, <2>2, <2>3 DEF SuiteProgress
<1>13. SuiteCase'
  <2>1. memory'[c].attempt = a + 1
    BY <1>1, <1>3, <1>7
  <2>2. \A k \in submitted : k[1] = c => k[2] < a + 1
    BY <1>2 DEF SuiteBase, a
  <2>3. QED
    BY <1>1, <1>2, <1>4, <2>1, <2>2 DEF SuiteCase
<1>14. SummaryIsBacked'
  BY <1>1 DEF SummaryIsBacked
<1>15. QED
  BY <1>10, <1>11, <1>12, <1>13, <1>14

LEMMA SubmitKeeps == ASSUME SuiteInv, SubmitCase PROVE SuiteInv'
<1> USE SuiteBounds DEF SuiteInv, SuiteTypeOK
<1>1. /\ runner.step = "submit" /\ submitted' = submitted \cup {Key}
      /\ runner' = [runner EXCEPT !.step = "wait"]
      /\ UNCHANGED <<manifest, memory, summary, starts>>
      /\ memory = manifest /\ manifest \in Manifests /\ runner.case \in Cases
      /\ memory[runner.case].attempt > 0
  BY DEF SubmitCase, SuiteProgress, SuiteCase
<1>2. runner' \in Runner /\ runner'.step = "wait" /\ runner'.case = runner.case
  BY <1>1 DEF Runner
<1>3. memory[runner.case].attempt \in 1 .. MaxStarts
  BY <1>1 DEF Manifests, CaseState
<1>4. Key \in Cases \X (1 .. MaxStarts) /\ Key[1] = runner.case
      /\ Key[2] = memory[runner.case].attempt
  BY <1>1, <1>3 DEF Key
<1>5. SuiteTypeOK'
  BY <1>1, <1>2, <1>4
<1>6. SuiteBase'
  <2>1. manifest # NoManifest
    BY <1>1, ManifestsAreNot
  <2>2. \A k \in submitted' : k[2] <= manifest[k[1]].attempt
    BY <1>1, <1>3, <1>4 DEF SuiteBase
  <2>3. QED
    BY <1>1, <2>1, <2>2 DEF SuiteBase
<1>7. SuiteProgress'
  BY <1>1, <1>2 DEF SuiteProgress
<1>8. SuiteCase'
  BY <1>1, <1>2 DEF SuiteCase, Key
<1>9. SummaryIsBacked'
  BY <1>1 DEF SummaryIsBacked
<1>10. QED
  BY <1>5, <1>6, <1>7, <1>8, <1>9

LEMMA FinishKeeps ==
  ASSUME SuiteInv, NEW s \in CaseEnded, FinishCase(s) PROVE SuiteInv'
<1> USE SuiteBounds DEF SuiteInv, SuiteTypeOK
<1> DEFINE c == runner.case
           r == [manifest[c] EXCEPT !.status = s]
<1>1. /\ runner.step = "wait" /\ memory = manifest /\ manifest \in Manifests
      /\ c \in Cases /\ UNCHANGED <<submitted, summary, starts>>
      /\ memory' = [manifest EXCEPT ![c] = r] /\ manifest' = memory'
      /\ runner' = [runner EXCEPT !.step = "next", !.case = c + 1]
      /\ <<c, manifest[c].attempt>> \in submitted
  BY DEF FinishCase, SuiteProgress, SuiteCase, Key
<1>2. r \in CaseState /\ r.status = s /\ r.attempt = manifest[c].attempt
  BY <1>1 DEF Manifests, CaseState, CaseStatus, CaseEnded
<1>3. c \in Nat /\ c + 1 \in 1 .. CaseCount + 1
  BY <1>1 DEF Cases
<1>4. runner'.case = c + 1 /\ runner'.step = "next" /\ runner' \in Runner
  <2> HIDE DEF c, r, SuiteInv
  <2>1. runner \in Runner /\ c + 1 \in Nat
    BY <1>3 DEF SuiteInv
  <2>2. \A k \in Nat : LET n == [runner EXCEPT !.step = "next", !.case = k]
                      IN n.case = k /\ n.step = "next" /\ n \in Runner
    BY <2>1 DEF Runner
  <2>3. QED
    BY <1>1, <2>1, <2>2
<1> HIDE DEF r, c
<1>5. manifest' \in Manifests
  BY <1>1, <1>2 DEF Manifests
<1>6. \A d \in Cases : manifest'[d] = IF d = c THEN r ELSE manifest[d]
  BY <1>1 DEF Manifests
<1>7. manifest' # NoManifest /\ manifest # NoManifest
  BY <1>1, <1>5, ManifestsAreNot
<1>8. SuiteTypeOK'
  BY <1>1, <1>4, <1>5
<1>9. SuiteBase'
  <2>1. \A k \in submitted : k[2] <= manifest'[k[1]].attempt
    BY <1>2, <1>6 DEF SuiteBase
  <2>2. \A d \in Cases : /\ manifest'[d].status \in CaseEnded
                              => <<d, manifest'[d].attempt>> \in submitted
                         /\ manifest'[d].attempt <= starts
    BY <1>1, <1>2, <1>6, <1>7 DEF SuiteBase
  <2>3. QED
    BY <1>1, <1>7, <2>1, <2>2 DEF SuiteBase
<1>10. SuiteProgress'
  <2>1. \A d \in Cases : /\ d < c + 1 => d < c \/ d = c
                         /\ d > c + 1 \/ d = c + 1 => d > c
    BY <1>3 DEF Cases
  <2>2. \A d \in Cases : /\ d < c => manifest[d].status \in CaseEnded
                         /\ d > c => manifest[d].attempt < starts
    <3> HIDE DEF SuiteTypeOK
    <3>1. c = runner.case /\ runner.step # "none"
      BY <1>1 DEF c
    <3>2. QED
      BY <3>1 DEF SuiteProgress
  <2>3. \A d \in Cases : /\ d < c + 1 => manifest'[d].status \in CaseEnded
                         /\ d > c + 1 \/ d = c + 1 => manifest'[d].attempt < starts
    <3> SUFFICES ASSUME NEW d \in Cases
                 PROVE /\ d < c + 1 => manifest'[d].status \in CaseEnded
                       /\ d > c + 1 \/ d = c + 1 => manifest'[d].attempt < starts
      OBVIOUS
    <3>1. CASE d = c
      BY <1>2, <1>3, <1>6, <3>1
    <3>2. CASE d # c
      BY <1>6, <2>1, <2>2, <3>2
    <3>3. QED
      BY <3>1, <3>2
  <2>4. QED
    BY <1>1, <1>3, <1>4, <1>5, <2>3 DEF SuiteProgress
<1>11. SuiteCase' /\ SummaryIsBacked'
  BY <1>1, <1>4 DEF SuiteCase, SummaryIsBacked
<1>12. QED
  BY <1>8, <1>9, <1>10, <1>11

\* All cases are done when the summary is written.
LEMMA SummaryKeeps == ASSUME SuiteInv, WriteSummary PROVE SuiteInv'
<1> USE SuiteBounds DEF SuiteInv, SuiteTypeOK
<1>1. /\ runner.step = "next" /\ runner.case \notin Cases /\ memory = manifest
      /\ manifest \in Manifests /\ runner.case \in 1 .. CaseCount + 1
      /\ summary' = [c \in Cases |-> manifest[c].attempt] /\ runner' = None
      /\ memory' = NoManifest /\ UNCHANGED <<manifest, submitted, starts>>
  BY DEF WriteSummary, SuiteProgress
<1>2. \A c \in Cases : c < runner.case
  BY <1>1 DEF Cases
<1>3. \A c \in Cases : <<c, manifest[c].attempt>> \in submitted
  <2>1. \A c \in Cases : manifest # NoManifest /\ manifest[c].status \in CaseEnded
    BY <1>1, <1>2, ManifestsAreNot DEF SuiteProgress
  <2>2. QED
    BY <2>1 DEF SuiteBase
<1>4. \A c \in Cases : manifest[c].attempt \in 0 .. MaxStarts
  BY <1>1 DEF Manifests, CaseState
<1>5. runner' \in Runner /\ runner'.step = "none"
  BY <1>1 DEF None, Runner
<1>6. SuiteTypeOK'
  BY <1>1, <1>4, <1>5
<1>7. SuiteBase' /\ SuiteProgress' /\ SuiteCase'
  BY <1>1, <1>5 DEF SuiteBase, SuiteProgress, SuiteCase
<1>8. SummaryIsBacked'
  BY <1>1, <1>3 DEF SummaryIsBacked
<1>9. QED
  BY <1>6, <1>7, <1>8

LEMMA LoseKeeps == ASSUME SuiteInv, LoseRunner PROVE SuiteInv'
BY DEF LoseRunner, SuiteInv, SuiteTypeOK, SuiteBase, SuiteProgress, SuiteCase,
       SummaryIsBacked, None, Runner

LEMMA SuiteKeeps == SuiteInv /\ [SuiteNext]_suiteVars => SuiteInv'
<1> SUFFICES ASSUME SuiteInv, [SuiteNext]_suiteVars PROVE SuiteInv'
  OBVIOUS
<1>1. CASE UNCHANGED suiteVars
  BY <1>1 DEF suiteVars, SuiteInv, SuiteTypeOK, SuiteBase, SuiteProgress, SuiteCase,
              SummaryIsBacked, Key
<1>2. QED
  BY <1>1, StartKeeps, SkipKeeps, BeginKeeps, SubmitKeeps, FinishKeeps, SummaryKeeps,
     LoseKeeps DEF SuiteNext, CaseEnded

\* Through any number of crashes, resumptions and reruns of cases, a task is created
\* under a key that no other task has, and a summary names tasks that were created.
THEOREM ResumptionsAreSound == SuiteSpec => []ResumptionIsSound
<1>1. SuiteInv => ResumptionIsSound
  <2>1. SuiteInv /\ runner.step = "submit" => Key \notin submitted
    BY SuiteBounds DEF SuiteInv, SuiteTypeOK, SuiteCase, SuiteProgress, Key, Manifests, CaseState
  <2>2. QED
    BY <2>1 DEF ResumptionIsSound, FreshKeys, SuiteInv
<1>2. QED
  BY InitSuite, SuiteKeeps, <1>1, PTL DEF SuiteSpec

-----------------------------------------------------------------------------
(* The promotion of strategies.  An evaluator is calm while no evaluation of *)
(* its cluster has overlapped another: then it is the only one of its        *)
(* cluster, and what it has read of the rows still holds.  The conditions    *)
(* are stated of values, so that they can be told of a state and of the next *)
(* alike.                                                                    *)

EvaluatorState ==
  [step : Steps, id : Strategies \cup {NoStrategy}, approved : Verdicts \cup {FALSE},
   mode : {"shadow", "apply", "rollback"}, row : ProfileRow,
   other : Strategies \cup {NoStrategy}, otherRow : ProfileRow]

Calm(self, over) == self.id # NoStrategy /\ ClusterOf[self.id] \notin over

\* A profile only names other profiles of its own cluster.
Beside(t, s) == t # NoStrategy => ClusterOf[t] = ClusterOf[s] /\ t # s

Placed(self) ==
  /\ self.step = "idle" <=> self.id = NoStrategy
  /\ Beside(self.row.target, self.id)
  /\ Beside(self.other, self.id)
  /\ self.step \in {"activate", "rollback"} /\ self.other # NoStrategy
       => Beside(self.otherRow.target, self.other)
  /\ self.step \in {"restored", "rollback"} => self.other # NoStrategy

UpToDate(self, prof) ==
  /\ self.step = "record" => self.row = prof[self.id]
  /\ self.step = "activate" =>
       \A t \in Strategies :
          ClusterOf[t] = ClusterOf[self.id] /\ prof[t].status = "active" => t \in {self.id, self.other}
  /\ self.step \in {"regressed", "restored", "rollback"}
       \/ (self.mode = "rollback" /\ self.step \in {"read", "record"})
       => prof[self.id].status = "active"

Sound(self, prof, over) == Placed(self) /\ (Calm(self, over) => UpToDate(self, prof))

Alone(state, over) ==
  \A d, e \in Evaluators :
     /\ Calm(state[d], over) /\ Calm(state[e], over)
     /\ ClusterOf[state[d].id] = ClusterOf[state[e].id]
     => d = e

StrategyInv ==
  /\ profile \in [Strategies -> ProfileRow]
  /\ evaluator \in [Evaluators -> EvaluatorState]
  /\ evaluations \in 0 .. MaxEvaluations
  /\ overlapped \subseteq Clusters
  /\ \A s \in Strategies : Beside(profile[s].target, s)
  /\ Alone(evaluator, overlapped)
  /\ \A e \in Evaluators : Sound(evaluator[e], profile, overlapped)
  /\ OneActiveStrategy

LEMMA StrategyBounds ==
  /\ Strategies \subseteq Nat \ {0} /\ MinPasses \in Nat /\ MaxEvaluations \in Nat
  /\ NoStrategy \notin Strategies /\ NoStrategy = 0
BY StrategyAssumption DEF NoStrategy

LEMMA IdleIsSound ==
  /\ Idle \in EvaluatorState
  /\ \A prof, over : Sound(Idle, prof, over) /\ ~ Calm(Idle, over)
  /\ Idle.id = NoStrategy
BY StrategyBounds DEF Idle, EvaluatorState, Steps, NewRow, ProfileRow, Sound, Placed, Beside,
   Calm, UpToDate

LEMMA LeastStrategy ==
  ASSUME NEW found \in SUBSET Strategies, found # {}
  PROVE  \E s \in found : \A t \in found : s <= t
<1>1. found \subseteq Nat
  BY StrategyBounds
<1>2. PICK s \in found : \A t \in found : <<t, s>> \notin OpToRel(<, Nat)
  BY <1>1, NatLessThanWellFounded, WFMin
<1>3. \A t \in found : ~ (t < s)
  BY <1>1, <1>2 DEF OpToRel
<1>4. QED
  BY <1>1, <1>3

\* The active profile is one of them, and there is one whenever there is any.
LEMMA GetActiveIsActive ==
  ASSUME NEW c, NEW x
  PROVE  /\ GetActive(c, x) = NoStrategy \/ GetActive(c, x) \in Active(c) \ {x}
         /\ Active(c) \ {x} # {} => GetActive(c, x) # NoStrategy
<1> DEFINE found == Active(c) \ {x}
<1>1. found \in SUBSET Strategies
  BY DEF Active
<1>2. CASE found = {}
  BY <1>2 DEF GetActive
<1>3. CASE found # {}
  <2>1. \E s \in found : \A t \in found : s <= t
    BY <1>1, <1>3, LeastStrategy
  <2>2. GetActive(c, x) = CHOOSE s \in found : \A t \in found : s <= t
    BY <1>3 DEF GetActive
  <2>3. GetActive(c, x) \in found
    <3> HIDE DEF found
    <3>1. QED
      BY <2>1, <2>2
  <2>4. QED
    BY <1>1, <2>3, StrategyBounds
<1>4. QED
  BY <1>2, <1>3

LEMMA InitStrategy == StrategyInit => StrategyInv
<1> SUFFICES ASSUME StrategyInit PROVE StrategyInv
  OBVIOUS
<1>1. \A s \in Strategies : /\ NewRow(FirstStatus[s]) \in ProfileRow
                            /\ NewRow(FirstStatus[s]).target = NoStrategy
                            /\ NewRow(FirstStatus[s]).status = FirstStatus[s]
  BY StrategyAssumption DEF NewRow, ProfileRow
<1>2. \A e \in Evaluators : evaluator[e] = Idle
  BY DEF StrategyInit
<1>3. /\ profile \in [Strategies -> ProfileRow]
      /\ \A s \in Strategies : Beside(profile[s].target, s)
  BY <1>1 DEF StrategyInit, Beside
<1>4. /\ evaluator \in [Evaluators -> EvaluatorState]
      /\ Alone(evaluator, overlapped)
      /\ \A e \in Evaluators : Sound(evaluator[e], profile, overlapped)
  BY <1>2, IdleIsSound DEF StrategyInit, Alone
<1>5. OneActiveStrategy
  BY <1>1, StrategyAssumption DEF OneActiveStrategy, StrategyInit
<1>6. QED
  BY <1>3, <1>4, <1>5, StrategyBounds DEF StrategyInit, StrategyInv

\* What an evaluator has read stays true while the rows of its cluster do.
LEMMA StaysSound ==
  ASSUME NEW self \in EvaluatorState, NEW p, NEW q, NEW over, NEW later,
         Sound(self, p, over), over \subseteq later,
         Calm(self, over) =>
           \A s \in Strategies : ClusterOf[s] = ClusterOf[self.id] => q[s] = p[s]
  PROVE  Sound(self, q, later)
<1>1. self.id \in Strategies \cup {NoStrategy}
  BY DEF EvaluatorState
<1>2. ASSUME Calm(self, later) PROVE UpToDate(self, q)
  <2>1. Calm(self, over) /\ self.id \in Strategies /\ q[self.id] = p[self.id]
    BY <1>1, <1>2 DEF Calm
  <2>2. UpToDate(self, p)
    BY <2>1 DEF Sound
  <2>3. QED
    BY <2>1, <2>2 DEF UpToDate
<1>3. QED
  BY <1>2 DEF Sound

\* An action of one evaluator within its own cluster.
LEMMA MoveKeeps ==
  ASSUME StrategyInv, NEW e \in Evaluators,
         evaluator' \in [Evaluators -> EvaluatorState],
         \A d \in Evaluators : d # e => evaluator'[d] = evaluator[d],
         evaluator'[e].id \in {evaluator[e].id, NoStrategy},
         evaluations' = evaluations, overlapped' = overlapped,
         profile' \in [Strategies -> ProfileRow],
         \A s \in Strategies : ClusterOf[s] = ClusterOf[evaluator[e].id] \/ profile'[s] = profile[s],
         \A s \in Strategies : Beside(profile'[s].target, s),
         evaluator[e].id # NoStrategy,
         Sound(evaluator'[e], profile', overlapped),
         OneActiveStrategy'
  PROVE  StrategyInv'
<1>1. Alone(evaluator', overlapped)
  BY DEF StrategyInv, Alone, Calm
<1>2. ASSUME NEW d \in Evaluators, d # e PROVE Sound(evaluator[d], profile', overlapped)
  <2>1. Sound(evaluator[d], profile, overlapped) /\ evaluator[d] \in EvaluatorState
    BY DEF StrategyInv
  <2>2. Calm(evaluator[d], overlapped) => ClusterOf[evaluator[d].id] # ClusterOf[evaluator[e].id]
    BY <1>2 DEF StrategyInv, Alone, Calm
  <2>3. QED
    BY <2>1, <2>2, StaysSound
<1>3. \A d \in Evaluators : Sound(evaluator'[d], profile', overlapped)
  BY <1>2
<1>4. QED
  BY <1>1, <1>3 DEF StrategyInv

\* One that only reads.
LEMMA ReadKeeps ==
  ASSUME StrategyInv, NEW e \in Evaluators, evaluator[e].id # NoStrategy,
         evaluator' \in [Evaluators -> EvaluatorState],
         \A d \in Evaluators : d # e => evaluator'[d] = evaluator[d],
         evaluator'[e].id \in {evaluator[e].id, NoStrategy},
         UNCHANGED <<profile, evaluations, overlapped>>,
         Sound(evaluator'[e], profile, overlapped)
  PROVE  StrategyInv'
<1>1. OneActiveStrategy' /\ profile' = profile /\ profile \in [Strategies -> ProfileRow]
      /\ \A s \in Strategies : Beside(profile[s].target, s)
  BY DEF StrategyInv, OneActiveStrategy
<1>2. QED
  BY <1>1, MoveKeeps

LEMMA ReadRecordKeeps ==
  ASSUME StrategyInv, NEW e \in Evaluators, ReadRecord(e) PROVE StrategyInv'
<1> DEFINE self == evaluator[e]
           next == evaluator'[e]
<1>1. self \in EvaluatorState /\ Sound(self, profile, overlapped) /\ self.step = "read"
  BY DEF StrategyInv, ReadRecord
<1>2. self.id \in Strategies /\ profile[self.id] \in ProfileRow
      /\ Beside(profile[self.id].target, self.id)
  BY <1>1 DEF StrategyInv, Sound, Placed, EvaluatorState
<1>3. next = [self EXCEPT !.row = profile[self.id], !.step = "record"]
  BY DEF ReadRecord, StrategyInv
<1> HIDE DEF self
<1>4. /\ next \in EvaluatorState /\ next.row = profile[self.id] /\ next.step = "record"
      /\ next.id = self.id /\ next.other = self.other /\ next.mode = self.mode
  <2> HIDE DEF next
  <2>1. QED
    BY <1>1, <1>2, <1>3 DEF EvaluatorState, Steps
<1>5. Sound(next, profile, overlapped)
  <2> HIDE DEF next
  <2>1. QED
    BY <1>1, <1>2, <1>4, StrategyBounds DEF Sound, Placed, UpToDate, Calm, Beside
<1>6. /\ \A d \in Evaluators : d # e => evaluator'[d] = evaluator[d]
      /\ evaluator' \in [Evaluators -> EvaluatorState]
  <2>1. evaluator' = [evaluator EXCEPT ![e] = next]
    BY DEF ReadRecord, StrategyInv
  <2>2. QED
    BY <1>4, <2>1 DEF StrategyInv
<1>7. QED
  BY <1>2, <1>4, <1>5, <1>6, ReadKeeps, StrategyBounds DEF ReadRecord, self

LEMMA ReadTargetKeeps ==
  ASSUME StrategyInv, NEW e \in Evaluators, ReadTarget(e) PROVE StrategyInv'
<1> DEFINE self == evaluator[e]
           next == evaluator'[e]
<1>1. self \in EvaluatorState /\ Sound(self, profile, overlapped) /\ self.step = "target"
  BY DEF StrategyInv, ReadTarget
<1>2. self.id \in Strategies /\ profile[self.id] \in ProfileRow
      /\ Beside(profile[self.id].target, self.id)
  BY <1>1 DEF StrategyInv, Sound, Placed, EvaluatorState
<1>3. next = [self EXCEPT !.row = profile[self.id], !.step = "previous"]
  BY DEF ReadTarget, StrategyInv
<1> HIDE DEF self
<1>4. /\ next \in EvaluatorState /\ next.row = profile[self.id] /\ next.step = "previous"
      /\ next.id = self.id /\ next.other = self.other /\ next.mode = self.mode
  <2> HIDE DEF next
  <2>1. QED
    BY <1>1, <1>2, <1>3 DEF EvaluatorState, Steps
<1>5. Sound(next, profile, overlapped)
  <2> HIDE DEF next
  <2>1. QED
    BY <1>1, <1>2, <1>4, StrategyBounds DEF Sound, Placed, UpToDate, Calm, Beside
<1>6. /\ \A d \in Evaluators : d # e => evaluator'[d] = evaluator[d]
      /\ evaluator' \in [Evaluators -> EvaluatorState]
  <2>1. evaluator' = [evaluator EXCEPT ![e] = next]
    BY DEF ReadTarget, StrategyInv
  <2>2. QED
    BY <1>4, <2>1 DEF StrategyInv
<1>7. QED
  BY <1>2, <1>4, <1>5, <1>6, ReadKeeps, StrategyBounds DEF ReadTarget, self

\* Calm, the evaluator finds the one other profile that is active, or none.
LEMMA ReadPreviousKeeps ==
  ASSUME StrategyInv, NEW e \in Evaluators, ReadPrevious(e) PROVE StrategyInv'
<1> DEFINE self == evaluator[e]
           next == evaluator'[e]
           c == ClusterOf[self.id]
           other == GetActive(c, self.id)
           row == IF other = NoStrategy THEN self.otherRow ELSE profile[other]
<1>1. self \in EvaluatorState /\ Sound(self, profile, overlapped) /\ self.step = "previous"
  BY DEF StrategyInv, ReadPrevious
<1>2. self.id \in Strategies
  BY <1>1 DEF StrategyInv, Sound, Placed, EvaluatorState
<1>3. next = [self EXCEPT !.other = other, !.otherRow = row, !.step = "activate"]
  BY DEF ReadPrevious, StrategyInv
<1>4. /\ other = NoStrategy \/ other \in Active(c) \ {self.id}
      /\ Active(c) \ {self.id} # {} => other # NoStrategy
  BY GetActiveIsActive
<1> HIDE DEF self, other
<1>5. /\ other \in Strategies \cup {NoStrategy} /\ other # self.id
      /\ other # NoStrategy => /\ ClusterOf[other] = c /\ profile[other].status = "active"
                              /\ Beside(profile[other].target, other)
      /\ row \in ProfileRow
  BY <1>1, <1>2, <1>4, StrategyBounds DEF StrategyInv, Active, EvaluatorState
<1>6. Calm(self, overlapped) =>
        \A t \in Strategies :
           ClusterOf[t] = c /\ profile[t].status = "active" => t \in {self.id, other}
  <2> SUFFICES ASSUME Calm(self, overlapped), NEW t \in Strategies, ClusterOf[t] = c,
                      profile[t].status = "active", t # self.id
               PROVE  t = other
    OBVIOUS
  <2>1. t \in Active(c) \ {self.id}
    BY DEF Active
  <2>2. other # NoStrategy /\ other \in Strategies
    BY <1>4, <1>5, <2>1
  <2>3. QED
    BY <1>5, <2>2 DEF StrategyInv, OneActiveStrategy, Calm
<1>7. /\ next \in EvaluatorState /\ next.row = self.row /\ next.step = "activate"
      /\ next.id = self.id /\ next.other = other /\ next.otherRow = row
  <2> HIDE DEF next, row
  <2>1. QED
    BY <1>1, <1>3, <1>5 DEF EvaluatorState, Steps
<1>8. Sound(next, profile, overlapped)
  <2> HIDE DEF next
  <2>1. Placed(next)
    BY <1>1, <1>2, <1>5, <1>7, StrategyBounds DEF Sound, Placed, Beside
  <2>2. Calm(next, overlapped) => UpToDate(next, profile)
    BY <1>6, <1>7 DEF Calm, UpToDate
  <2>3. QED
    BY <2>1, <2>2 DEF Sound
<1>9. /\ \A d \in Evaluators : d # e => evaluator'[d] = evaluator[d]
      /\ evaluator' \in [Evaluators -> EvaluatorState]
  <2>1. evaluator' = [evaluator EXCEPT ![e] = next]
    BY DEF ReadPrevious, StrategyInv
  <2>2. QED
    BY <1>7, <2>1 DEF StrategyInv
<1>10. QED
  BY <1>2, <1>7, <1>8, <1>9, ReadKeeps, StrategyBounds DEF ReadPrevious, self

LEMMA LoseEvaluatorKeeps ==
  ASSUME StrategyInv, NEW e \in Evaluators, LoseEvaluator(e) PROVE StrategyInv'
<1>1. evaluator' = [evaluator EXCEPT ![e] = Idle] /\ UNCHANGED <<profile, evaluations, overlapped>>
      /\ evaluator[e].step # "idle"
  BY DEF LoseEvaluator
<1>2. evaluator[e].id # NoStrategy
  BY <1>1 DEF StrategyInv, Sound, Placed
<1>3. QED
  BY <1>1, <1>2, ReadKeeps, IdleIsSound DEF StrategyInv

LEMMA ReadRegressedKeeps ==
  ASSUME StrategyInv, NEW e \in Evaluators, ReadRegressed(e) PROVE StrategyInv'
<1> DEFINE self == evaluator[e]
           next == evaluator'[e]
           row == profile[self.id]
<1>1. self \in EvaluatorState /\ Sound(self, profile, overlapped) /\ self.step = "regressed"
  BY DEF StrategyInv, ReadRegressed
<1>2. self.id \in Strategies /\ row \in ProfileRow /\ Beside(row.target, self.id)
      /\ row.target \in Strategies \cup {NoStrategy}
  BY <1>1 DEF StrategyInv, Sound, Placed, EvaluatorState, ProfileRow
<1>3. CASE row.target = NoStrategy
  <2>1. evaluator' = [evaluator EXCEPT ![e] = Idle] /\ UNCHANGED <<profile, evaluations, overlapped>>
    BY <1>3 DEF ReadRegressed
  <2>2. QED
    BY <1>2, <2>1, ReadKeeps, IdleIsSound, StrategyBounds DEF StrategyInv
<1>4. CASE row.target # NoStrategy
  <2>1. next = [self EXCEPT !.row = row, !.other = row.target, !.step = "restored"]
    BY <1>4 DEF ReadRegressed, StrategyInv
  <2>2. evaluator' = [evaluator EXCEPT ![e] = next]
    BY <1>4 DEF ReadRegressed, StrategyInv
  <2> HIDE DEF self, row
  <2>3. /\ next \in EvaluatorState /\ next.row = row /\ next.step = "restored"
        /\ next.id = self.id /\ next.other = row.target /\ next.mode = self.mode
    <3> HIDE DEF next
    <3>1. QED
      BY <1>1, <1>2, <2>1 DEF EvaluatorState, Steps
  <2>4. Sound(next, profile, overlapped)
    <3> HIDE DEF next
    <3>1. QED
      BY <1>1, <1>2, <1>4, <2>3, StrategyBounds DEF Sound, Placed, UpToDate, Calm, Beside
  <2>5. /\ \A d \in Evaluators : d # e => evaluator'[d] = evaluator[d]
        /\ evaluator' \in [Evaluators -> EvaluatorState]
    BY <2>2, <2>3 DEF StrategyInv
  <2>6. QED
    BY <1>2, <2>3, <2>4, <2>5, ReadKeeps, StrategyBounds DEF ReadRegressed, self
<1>5. QED
  BY <1>3, <1>4

LEMMA ReadRestoredKeeps ==
  ASSUME StrategyInv, NEW e \in Evaluators, ReadRestored(e) PROVE StrategyInv'
<1> DEFINE self == evaluator[e]
           next == evaluator'[e]
<1>1. self \in EvaluatorState /\ Sound(self, profile, overlapped) /\ self.step = "restored"
  BY DEF StrategyInv, ReadRestored
<1>2. self.id \in Strategies /\ self.other \in Strategies /\ profile[self.other] \in ProfileRow
      /\ Beside(profile[self.other].target, self.other)
  BY <1>1 DEF StrategyInv, Sound, Placed, EvaluatorState
<1>3. next = [self EXCEPT !.otherRow = profile[self.other], !.step = "rollback"]
  BY DEF ReadRestored, StrategyInv
<1> HIDE DEF self
<1>4. /\ next \in EvaluatorState /\ next.otherRow = profile[self.other] /\ next.step = "rollback"
      /\ next.id = self.id /\ next.other = self.other /\ next.mode = self.mode
      /\ next.row = self.row
  <2> HIDE DEF next
  <2>1. QED
    BY <1>1, <1>2, <1>3 DEF EvaluatorState, Steps
<1>5. Sound(next, profile, overlapped)
  <2> HIDE DEF next
  <2>1. QED
    BY <1>1, <1>2, <1>4, StrategyBounds DEF Sound, Placed, UpToDate, Calm, Beside
<1>6. /\ \A d \in Evaluators : d # e => evaluator'[d] = evaluator[d]
      /\ evaluator' \in [Evaluators -> EvaluatorState]
  <2>1. evaluator' = [evaluator EXCEPT ![e] = next]
    BY DEF ReadRestored, StrategyInv
  <2>2. QED
    BY <1>4, <2>1 DEF StrategyInv
<1>7. QED
  BY <1>2, <1>4, <1>5, <1>6, ReadKeeps, StrategyBounds DEF ReadRestored, self

\* An overlap is noticed as the second evaluation of a cluster begins.
LEMMA DecideKeeps ==
  ASSUME StrategyInv, NEW e \in Evaluators, NEW s \in Strategies, NEW approved \in Verdicts,
         Decide(e, s, approved)
  PROVE  StrategyInv'
<1> DEFINE mode == Mode(profile[s], approved)
           next == [Idle EXCEPT !.step = "read", !.id = s, !.approved = approved, !.mode = mode]
<1>1. /\ evaluator[e].step = "idle" /\ evaluator' = [evaluator EXCEPT ![e] = next]
      /\ evaluations' \in 0 .. MaxEvaluations /\ profile' = profile
      /\ overlapped \subseteq overlapped' /\ overlapped' \subseteq Clusters
      /\ Busy(ClusterOf[s]) # {} => ClusterOf[s] \in overlapped'
  BY StrategyBounds DEF Decide, StrategyInv, Clusters
<1>2. mode \in {"shadow", "apply", "rollback"} /\ (mode = "rollback" => profile[s].status = "active")
  BY DEF Mode
<1> HIDE DEF mode
<1>3. /\ next \in EvaluatorState /\ next.step = "read" /\ next.id = s /\ next.mode = mode
      /\ next.other = NoStrategy /\ next.row.target = NoStrategy
  BY <1>2, IdleIsSound DEF Idle, EvaluatorState, Steps, NewRow
<1> HIDE DEF next
<1>4. Sound(next, profile, overlapped')
  BY <1>2, <1>3, StrategyBounds DEF Sound, Placed, Beside, UpToDate
<1>5. evaluator[e].id = NoStrategy
  BY <1>1 DEF StrategyInv, Sound, Placed
<1>6. /\ \A d \in Evaluators : evaluator'[d] = IF d = e THEN next ELSE evaluator[d]
      /\ evaluator' \in [Evaluators -> EvaluatorState]
  BY <1>1, <1>3 DEF StrategyInv
<1>7. \A d \in Evaluators : Sound(evaluator'[d], profile, overlapped')
  <2> SUFFICES ASSUME NEW d \in Evaluators, d # e PROVE Sound(evaluator[d], profile, overlapped')
    BY <1>4, <1>6
  <2>1. Sound(evaluator[d], profile, overlapped) /\ evaluator[d] \in EvaluatorState
    BY DEF StrategyInv
  <2>2. QED
    BY <1>1, <2>1, StaysSound
<1>8. Alone(evaluator', overlapped')
  <2>1. \A d \in Evaluators : d # e /\ Calm(evaluator[d], overlapped')
                              => ClusterOf[evaluator[d].id] # ClusterOf[s]
    BY <1>1 DEF Busy, Calm
  <2>2. \A d \in Evaluators : Calm(evaluator[d], overlapped') => Calm(evaluator[d], overlapped)
    BY <1>1 DEF Calm
  <2>3. QED
    BY <1>3, <1>6, <2>1, <2>2 DEF Alone, StrategyInv
<1>9. OneActiveStrategy'
  BY <1>1 DEF StrategyInv, OneActiveStrategy
<1>10. \A x \in Strategies : Beside(profile[x].target, x)
  BY DEF StrategyInv
<1>11. QED
  BY <1>1, <1>6, <1>7, <1>8, <1>9, <1>10 DEF StrategyInv

\* The row written back differs from the row in the number of its passes only.
LEMMA RecordKeeps ==
  ASSUME StrategyInv, NEW e \in Evaluators, Record(e) PROVE StrategyInv'
<1> DEFINE self == evaluator[e]
           next == evaluator'[e]
           row == [self.row EXCEPT !.passes = NextPasses(self.row, self.approved)]
<1>1. self \in EvaluatorState /\ Sound(self, profile, overlapped) /\ self.step = "record"
  BY DEF StrategyInv, Record
<1>2. self.id \in Strategies /\ self.row \in ProfileRow /\ Beside(self.row.target, self.id)
  BY <1>1 DEF Sound, Placed, EvaluatorState
<1>3. /\ profile' = [profile EXCEPT ![self.id] = row]
      /\ UNCHANGED <<evaluations, overlapped>>
      /\ \/ evaluator' = [evaluator EXCEPT ![e] = Idle]
         \/ evaluator' = Go(e, "target")
         \/ self.mode = "rollback" /\ evaluator' = Go(e, "regressed")
  BY DEF Record
<1>4. NextPasses(self.row, self.approved) \in Nat
  BY <1>2 DEF NextPasses, ProfileRow
<1> HIDE DEF self
<1>5. row \in ProfileRow /\ row.status = self.row.status /\ row.target = self.row.target
  BY <1>2, <1>4 DEF ProfileRow
<1> HIDE DEF row
<1>6. /\ profile' \in [Strategies -> ProfileRow]
      /\ \A s \in Strategies : profile'[s] = IF s = self.id THEN row ELSE profile[s]
      /\ \A s \in Strategies : ClusterOf[s] = ClusterOf[self.id] \/ profile'[s] = profile[s]
      /\ \A s \in Strategies : Beside(profile'[s].target, s)
  BY <1>2, <1>3, <1>5 DEF StrategyInv
<1>7. Calm(self, overlapped) => /\ row.status = profile[self.id].status
                                /\ self.mode = "rollback" => row.status = "active"
  BY <1>1, <1>5 DEF Sound, UpToDate
<1>8. OneActiveStrategy'
  <2> SUFFICES ASSUME NEW s \in Strategies, NEW t \in Strategies, ClusterOf[s] = ClusterOf[t],
                      ClusterOf[s] \notin overlapped, profile'[s].status = "active",
                      profile'[t].status = "active"
               PROVE  s = t
    BY <1>3 DEF OneActiveStrategy
  <2>1. profile[s].status = "active" /\ profile[t].status = "active"
    BY <1>2, <1>6, <1>7, StrategyBounds DEF Calm
  <2>2. QED
    BY <2>1 DEF StrategyInv, OneActiveStrategy
<1>9. /\ \A d \in Evaluators : d # e => evaluator'[d] = evaluator[d]
      /\ evaluator' \in [Evaluators -> EvaluatorState]
      /\ next.id \in {self.id, NoStrategy}
      /\ Sound(next, profile', overlapped)
  <2>1. CASE evaluator' = [evaluator EXCEPT ![e] = Idle]
    BY <2>1, IdleIsSound DEF StrategyInv
  <2>2. CASE \E step \in {"target", "regressed"} :
               /\ evaluator' = Go(e, step) /\ (step = "regressed" => self.mode = "rollback")
    <3>1. PICK step \in {"target", "regressed"} :
               /\ evaluator' = Go(e, step) /\ (step = "regressed" => self.mode = "rollback")
      BY <2>2
    <3>2. next = [self EXCEPT !.step = step] /\ evaluator' = [evaluator EXCEPT ![e] = next]
      BY <3>1 DEF Go, StrategyInv, self
    <3> HIDE DEF next
    <3>3. /\ next \in EvaluatorState /\ next.step = step /\ next.id = self.id
          /\ next.other = self.other /\ next.row = self.row /\ next.mode = self.mode
      BY <1>1, <3>2 DEF EvaluatorState, Steps
    <3>4. Placed(next)
      BY <1>1, <1>2, <3>3, StrategyBounds DEF Sound, Placed
    <3>5. Calm(next, overlapped) => UpToDate(next, profile')
      BY <1>2, <1>6, <1>7, <3>1, <3>3 DEF Calm, UpToDate
    <3>6. QED
      BY <3>2, <3>3, <3>4, <3>5 DEF StrategyInv, Sound
  <2>3. QED
    BY <1>3, <2>1, <2>2
<1>10. QED
  BY <1>2, <1>3, <1>6, <1>8, <1>9, MoveKeeps, StrategyBounds DEF self

\* The one profile that is active and is not the new one is superseded.
LEMMA ActivateKeeps ==
  ASSUME StrategyInv, NEW e \in Evaluators, Activate(e) PROVE StrategyInv'
<1> DEFINE self == evaluator[e]
           new == Activated(self)
           old == [self.otherRow EXCEPT !.status = "superseded"]
<1>1. self \in EvaluatorState /\ Sound(self, profile, overlapped) /\ self.step = "activate"
  BY DEF StrategyInv, Activate
<1>2. /\ self.id \in Strategies /\ self.row \in ProfileRow /\ self.otherRow \in ProfileRow
      /\ Beside(self.other, self.id) /\ self.other \in Strategies \cup {NoStrategy}
      /\ self.other # NoStrategy => Beside(self.otherRow.target, self.other)
      /\ self.other # self.id
  BY <1>1, StrategyBounds DEF Sound, Placed, EvaluatorState, Beside
<1>3. /\ profile' = [s \in Strategies |-> CASE s = self.id -> new
                                             [] s = self.other -> old
                                             [] OTHER -> profile[s]]
      /\ evaluator' = [evaluator EXCEPT ![e] = Idle] /\ UNCHANGED <<evaluations, overlapped>>
  BY DEF Activate
<1> HIDE DEF self
<1>4. /\ new \in ProfileRow /\ new.target = self.other
      /\ old \in ProfileRow /\ old.target = self.otherRow.target /\ old.status = "superseded"
  BY <1>2 DEF Activated, ProfileRow
<1> HIDE DEF new, old
<1>5. \A s \in Strategies : profile'[s] = IF s = self.id THEN new
                                          ELSE IF s = self.other THEN old ELSE profile[s]
  BY <1>2, <1>3
<1>6. profile' \in [Strategies -> ProfileRow]
  BY <1>3, <1>4, <1>5 DEF StrategyInv
<1>7. \A s \in Strategies : /\ ClusterOf[s] = ClusterOf[self.id] \/ profile'[s] = profile[s]
                            /\ Beside(profile'[s].target, s)
  BY <1>2, <1>4, <1>5, StrategyBounds DEF StrategyInv, Beside
<1>8. OneActiveStrategy'
  <2> SUFFICES ASSUME NEW s \in Strategies, NEW t \in Strategies, ClusterOf[s] = ClusterOf[t],
                      ClusterOf[s] \notin overlapped, profile'[s].status = "active",
                      profile'[t].status = "active"
               PROVE  s = t
    BY <1>3 DEF OneActiveStrategy
  <2>1. CASE ClusterOf[s] = ClusterOf[self.id]
    <3>1. \A x \in Strategies : ClusterOf[x] = ClusterOf[self.id] /\ profile[x].status = "active"
                                => x \in {self.id, self.other}
      BY <1>1, <1>2, <2>1, StrategyBounds DEF Sound, UpToDate, Calm
    <3>2. \A x \in Strategies : ClusterOf[x] = ClusterOf[self.id] /\ profile'[x].status = "active"
                                => x = self.id
      BY <1>4, <1>5, <3>1
    <3>3. QED
      BY <2>1, <3>2
  <2>2. CASE ClusterOf[s] # ClusterOf[self.id]
    BY <1>7, <2>2 DEF StrategyInv, OneActiveStrategy
  <2>3. QED
    BY <2>1, <2>2
<1>9. QED
  BY <1>2, <1>3, <1>6, <1>7, <1>8, IdleIsSound, MoveKeeps, StrategyBounds DEF self, StrategyInv

LEMMA RollbackKeeps ==
  ASSUME StrategyInv, NEW e \in Evaluators, Rollback(e) PROVE StrategyInv'
<1> DEFINE self == evaluator[e]
           new == [self.otherRow EXCEPT !.status = "active"]
           old == [self.row EXCEPT !.status = "rolled_back", !.armed = FALSE, !.passes = 0]
<1>1. self \in EvaluatorState /\ Sound(self, profile, overlapped) /\ self.step = "rollback"
  BY DEF StrategyInv, Rollback
<1>2. /\ self.id \in Strategies /\ self.row \in ProfileRow /\ self.otherRow \in ProfileRow
      /\ self.other \in Strategies /\ ClusterOf[self.other] = ClusterOf[self.id]
      /\ self.other # self.id /\ Beside(self.otherRow.target, self.other) /\ Beside(self.row.target, self.id)
  BY <1>1 DEF Sound, Placed, EvaluatorState, Beside
<1>3. /\ profile' = [s \in Strategies |-> CASE s = self.other -> new
                                             [] s = self.id -> old
                                             [] OTHER -> profile[s]]
      /\ evaluator' = [evaluator EXCEPT ![e] = Idle] /\ UNCHANGED <<evaluations, overlapped>>
  BY DEF Rollback
<1> HIDE DEF self
<1>4. /\ new \in ProfileRow /\ new.target = self.otherRow.target
      /\ old \in ProfileRow /\ old.target = self.row.target /\ old.status = "rolled_back"
  BY <1>2 DEF ProfileRow
<1> HIDE DEF new, old
<1>5. \A s \in Strategies : profile'[s] = IF s = self.other THEN new
                                          ELSE IF s = self.id THEN old ELSE profile[s]
  BY <1>2, <1>3
<1>6. profile' \in [Strategies -> ProfileRow]
  BY <1>3, <1>4, <1>5 DEF StrategyInv
<1>7. \A s \in Strategies : /\ ClusterOf[s] = ClusterOf[self.id] \/ profile'[s] = profile[s]
                            /\ Beside(profile'[s].target, s)
  BY <1>2, <1>4, <1>5 DEF StrategyInv
<1>8. OneActiveStrategy'
  <2> SUFFICES ASSUME NEW s \in Strategies, NEW t \in Strategies, ClusterOf[s] = ClusterOf[t],
                      ClusterOf[s] \notin overlapped, profile'[s].status = "active",
                      profile'[t].status = "active"
               PROVE  s = t
    BY <1>3 DEF OneActiveStrategy
  <2>1. CASE ClusterOf[s] = ClusterOf[self.id]
    <3>1. profile[self.id].status = "active"
      BY <1>1, <1>2, <2>1, StrategyBounds DEF Sound, UpToDate, Calm
    <3>2. \A x \in Strategies : ClusterOf[x] = ClusterOf[self.id] /\ profile[x].status = "active"
                                => x = self.id
      BY <1>2, <2>1, <3>1 DEF StrategyInv, OneActiveStrategy
    <3>3. \A x \in Strategies : ClusterOf[x] = ClusterOf[self.id] /\ profile'[x].status = "active"
                                => x = self.other
      BY <1>4, <1>5, <3>2
    <3>4. QED
      BY <2>1, <3>3
  <2>2. CASE ClusterOf[s] # ClusterOf[self.id]
    BY <1>7, <2>2 DEF StrategyInv, OneActiveStrategy
  <2>3. QED
    BY <2>1, <2>2
<1>9. QED
  BY <1>2, <1>3, <1>6, <1>7, <1>8, IdleIsSound, MoveKeeps, StrategyBounds DEF self, StrategyInv

LEMMA StrategyKeeps == StrategyInv /\ [StrategyNext]_strategyVars => StrategyInv'
<1> SUFFICES ASSUME StrategyInv, [StrategyNext]_strategyVars PROVE StrategyInv'
  OBVIOUS
<1>1. CASE UNCHANGED strategyVars
  BY <1>1 DEF strategyVars, StrategyInv, OneActiveStrategy
<1>2. CASE StrategyNext
  <2>1. PICK e \in Evaluators : Evaluate(e)
    BY <1>2 DEF StrategyNext
  <2>2. QED
    BY <2>1, DecideKeeps, ReadRecordKeeps, RecordKeeps, ReadTargetKeeps, ReadPreviousKeeps,
       ActivateKeeps, ReadRegressedKeeps, ReadRestoredKeeps, RollbackKeeps, LoseEvaluatorKeeps
       DEF Evaluate
<1>3. QED
  BY <1>1, <1>2

\* While the evaluations of a cluster do not overlap, at most one of its strategies
\* is active, whatever happens in the other clusters and wherever an evaluator dies.
THEOREM OneIsActive == StrategySpec => []OneActiveStrategy
<1>1. StrategyInv => OneActiveStrategy
  BY DEF StrategyInv
<1>2. QED
  BY InitStrategy, StrategyKeeps, <1>1, PTL DEF StrategySpec

\* A cluster that has an active strategy and no overlapping evaluations has one after
\* every step too: the row an evaluation writes back is up to date, a promotion leaves
\* the new profile active, and a roll-back the one it names.
THEOREM ServiceGoesOn == StrategySpec => KeepsServing
<1> DEFINE Serve == \A c \in Clusters \ overlapped' :
                      GetActive(c, NoStrategy) # NoStrategy => GetActive(c, NoStrategy)' # NoStrategy
<1>1. ASSUME StrategyInv, StrategyInv', [StrategyNext]_strategyVars
      PROVE  [Serve]_strategyVars
  <2> SUFFICES ASSUME StrategyNext PROVE Serve
    <3> HIDE DEF Serve
    <3>1. QED
      BY <1>1
  <2> SUFFICES ASSUME NEW c \in Clusters \ overlapped', GetActive(c, NoStrategy) # NoStrategy
               PROVE  GetActive(c, NoStrategy)' # NoStrategy
    OBVIOUS
  <2> HIDE DEF Serve
  <2> SUFFICES Active(c)' # {}
    <3> DEFINE found == Active(c) \ {NoStrategy}
    <3>1. ASSUME Active(c)' # {} PROVE found' \in SUBSET Strategies /\ found' # {}
      BY <3>1, StrategyBounds DEF Active
    <3>2. ASSUME Active(c)' # {}
          PROVE  GetActive(c, NoStrategy)' = CHOOSE s \in found' : \A t \in found' : s <= t
      BY <3>1, <3>2 DEF GetActive
    <3> HIDE DEF found
    <3>3. ASSUME Active(c)' # {} PROVE \E s \in found' : \A t \in found' : s <= t
      BY <3>1, <3>3, LeastStrategy
    <3>4. QED
      BY <3>1, <3>2, <3>3, StrategyBounds
  <2>0. Active(c) # {}
    BY GetActiveIsActive
  <2>1. PICK s \in Strategies : ClusterOf[s] = c /\ profile[s].status = "active"
    BY <2>0 DEF Active
  <2>2. \A t \in Strategies : ClusterOf[t] = c /\ profile'[t].status = "active" => Active(c)' # {}
    BY DEF Active
  <2>3. CASE profile' = profile
    BY <2>1, <2>2, <2>3
  <2>4. PICK e \in Evaluators : Evaluate(e)
    BY DEF StrategyNext
  <2> DEFINE self == evaluator[e]
  <2>5. self \in EvaluatorState /\ Sound(self, profile, overlapped)
    BY <1>1 DEF StrategyInv
  <2>6. CASE Record(e)
    <3>1. /\ self.step = "record" /\ overlapped' = overlapped /\ self.id \in Strategies
          /\ profile' = [profile EXCEPT ![self.id] =
                            [self.row EXCEPT !.passes = NextPasses(self.row, self.approved)]]
      BY <2>5, <2>6 DEF Record, EvaluatorState, Sound, Placed
    <3>2. CASE s # self.id
      BY <2>1, <2>2, <3>1, <3>2
    <3>3. CASE s = self.id
      <4>1. self.row = profile[s] /\ self.row \in ProfileRow
        BY <2>1, <2>5, <3>1, <3>3, StrategyBounds DEF Sound, Calm, UpToDate, EvaluatorState
      <4>2. profile'[s].status = "active"
        BY <1>1, <2>1, <3>1, <3>3, <4>1 DEF StrategyInv, ProfileRow
      <4>3. QED
        BY <2>1, <2>2, <4>2
    <3>4. QED
      BY <3>2, <3>3
  <2>7. CASE Activate(e)
    <3>1. self.step = "activate" /\ self.id \in Strategies /\ self.row \in ProfileRow
          /\ Beside(self.other, self.id) /\ self.other # self.id
      BY <2>5, <2>7, StrategyBounds DEF Activate, EvaluatorState, Sound, Placed, Beside
    <3>2. profile'[self.id].status = "active"
      <4> DEFINE new == Activated(self)
      <4>1. new.status = "active"
        BY <3>1 DEF Activated, ProfileRow
      <4>2. \E old : profile' = [t \in Strategies |-> CASE t = self.id -> new
                                                      [] t = self.other -> old
                                                      [] OTHER -> profile[t]]
        BY <2>7 DEF Activate
      <4> HIDE DEF new, self
      <4>3. QED
        BY <3>1, <4>1, <4>2
    <3>3. CASE ClusterOf[self.id] = c
      BY <2>2, <3>1, <3>2, <3>3
    <3>4. CASE ClusterOf[self.id] # c
      <4>1. s # self.id /\ s # self.other
        BY <2>1, <3>1, <3>4, StrategyBounds DEF Beside
      <4>2. profile'[s] = profile[s]
        BY <2>7, <4>1 DEF Activate
      <4>3. QED
        BY <2>1, <2>2, <4>2
    <3>5. QED
      BY <3>3, <3>4
  <2>8. CASE Rollback(e)
    <3>1. /\ self.step = "rollback" /\ self.other \in Strategies /\ self.otherRow \in ProfileRow
          /\ ClusterOf[self.other] = ClusterOf[self.id] /\ self.other # self.id
      BY <2>5, <2>8 DEF Rollback, EvaluatorState, Sound, Placed, Beside
    <3>2. profile'[self.other].status = "active"
      <4> DEFINE new == [self.otherRow EXCEPT !.status = "active"]
      <4>1. new.status = "active"
        BY <3>1 DEF ProfileRow
      <4>2. \E old : profile' = [t \in Strategies |-> CASE t = self.other -> new
                                                      [] t = self.id -> old
                                                      [] OTHER -> profile[t]]
        BY <2>8 DEF Rollback
      <4> HIDE DEF new, self
      <4>3. QED
        BY <3>1, <4>1, <4>2
    <3>3. CASE ClusterOf[self.other] = c
      BY <2>2, <3>1, <3>2, <3>3
    <3>4. CASE ClusterOf[self.other] # c
      <4>1. s # self.id /\ s # self.other
        BY <2>1, <3>1, <3>4
      <4>2. profile'[s] = profile[s]
        BY <2>8, <4>1 DEF Rollback
      <4>3. QED
        BY <2>1, <2>2, <4>2
    <3>5. QED
      BY <3>3, <3>4
  <2>9. QED
    BY <2>3, <2>4, <2>6, <2>7, <2>8 DEF Evaluate, Decide, ReadRecord, ReadTarget, ReadPrevious,
       ReadRegressed, ReadRestored, LoseEvaluator
<1>2. StrategyInv /\ StrategyInv' /\ [StrategyNext]_strategyVars => [Serve]_strategyVars
  BY <1>1
<1>3. QED
  BY InitStrategy, StrategyKeeps, <1>2, PTL DEF StrategySpec, KeepsServing

-----------------------------------------------------------------------------
(* The profile of an agent.  A revision names the suggestion it came from,   *)
(* and is written in the transaction that settles that suggestion.           *)

Settled(revs, rows, id) ==
  IF rows[id].status = "applied"
  THEN \E i \in 1 .. Len(revs) : \A j \in 1 .. Len(revs) : revs[j] = id <=> j = i
  ELSE \A j \in 1 .. Len(revs) : revs[j] # id

RowsSettled(revs, rows) ==
  /\ \E S : rows \in Seq(S)
  /\ revs \in Seq(Nat)
  /\ \A i \in 1 .. Len(revs) : revs[i] <= Len(rows)
  /\ \A id \in 1 .. Len(rows) : Settled(revs, rows, id)

ProfilesInv ==
  /\ agent.version \in Nat
  /\ admin = NotReading \/ admin.read.version \in Nat
  /\ RowsSettled(revisions, suggestions)

LEMMA AppendedRow ==
  ASSUME NEW S, NEW s \in Seq(S), NEW x
  PROVE  /\ Append(s, x) \in Seq(S \cup {x})
         /\ Len(Append(s, x)) = Len(s) + 1
         /\ \A i \in 1 .. Len(s) : Append(s, x)[i] = s[i]
         /\ Append(s, x)[Len(s) + 1] = x
OBVIOUS

LEMMA ReplacedRow ==
  ASSUME NEW S, NEW s \in Seq(S), NEW id \in 1 .. Len(s), NEW x
  PROVE  /\ [s EXCEPT ![id] = x] \in Seq(S \cup {x})
         /\ Len([s EXCEPT ![id] = x]) = Len(s)
         /\ \A i \in 1 .. Len(s) : [s EXCEPT ![id] = x][i] = IF i = id THEN x ELSE s[i]
OBVIOUS

\* A new suggestion has changed nothing yet.
LEMMA SuggestingSettles ==
  ASSUME NEW revs, NEW rows, RowsSettled(revs, rows), NEW row, row.status = "pending"
  PROVE  RowsSettled(revs, Append(rows, row))
<1>1. PICK S : rows \in Seq(S)
  BY DEF RowsSettled
<1> DEFINE new == Append(rows, row)
<1>2. /\ new \in Seq(S \cup {row}) /\ Len(new) = Len(rows) + 1 /\ Len(rows) \in Nat
      /\ \A i \in 1 .. Len(rows) : new[i] = rows[i]
      /\ new[Len(rows) + 1] = row
  BY <1>1, AppendedRow
<1> HIDE DEF new
<1>3. revs \in Seq(Nat) /\ \A i \in 1 .. Len(revs) : revs[i] \in Nat /\ revs[i] <= Len(rows)
  BY DEF RowsSettled
<1>4. ASSUME NEW id \in 1 .. Len(new) PROVE Settled(revs, new, id)
  <2>1. CASE id = Len(rows) + 1
    BY <1>2, <1>3, <2>1 DEF Settled
  <2>2. CASE id \in 1 .. Len(rows)
    BY <1>2, <2>2 DEF Settled, RowsSettled
  <2>3. QED
    BY <1>2, <2>1, <2>2
<1>5. \A i \in 1 .. Len(revs) : revs[i] <= Len(new)
  BY <1>2, <1>3
<1>6. QED
  BY <1>2, <1>3, <1>4, <1>5 DEF RowsSettled, new

\* A dismissal changes the status of a suggestion only when it is still pending.
LEMMA DismissingSettles ==
  ASSUME NEW revs, NEW rows, RowsSettled(revs, rows), NEW id \in 1 .. Len(rows), NEW row,
         row.status = "applied" <=> rows[id].status = "applied"
  PROVE  RowsSettled(revs, [rows EXCEPT ![id] = row])
<1>1. PICK S : rows \in Seq(S)
  BY DEF RowsSettled
<1> DEFINE new == [rows EXCEPT ![id] = row]
<1>2. /\ new \in Seq(S \cup {row}) /\ Len(new) = Len(rows)
      /\ \A i \in 1 .. Len(rows) : new[i] = IF i = id THEN row ELSE rows[i]
  BY <1>1, ReplacedRow
<1> HIDE DEF new
<1>3. \A i \in 1 .. Len(new) : Settled(revs, new, i)
  BY <1>2 DEF Settled, RowsSettled
<1>4. QED
  BY <1>2, <1>3 DEF RowsSettled, new

\* An application writes the one revision of its suggestion.
LEMMA ApplyingSettles ==
  ASSUME NEW revs, NEW rows, RowsSettled(revs, rows), NEW id \in 1 .. Len(rows), NEW row,
         rows[id].status # "applied", row.status = "applied"
  PROVE  RowsSettled(Append(revs, id), [rows EXCEPT ![id] = row])
<1>1. PICK S : rows \in Seq(S)
  BY DEF RowsSettled
<1> DEFINE new == [rows EXCEPT ![id] = row]
           more == Append(revs, id)
<1>2. /\ new \in Seq(S \cup {row}) /\ Len(new) = Len(rows) /\ Len(rows) \in Nat
      /\ \A i \in 1 .. Len(rows) : new[i] = IF i = id THEN row ELSE rows[i]
  BY <1>1, ReplacedRow
<1>3. revs \in Seq(Nat) /\ Len(revs) \in Nat /\ id \in Nat
  BY DEF RowsSettled
<1>4. /\ more \in Seq(Nat) /\ Len(more) = Len(revs) + 1
      /\ \A i \in 1 .. Len(revs) : more[i] = revs[i]
      /\ more[Len(revs) + 1] = id
  BY <1>3
<1> HIDE DEF new, more
<1>5. \A j \in 1 .. Len(more) : j \in 1 .. Len(revs) \/ j = Len(revs) + 1
  BY <1>3, <1>4
<1>6. Settled(more, new, id)
  <2>1. \A j \in 1 .. Len(revs) : revs[j] # id
    BY DEF RowsSettled, Settled
  <2>2. \A j \in 1 .. Len(more) : more[j] = id <=> j = Len(revs) + 1
    BY <1>3, <1>4, <1>5, <2>1
  <2>3. Len(revs) + 1 \in 1 .. Len(more)
    BY <1>3, <1>4
  <2>4. QED
    BY <1>2, <2>2, <2>3 DEF Settled
<1>7. ASSUME NEW i \in 1 .. Len(new), i # id PROVE Settled(more, new, i)
  <2>1. Settled(revs, rows, i) /\ new[i] = rows[i]
    BY <1>2, <1>7 DEF RowsSettled
  <2>2. CASE rows[i].status = "applied"
    <3>1. PICK k \in 1 .. Len(revs) : \A j \in 1 .. Len(revs) : revs[j] = i <=> j = k
      BY <2>1, <2>2 DEF Settled
    <3>2. \A j \in 1 .. Len(more) : more[j] = i <=> j = k
      BY <1>3, <1>4, <1>5, <1>7, <3>1
    <3>3. k \in 1 .. Len(more)
      BY <1>3, <1>4
    <3>4. QED
      BY <2>1, <2>2, <3>2, <3>3 DEF Settled
  <2>3. CASE rows[i].status # "applied"
    <3>1. \A j \in 1 .. Len(more) : more[j] # i
      BY <1>4, <1>5, <1>7, <2>1, <2>3 DEF Settled
    <3>2. QED
      BY <2>1, <2>3, <3>1 DEF Settled
  <2>4. QED
    BY <2>2, <2>3
<1>8. \A i \in 1 .. Len(more) : more[i] <= Len(new)
  <2>1. \A i \in 1 .. Len(revs) : revs[i] <= Len(rows)
    BY DEF RowsSettled
  <2>2. id <= Len(rows)
    BY <1>2
  <2>3. QED
    BY <1>2, <1>3, <1>4, <1>5, <2>1, <2>2
<1>9. QED
  BY <1>2, <1>4, <1>6, <1>7, <1>8 DEF RowsSettled, new, more

\* Nor does a revision that came from no suggestion change one.
LEMMA PatchingSettles ==
  ASSUME NEW revs, NEW rows, RowsSettled(revs, rows)
  PROVE  RowsSettled(Append(revs, 0), rows)
<1> DEFINE more == Append(revs, 0)
<1>1. revs \in Seq(Nat) /\ Len(revs) \in Nat /\ Len(rows) \in Nat
  BY DEF RowsSettled
<1>2. /\ more \in Seq(Nat) /\ Len(more) = Len(revs) + 1
      /\ \A i \in 1 .. Len(revs) : more[i] = revs[i]
      /\ more[Len(revs) + 1] = 0
  BY <1>1
<1> HIDE DEF more
<1>3. \A j \in 1 .. Len(more) : j \in 1 .. Len(revs) \/ j = Len(revs) + 1
  BY <1>1, <1>2
<1>4. ASSUME NEW i \in 1 .. Len(rows) PROVE Settled(more, rows, i)
  <2>1. Settled(revs, rows, i) /\ i # 0
    BY DEF RowsSettled
  <2>2. CASE rows[i].status = "applied"
    <3>1. PICK k \in 1 .. Len(revs) : \A j \in 1 .. Len(revs) : revs[j] = i <=> j = k
      BY <2>1, <2>2 DEF Settled
    <3>2. \A j \in 1 .. Len(more) : more[j] = i <=> j = k
      BY <1>1, <1>2, <1>3, <2>1, <3>1
    <3>3. k \in 1 .. Len(more)
      BY <1>1, <1>2
    <3>4. QED
      BY <2>2, <3>2, <3>3 DEF Settled
  <2>3. CASE rows[i].status # "applied"
    BY <1>2, <1>3, <2>1, <2>3 DEF Settled
  <2>4. QED
    BY <2>2, <2>3
<1>5. \A i \in 1 .. Len(more) : more[i] <= Len(rows)
  BY <1>1, <1>2, <1>3 DEF RowsSettled
<1>6. QED
  BY <1>2, <1>4, <1>5 DEF RowsSettled, more

LEMMA InitProfiles == ProfilesInit => ProfilesInv
<1> SUFFICES ASSUME ProfilesInit PROVE ProfilesInv
  OBVIOUS
<1>1. << >> \in Seq({}) /\ << >> \in Seq(Nat) /\ Len(<< >>) = 0
  OBVIOUS
<1>2. RowsSettled(<< >>, << >>)
  BY <1>1 DEF RowsSettled
<1>3. agent.version = 1 /\ admin = NotReading
  BY DEF ProfilesInit
<1>4. QED
  BY <1>2, <1>3 DEF ProfilesInv, ProfilesInit

LEMMA PatchedVersion ==
  ASSUME NEW a, a.version \in Nat, NEW patch
  PROVE  /\ Patched(a, patch).version \in Nat
         /\ Patched(a, patch).prefs # a.prefs => Patched(a, patch).version > a.version
BY DEF Patched

LEMMA ProfilesKeep == ProfilesInv /\ [ProfilesNext]_profileVars => ProfilesInv'
<1> SUFFICES ASSUME ProfilesInv, [ProfilesNext]_profileVars PROVE ProfilesInv'
  OBVIOUS
<1>1. CASE UNCHANGED <<agent, admin, revisions, suggestions>>
  BY <1>1 DEF ProfilesInv
<1>2. ASSUME NEW texts, NEW unattended, Suggest(texts, unattended) PROVE ProfilesInv'
  <2> DEFINE row == SuggestionFrom(texts, Scorecard)
  <2>1. suggestions' \in {suggestions, Append(suggestions, row)}
        /\ UNCHANGED <<agent, admin, revisions>>
    BY <1>2 DEF Suggest
  <2>2. row.status = "pending"
    BY DEF SuggestionFrom
  <2> HIDE DEF row
  <2>3. RowsSettled(revisions, suggestions')
    BY <2>1, <2>2, SuggestingSettles DEF ProfilesInv
  <2>4. QED
    BY <2>1, <2>3 DEF ProfilesInv
<1>3. ASSUME NEW id \in DOMAIN suggestions, Apply(id) PROVE ProfilesInv'
  <2>1. id \in 1 .. Len(suggestions)
    BY DEF ProfilesInv, RowsSettled
  <2>2. CASE suggestions[id].status = "pending"
    <3> DEFINE row == [suggestions[id] EXCEPT !.status = "applied"]
    <3>1. PICK S : suggestions \in Seq(S)
      BY DEF ProfilesInv, RowsSettled
    <3>2. /\ revisions' = Append(revisions, id) /\ admin' = admin
          /\ agent' = Patched(agent, PatchOf(suggestions[id].texts))
          /\ suggestions' = [suggestions EXCEPT ![id] = row]
      BY <2>1, <2>2, <1>3, <3>1 DEF Apply
    <3>3. row.status = "applied"
      BY <2>2
    <3> HIDE DEF row
    <3>4. RowsSettled(revisions', suggestions')
      BY <2>1, <2>2, <3>2, <3>3, ApplyingSettles DEF ProfilesInv
    <3>5. QED
      BY <3>2, <3>4, PatchedVersion DEF ProfilesInv
  <2>3. CASE suggestions[id].status # "pending"
    BY <1>3, <2>3 DEF Apply, ProfilesInv
  <2>4. QED
    BY <2>2, <2>3
<1>4. ASSUME NEW id \in DOMAIN suggestions, Dismiss(id) PROVE ProfilesInv'
  <2> DEFINE row == [suggestions[id] EXCEPT !.status = IF @ = "pending" THEN "dismissed" ELSE @]
  <2>1. PICK S : suggestions \in Seq(S)
    BY DEF ProfilesInv, RowsSettled
  <2>2. /\ id \in 1 .. Len(suggestions) /\ UNCHANGED <<agent, admin, revisions>>
        /\ suggestions' = [suggestions EXCEPT ![id] = row]
    BY <1>4, <2>1 DEF Dismiss
  <2>3. row.status = "applied" <=> suggestions[id].status = "applied"
    OBVIOUS
  <2> HIDE DEF row
  <2>4. RowsSettled(revisions, suggestions')
    BY <2>2, <2>3, DismissingSettles DEF ProfilesInv
  <2>5. QED
    BY <2>2, <2>4 DEF ProfilesInv
<1>5. ASSUME NEW patch, PatchProfile(patch) PROVE ProfilesInv'
  <2>1. agent' = Patched(agent, patch) /\ revisions' = Append(revisions, 0)
        /\ UNCHANGED <<suggestions, admin>>
    BY <1>5 DEF PatchProfile
  <2>2. QED
    BY <2>1, PatchingSettles, PatchedVersion DEF ProfilesInv
<1>6. ASSUME NEW prefs, AdminRead(prefs) PROVE ProfilesInv'
  BY <1>6 DEF AdminRead, ProfilesInv
<1>7. CASE AdminWrite
  <2>1. /\ agent'.version \in {admin.read.version, admin.read.version + 1}
        /\ admin' = NotReading /\ UNCHANGED <<revisions, suggestions>>
        /\ admin.read.version \in Nat
    BY <1>7 DEF AdminWrite, ProfilesInv
  <2>2. QED
    BY <2>1 DEF ProfilesInv
<1>8. QED
  BY <1>1, <1>2, <1>3, <1>4, <1>5, <1>6, <1>7
     DEF ProfilesNext, profileVars, RecordOutcome, Talk, Keep, Disable, Propose, Generate, Check

\* However the handlers of a suggestion, its automatic application and its dismissal
\* interleave, the suggestion has one revision if it is applied and none if it is not.
THEOREM SuggestionsSettleOnce == ProfilesSpec => []SettledOnce
<1>1. ProfilesInv => SettledOnce
  <2> SUFFICES ASSUME ProfilesInv, NEW id \in DOMAIN suggestions
               PROVE  Cardinality({i \in DOMAIN revisions : revisions[i] = id})
                        = IF suggestions[id].status = "applied" THEN 1 ELSE 0
    BY DEF SettledOnce
  <2>1. /\ id \in 1 .. Len(suggestions) /\ DOMAIN revisions = 1 .. Len(revisions)
        /\ Settled(revisions, suggestions, id)
    BY DEF ProfilesInv, RowsSettled
  <2> DEFINE those == {i \in DOMAIN revisions : revisions[i] = id}
  <2>2. CASE suggestions[id].status = "applied"
    <3>1. PICK k \in 1 .. Len(revisions) : \A j \in 1 .. Len(revisions) : revisions[j] = id <=> j = k
      BY <2>1, <2>2 DEF Settled
    <3>2. those = {k}
      BY <2>1, <3>1
    <3>3. QED
      BY <2>2, <3>2, FS_Singleton
  <2>3. CASE suggestions[id].status # "applied"
    <3>1. those = {}
      BY <2>1, <2>3 DEF Settled
    <3>2. QED
      BY <2>3, <3>1, FS_EmptySet
  <2>4. QED
    BY <2>2, <2>3
<1>2. QED
  BY InitProfiles, ProfilesKeep, <1>1, PTL DEF ProfilesSpec

\* Every change of the content of a profile raises its version, so that a version read
\* stands for what was read; an administrator that overwrites a change made since it read
\* the row is the one exception.
THEOREM VersionsNameContent == ProfilesSpec => VersionNamesContent
<1> DEFINE Raises == agent'.prefs # agent.prefs =>
              \/ agent'.version > agent.version
              \/ admin # NotReading /\ admin' = NotReading /\ admin.read # agent
<1>1. ASSUME ProfilesInv, [ProfilesNext]_profileVars PROVE [Raises]_profileVars
  <2> SUFFICES ASSUME agent' # agent PROVE Raises
    BY DEF profileVars
  <2>1. ASSUME NEW patch, agent' = Patched(agent, patch) PROVE Raises
    BY <1>1, <2>1, PatchedVersion DEF ProfilesInv
  <2>2. CASE AdminWrite
    <3>1. /\ agent'.prefs = admin.prefs /\ admin' = NotReading /\ admin # NotReading
          /\ agent'.version = IF admin.prefs # admin.read.prefs THEN admin.read.version + 1
                              ELSE admin.read.version
      BY <2>2 DEF AdminWrite
    <3>2. QED
      BY <1>1, <3>1 DEF ProfilesInv
  <2>3. QED
    BY <1>1, <2>1, <2>2
       DEF ProfilesNext, profileVars, RecordOutcome, Talk, Keep, Disable, Propose, Generate, Check,
           Suggest, Apply, Dismiss, PatchProfile, AdminRead
<1>2. ProfilesInv /\ [ProfilesNext]_profileVars => [Raises]_profileVars
  BY <1>1
<1>3. QED
  BY InitProfiles, ProfilesKeep, <1>2, PTL DEF ProfilesSpec, VersionNamesContent

-----------------------------------------------------------------------------
(* Types.                                                                    *)

\* The manifest, its copy and the place of the runner have the shapes the run of a
\* suite writes, through every crash and resumption.
THEOREM SuiteTypesHold == SuiteSpec => []SuiteTypeOK
<1>1. SuiteInv => SuiteTypeOK
  BY DEF SuiteInv
<1>2. QED
  BY SuiteKeeps, InitSuite, <1>1, PTL DEF SuiteSpec

\* The rows of strategies and what evaluators have read of them keep their shapes.
THEOREM StrategyTypesHold == StrategySpec => []StrategyTypeOK
<1>1. StrategyInv => StrategyTypeOK
  BY DEF StrategyInv, StrategyTypeOK, EvaluatorState
<1>2. QED
  BY InitStrategy, StrategyKeeps, <1>1, PTL DEF StrategySpec

\* A suggestion is of texts that speak of preferences, so that what it makes of a
\* profile is one; a handler has a suggestion.
TextsTyped(texts) == \A t \in texts : t[3] \in Prefs

SuggestionsTyped(rows) ==
  \A i \in 1 .. Len(rows) :
    /\ rows[i].status \in {"pending", "applied", "dismissed"}
    /\ TextsTyped(rows[i].texts)

ProfilesTyped ==
  /\ agent.prefs \in Prefs
  /\ admin # NotReading => admin.prefs \in Prefs
  /\ said \in [Talks -> Prefs] /\ kept \in [Talks -> Prefs]
  /\ outcomes \in [Works -> LearningEvent \cup {NoOutcome}]
  /\ Len(suggestions) <= MaxSuggestions
  /\ SuggestionsTyped(suggestions)
  /\ handlers \subseteq {"apply", "dismiss"} \X (1 .. Len(suggestions))
  /\ edits \in 0 .. MaxEdits

LEMMA GreatestIsOne ==
  ASSUME NEW n \in Nat, NEW found \in SUBSET (1 .. n), found # {}
  PROVE  Greatest(found) \in found
<1> DEFINE rest == {n - k : k \in found}
<1>1. \A k \in found : k \in Nat /\ n - k \in Nat /\ n - k \in rest
  OBVIOUS
<1>2. rest \in SUBSET Nat /\ rest # {}
  <2>1. \A m \in rest : m \in Nat
    BY <1>1
  <2>2. QED
    BY <2>1
<1>3. PICK m \in rest : \A l \in rest : m <= l
  <2> HIDE DEF rest
  <2>1. PICK m \in rest : \A l \in rest : <<l, m>> \notin OpToRel(<, Nat)
    BY <1>2, NatLessThanWellFounded, WFMin
  <2>2. \A l \in rest : ~ (l < m)
    BY <1>2, <2>1 DEF OpToRel
  <2>3. QED
    BY <1>2, <2>2
<1>4. PICK k \in found : m = n - k
  BY <1>3
<1>5. \A l \in found : l <= k
  <2> SUFFICES ASSUME NEW l \in found PROVE l <= k
    OBVIOUS
  <2>1. m <= n - l /\ l \in Nat /\ k \in Nat
    BY <1>1, <1>3
  <2>2. QED
    BY <1>4, <2>1
<1>6. QED
  BY <1>5 DEF Greatest

LEMMA PatchIsPrefs ==
  ASSUME NEW texts, TextsTyped(texts) PROVE PatchOf(texts) \in Prefs
<1> SUFFICES ASSUME NEW f \in Fields, f \in Agreed(texts)
             PROVE  (CHOOSE v \in Options(texts, f) : TRUE) \in Values \cup {Unset}
  BY DEF PatchOf, Prefs
<1>1. Options(texts, f) # {}
  BY FS_EmptySet DEF Agreed
<1>2. Options(texts, f) \subseteq Values \cup {Unset}
  BY DEF Options, Support, TextsTyped, Prefs
<1>3. QED
  BY <1>1, <1>2

LEMMA PatchedPrefs ==
  ASSUME NEW a, a.prefs \in Prefs, NEW patch \in Prefs
  PROVE  Patched(a, patch).prefs \in Prefs
BY DEF Patched, Merge, Prefs

LEMMA SuggestingTypes ==
  ASSUME ProfilesInv, ProfilesTyped, NEW texts, TextsTyped(texts), NEW unattended,
         Suggest(texts, unattended)
  PROVE  ProfilesTyped'
<1> DEFINE row  == SuggestionFrom(texts, Scorecard)
           same == {i \in DOMAIN suggestions : suggestions[i] = row}
           id   == IF same = {} THEN Len(suggestions) + 1 ELSE Greatest(same)
<1>1. /\ id <= MaxSuggestions
      /\ suggestions' = IF same = {} THEN Append(suggestions, row) ELSE suggestions
      /\ handlers' \subseteq handlers \cup {<<"apply", id>>}
      /\ UNCHANGED <<agent, admin, said, kept, outcomes, edits>>
  BY DEF Suggest
<1>2. row.status = "pending" /\ row.texts = texts
  BY DEF SuggestionFrom
<1>3. PICK S : suggestions \in Seq(S)
  BY DEF ProfilesInv, RowsSettled
<1>4. Len(suggestions) \in Nat /\ DOMAIN suggestions = 1 .. Len(suggestions)
  BY <1>3
<1>5. same \in SUBSET (1 .. Len(suggestions))
  BY <1>4
<1> HIDE DEF row, same
<1>6. /\ id \in 1 .. Len(suggestions')
      /\ Len(suggestions') <= MaxSuggestions /\ Len(suggestions') >= Len(suggestions)
      /\ Len(suggestions') \in Nat
      /\ SuggestionsTyped(suggestions')
  <2>1. CASE same = {}
    <3>1. /\ suggestions' = Append(suggestions, row)
          /\ Len(suggestions') = Len(suggestions) + 1
          /\ \A i \in 1 .. Len(suggestions) : suggestions'[i] = suggestions[i]
          /\ suggestions'[Len(suggestions) + 1] = row
      BY <1>1, <1>3, <2>1, AppendedRow
    <3>2. id = Len(suggestions) + 1
      BY <2>1
    <3>3. ASSUME NEW i \in 1 .. Len(suggestions')
          PROVE  suggestions'[i].status \in {"pending", "applied", "dismissed"}
                   /\ TextsTyped(suggestions'[i].texts)
      <4>1. CASE i \in 1 .. Len(suggestions)
        BY <3>1, <4>1 DEF ProfilesTyped, SuggestionsTyped
      <4>2. CASE i = Len(suggestions) + 1
        BY <1>2, <3>1, <4>2
      <4>3. QED
        BY <1>4, <3>1, <4>1, <4>2
    <3>4. QED
      BY <1>1, <1>4, <3>1, <3>2, <3>3 DEF SuggestionsTyped
  <2>2. CASE same # {}
    <3>1. id \in same /\ suggestions' = suggestions
      BY <1>1, <1>4, <1>5, <2>2, GreatestIsOne
    <3>2. SuggestionsTyped(suggestions') /\ Len(suggestions') = Len(suggestions)
      BY <3>1 DEF ProfilesTyped
    <3>3. id \in 1 .. Len(suggestions)
      BY <1>5, <3>1
    <3> HIDE DEF id
    <3>4. QED
      BY <1>4, <3>2, <3>3 DEF ProfilesTyped
  <2>3. QED
    BY <2>1, <2>2
<1> HIDE DEF id
<1>7. handlers' \subseteq {"apply", "dismiss"} \X (1 .. Len(suggestions'))
  BY <1>1, <1>4, <1>6 DEF ProfilesTyped
<1>8. QED
  BY <1>1, <1>6, <1>7 DEF ProfilesTyped

LEMMA SettlingTypes ==
  ASSUME ProfilesInv, ProfilesTyped, NEW id \in DOMAIN suggestions,
         Apply(id) \/ Dismiss(id)
  PROVE  ProfilesTyped'
<1>1. PICK S : suggestions \in Seq(S)
  BY DEF ProfilesInv, RowsSettled
<1>2. /\ id \in 1 .. Len(suggestions)
      /\ suggestions[id].status \in {"pending", "applied", "dismissed"}
      /\ TextsTyped(suggestions[id].texts)
  BY <1>1 DEF ProfilesTyped, SuggestionsTyped
<1>3. ASSUME NEW row, suggestions' = [suggestions EXCEPT ![id] = row],
             row.status \in {"pending", "applied", "dismissed"},
             row.texts = suggestions[id].texts
      PROVE  Len(suggestions') = Len(suggestions) /\ SuggestionsTyped(suggestions')
  <2>1. /\ Len(suggestions') = Len(suggestions)
        /\ \A i \in 1 .. Len(suggestions) :
             suggestions'[i] = IF i = id THEN row ELSE suggestions[i]
    BY <1>1, <1>2, <1>3, ReplacedRow
  <2>2. QED
    BY <1>2, <1>3, <2>1 DEF ProfilesTyped, SuggestionsTyped
<1>4. Len(suggestions') = Len(suggestions) /\ SuggestionsTyped(suggestions')
  <2>1. CASE UNCHANGED suggestions
    BY <2>1 DEF ProfilesTyped
  <2>2. CASE suggestions' = [suggestions EXCEPT ![id].status = "applied"]
    <3> DEFINE row == [suggestions[id] EXCEPT !.status = "applied"]
    <3>1. /\ row.status = "applied" /\ row.texts = suggestions[id].texts
          /\ suggestions' = [suggestions EXCEPT ![id] = row]
      BY <1>1, <1>2, <2>2
    <3> HIDE DEF row
    <3>2. QED
      BY <1>3, <3>1
  <2>3. CASE Dismiss(id)
    <3> DEFINE row == [suggestions[id] EXCEPT !.status =
                         IF @ = "pending" THEN "dismissed" ELSE @]
    <3>1. /\ row.status \in {"pending", "applied", "dismissed"}
          /\ row.texts = suggestions[id].texts
          /\ suggestions' = [suggestions EXCEPT ![id] = row]
      BY <1>1, <1>2, <2>3 DEF Dismiss
    <3> HIDE DEF row
    <3>2. QED
      BY <1>3, <3>1
  <2>4. QED
    BY <2>1, <2>2, <2>3 DEF Apply
<1>5. /\ agent' = agent \/ agent' = Patched(agent, PatchOf(suggestions[id].texts))
      /\ handlers' \subseteq handlers
      /\ UNCHANGED <<said, kept, outcomes, admin, edits>>
  BY DEF Apply, Dismiss
<1>6. agent'.prefs \in Prefs
  BY <1>2, <1>5, PatchIsPrefs, PatchedPrefs DEF ProfilesTyped
<1>7. QED
  BY <1>4, <1>5, <1>6 DEF ProfilesTyped

LEMMA ProfilesTypesKeep ==
  ProfilesInv /\ ProfilesTyped /\ [ProfilesNext]_profileVars => ProfilesTyped'
<1> SUFFICES ASSUME ProfilesInv, ProfilesTyped, [ProfilesNext]_profileVars
             PROVE  ProfilesTyped'
  OBVIOUS
<1>1. CASE UNCHANGED profileVars
  BY <1>1 DEF profileVars, ProfilesTyped
<1>2. Nothing \in Prefs
  BY DEF Nothing, Prefs
<1>3. ASSUME NEW w \in Works, NEW passed \in BOOLEAN, RecordOutcome(w, passed)
      PROVE  ProfilesTyped'
  <2>1. EventOf(passed) \in LearningEvent
    BY DEF EventOf, LearningEvent, ProfilesTyped
  <2>2. QED
    BY <1>3, <2>1 DEF RecordOutcome, ProfilesTyped
<1>4. ASSUME NEW t \in Talks, NEW says \in Prefs, Talk(t, says) PROVE ProfilesTyped'
  BY <1>4 DEF Talk, ProfilesTyped
<1>5. ASSUME NEW t \in Talks, Keep(t) \/ Disable(t) PROVE ProfilesTyped'
  BY <1>2, <1>5 DEF Keep, Disable, ProfilesTyped
<1>6. ASSUME NEW t \in Talks, Propose(t) PROVE ProfilesTyped'
  <2>1. TextsTyped({<<"proposal", t, said[t]>>})
    BY DEF TextsTyped, ProfilesTyped
  <2>2. QED
    BY <1>6, <2>1, SuggestingTypes DEF Propose
<1>7. CASE Generate
  <2>1. TextsTyped(Texts)
    BY DEF TextsTyped, Texts, ProfilesTyped
  <2>2. QED
    BY <1>7, <2>1, SuggestingTypes DEF Generate
<1>8. ASSUME NEW id \in DOMAIN suggestions, NEW way \in {"apply", "dismiss"}, Check(way, id)
      PROVE  ProfilesTyped'
  <2>1. id \in 1 .. Len(suggestions)
    BY DEF ProfilesInv, RowsSettled
  <2>2. QED
    BY <1>8, <2>1 DEF Check, ProfilesTyped
<1>9. ASSUME NEW prefs \in Prefs, PatchProfile(prefs) PROVE ProfilesTyped'
  BY <1>9, PatchedPrefs, ProfilesAssumption DEF PatchProfile, ProfilesTyped
<1>10. ASSUME NEW prefs \in Prefs, AdminRead(prefs) PROVE ProfilesTyped'
  <2>1. admin'.prefs = prefs
    BY <1>10 DEF AdminRead
  <2>2. QED
    BY <1>10, <2>1, ProfilesAssumption DEF AdminRead, ProfilesTyped
<1>11. CASE AdminWrite
  BY <1>11 DEF AdminWrite, ProfilesTyped
<1>12. QED
  BY <1>1, <1>3, <1>4, <1>5, <1>6, <1>7, <1>8, <1>9, <1>10, <1>11, SettlingTypes
     DEF ProfilesNext

LEMMA InitProfilesTyped == ProfilesInit => ProfilesTyped
<1>1. Nothing \in Prefs /\ Len(<< >>) = 0
  BY DEF Nothing, Prefs
<1>2. QED
  BY <1>1, ProfilesAssumption DEF ProfilesInit, ProfilesTyped, SuggestionsTyped

\* What an agent prefers stays a choice for each field, through suggestions, patches
\* and rewrites; a handler has a suggestion that exists, and a revision names one.
THEOREM ProfilesTypesHold == ProfilesSpec => []ProfilesTypeOK
<1>1. ProfilesInv /\ ProfilesTyped => ProfilesTypeOK
  <2> SUFFICES ASSUME ProfilesInv, ProfilesTyped PROVE ProfilesTypeOK
    OBVIOUS
  <2>1. /\ DOMAIN suggestions = 1 .. Len(suggestions) /\ Len(suggestions) \in Nat
        /\ DOMAIN revisions = 1 .. Len(revisions)
        /\ \A i \in 1 .. Len(revisions) : revisions[i] \in Nat /\ revisions[i] <= Len(suggestions)
    BY DEF ProfilesInv, RowsSettled
  <2>2. \A i \in DOMAIN revisions : revisions[i] \in 0 .. MaxSuggestions
    BY <2>1, ProfilesAssumption DEF ProfilesTyped
  <2>3. QED
    BY <2>1, <2>2 DEF ProfilesTyped, ProfilesTypeOK, ProfilesInv, SuggestionsTyped
<1>2. QED
  BY InitProfiles, InitProfilesTyped, ProfilesKeep, ProfilesTypesKeep, <1>1, PTL
     DEF ProfilesSpec
=============================================================================
