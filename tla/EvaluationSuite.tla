---------------------------- MODULE EvaluationSuite ----------------------------
(***************************************************************************)
(* A run of a suite of prompts (application/eval_service.py): each case is *)
(* submitted as a task under a key made of run, case and attempt, waited   *)
(* for, and its result written to the manifest of the run, so that a run   *)
(* that died can be resumed.  The reports over the results and the         *)
(* decision to promote that rests on two of them are operators.            *)
(***************************************************************************)
EXTENDS Integers, FiniteSets

CONSTANTS
    CaseCount,   \* the number of cases of the suite
    Tags,        \* Tags[c]: the tags of case c, of {"quality", "repair"}
    MaxStarts    \* bound: starts and resumptions of the run

ASSUME SuiteAssumption ==
    /\ CaseCount \in Nat
    /\ Tags \in [1 .. CaseCount -> SUBSET {"quality", "repair"}]
    /\ MaxStarts \in Nat

Cases == 1 .. CaseCount

VARIABLES
    manifest,    \* run_manifest.json: a state for each case, or NoManifest
    memory,      \* the copy of the process that runs the suite
    runner,      \* that process: its step, its case, the cases it was told to rerun
    submitted,   \* the idempotency keys <<case, attempt>> of the tasks created
    summary,     \* summary.json: the attempt each item is the result of
    starts

suiteVars == <<manifest, memory, runner, submitted, summary, starts>>

NoManifest == << >>
CaseStatus == {"pending", "running", "completed", "failed"}
CaseState == [status : CaseStatus, attempt : 0 .. MaxStarts]
Manifests == [Cases -> CaseState]
Runner == [step : {"none", "next", "submit", "wait"}, case : Nat, rerun : SUBSET Cases]
None == [step |-> "none", case |-> 0, rerun |-> {}]

SuiteTypeOK ==
    /\ manifest \in Manifests \cup {NoManifest}
    /\ memory \in Manifests \cup {NoManifest}
    /\ runner \in Runner
    /\ submitted \subseteq Cases \X (1 .. MaxStarts)
    /\ summary \in {NoManifest} \cup [Cases -> 0 .. MaxStarts]
    /\ starts \in 0 .. MaxStarts

SuiteInit ==
    /\ manifest = NoManifest
    /\ memory = NoManifest
    /\ runner = None
    /\ submitted = {}
    /\ summary = NoManifest
    /\ starts = 0

-----------------------------------------------------------------------------
Fresh == [c \in Cases |-> [status |-> "pending", attempt |-> 0]]

\* _load_or_create_manifest: a resumed run goes on from the manifest on disk, a
\* new one writes an empty one first.  Only a resumed run may rerun cases.
StartSuite(rerun) ==
    /\ runner.step = "none"
    /\ starts < MaxStarts
    /\ manifest = NoManifest => rerun = {}
    /\ manifest' = IF manifest = NoManifest THEN Fresh ELSE manifest
    /\ memory' = manifest'
    /\ runner' = [step |-> "next", case |-> 1, rerun |-> rerun]
    /\ starts' = starts + 1
    /\ UNCHANGED <<submitted, summary>>

Kept(c) == memory[c].status = "completed" /\ c \notin runner.rerun

\* A completed case is taken from the manifest.
SkipCase ==
    /\ runner.step = "next" /\ runner.case \in Cases
    /\ Kept(runner.case)
    /\ runner' = [runner EXCEPT !.case = @ + 1]
    /\ UNCHANGED <<manifest, memory, submitted, summary, starts>>

\* As BeginCase, but the attempt is saved with the result only.
BeginUnsaved ==
    /\ runner.step = "next" /\ runner.case \in Cases
    /\ ~Kept(runner.case)
    /\ memory' = [memory EXCEPT ![runner.case] =
                    [status |-> "running", attempt |-> @.attempt + 1]]
    /\ runner' = [runner EXCEPT !.step = "submit"]
    /\ UNCHANGED <<manifest, submitted, summary, starts>>

\* The attempt is counted and saved before its task is created.
BeginCase ==
    /\ runner.step = "next" /\ runner.case \in Cases
    /\ ~Kept(runner.case)
    /\ memory' = [memory EXCEPT ![runner.case] =
                    [status |-> "running", attempt |-> @.attempt + 1]]
    /\ manifest' = memory'
    /\ runner' = [runner EXCEPT !.step = "submit"]
    /\ UNCHANGED <<submitted, summary, starts>>

Key == <<runner.case, memory[runner.case].attempt>>

\* create_video_task under the key of the attempt; a key in use would return the
\* task of another attempt.
SubmitCase ==
    /\ runner.step = "submit"
    /\ submitted' = submitted \cup {Key}
    /\ runner' = [runner EXCEPT !.step = "wait"]
    /\ UNCHANGED <<manifest, memory, summary, starts>>

\* The lineage of the task has ended, and its result is saved.
FinishCase(status) ==
    /\ runner.step = "wait"
    /\ memory' = [memory EXCEPT ![runner.case].status = status]
    /\ manifest' = memory'
    /\ runner' = [runner EXCEPT !.step = "next", !.case = @ + 1]
    /\ UNCHANGED <<submitted, summary, starts>>

WriteSummary ==
    /\ runner.step = "next" /\ runner.case \notin Cases
    /\ summary' = [c \in Cases |-> memory[c].attempt]
    /\ runner' = None
    /\ memory' = NoManifest
    /\ UNCHANGED <<manifest, submitted, starts>>

\* The process dies, or the task service refuses the task.
LoseRunner ==
    /\ runner.step # "none"
    /\ runner' = None
    /\ memory' = NoManifest
    /\ UNCHANGED <<manifest, submitted, summary, starts>>

SuiteNext ==
    \/ \E rerun \in SUBSET Cases : StartSuite(rerun)
    \/ SkipCase
    \/ BeginCase
    \/ SubmitCase
    \/ \E status \in {"completed", "failed"} : FinishCase(status)
    \/ WriteSummary
    \/ LoseRunner

SuiteSpec == SuiteInit /\ [][SuiteNext]_suiteVars

-----------------------------------------------------------------------------
(* The reports.  An outcome says of a case whether its quality passed,     *)
(* whether a quality issue was found and whether it was repaired.          *)

Outcome == [passed : BOOLEAN, issue : BOOLEAN, repaired : BOOLEAN]
Outcomes == [Cases -> Outcome]

PerMille(part, whole) ==
    IF whole = {} THEN 0 ELSE (1000 * Cardinality(part)) \div Cardinality(whole)

Tagged(tag) == {c \in Cases : tag \in Tags[c]}

\* build_eval_report
SuccessRate(o) == PerMille({c \in Cases : o[c].passed}, Cases)
\* build_quality_report: over the cases tagged quality
PassRate(o) == PerMille({c \in Tagged("quality") : o[c].passed}, Tagged("quality"))
\* build_repair_report: over the cases tagged repair
RepairRate(o) == PerMille({c \in Tagged("repair") : o[c].repaired}, Tagged("repair"))

\* _promotion_metrics_from_summary
Metrics(o) == [success |-> SuccessRate(o), quality |-> PassRate(o), repair |-> RepairRate(o),
               mustFix |-> PerMille({c \in Cases : o[c].issue}, Cases)]

MaxSuccessRegression == 0
MinQualityGain == 10
MaxMustFix == 100
MaxRepairRegression == 50

\* evaluate_promotion: nothing speaks against the challenger.
Approved(baseline, challenger) ==
    LET b == Metrics(baseline) ch == Metrics(challenger)
    IN /\ ch.success - b.success >= -MaxSuccessRegression
       /\ ch.quality - b.quality >= MinQualityGain
       /\ ch.mustFix <= b.mustFix
       /\ ch.mustFix <= MaxMustFix
       /\ ch.repair - b.repair <= MaxRepairRegression

Verdicts == {Approved(b, ch) : b, ch \in Outcomes}

-----------------------------------------------------------------------------
\* The key of a task about to be created has not been used ...
FreshKeys == runner.step = "submit" => Key \notin submitted

\* ... and every item of a summary is the result of an attempt whose task was created ...
SummaryIsBacked ==
    summary # NoManifest => \A c \in Cases : <<c, summary[c]>> \in submitted

\* ... so that after a crash and a resumption no case is judged by the task of an earlier
\* attempt or by none (eval_service.run_suite and its manifest).
ResumptionIsSound == FreshKeys /\ SummaryIsBacked

=============================================================================
