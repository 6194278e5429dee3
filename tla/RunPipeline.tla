------------------------------- MODULE RunPipeline -------------------------------
(***************************************************************************)
(* One task run by the engine, stage by stage (workflow_engine.run_task    *)
(* and _fail_task): the files its attempts leave in the task's directory,  *)
(* the lifecycle runs the delivery case keeps of its roles                 *)
(* (delivery_case_service.py), how a failure is classified, explained and  *)
(* repaired (failure_contract.py, recovery_policy_service.py,              *)
(* auto_repair_service.py), and the watchdog that closes stalled runs      *)
(* (case_reliability_service.py).  A process may die between two stages;   *)
(* the task, still running in the database, is then queued and run again   *)
(* in the same directory.                                                  *)
(***************************************************************************)
EXTENDS ScriptChecks

CONSTANTS
    Scripts,        \* what the language model may write
    VideoFaults,    \* what the validators of the rendered video may find
    MinScore,       \* settings.quality_gate_min_score, in thousandths
    MaxRuns         \* bound: attempts of the task

ASSUME PipelineAssumption == IsFiniteSet(VideoFaults) /\ MinScore \in 0 .. 1000 /\ MaxRuns \in Nat \ {0}

VARIABLES
    job,        \* the task's row: status, delivery, how it completed, attempts
    stage,      \* where the attempt is; "rest" when no engine runs the task
    fault,      \* the failure being handled
    roles,      \* the lifecycle run of each role
    files,      \* which attempt wrote each file of the task's directory (0 : nobody)
    script,     \* the script in that directory
    tried,      \* what became of the repair of the last failure
    watch,      \* the watchdog's sweep
    setting     \* what the deployment allows: writes, LaTeX; whether the task is a child

pipelineVars == <<job, stage, fault, roles, files, script, tried, watch, setting>>

Roles == {"planner", "generator", "reviewer", "repairer"}
Open == {"queued", "running"}
NoFault == [code |-> "none", at |-> "none", issues |-> {}, told |-> {}]
NoScript == [parses |-> TRUE, scene |-> TRUE, imports |-> {}, statements |-> {}]
Stages == {"start", "planning", "preflight", "generating", "static", "rendering", "promoted",
           "preview", "validating", "judging", "judged", "closing", "failing", "repairing", "reviewing",
           "delivering", "rest"}

PipelineTypeOK ==
    /\ job.status \in {"queued", "running", "completed", "failed"}
    /\ job.delivery \in {"pending", "delivered", "failed"}
    /\ job.mode \in {"none", "reviewed", "emergency"}
    /\ job.attempt \in 0 .. MaxRuns /\ stage \in Stages
    /\ roles \in [Roles -> Open \cup {"none", "completed", "failed", "cancelled"}]
    /\ \A f \in DOMAIN files : files[f] \in 0 .. MaxRuns
    /\ script \in Scripts \cup {NoScript}
    /\ tried \in {"none", "repair", "degraded"}
    /\ watch.at \in {"away", "sweep", "swept"}

PipelineInit ==
    /\ job = [status |-> "queued", delivery |-> "pending", mode |-> "none", attempt |-> 0,
              gate |-> "none"]
    /\ stage = "start" /\ fault = NoFault /\ tried = "none"
    /\ roles = [r \in Roles |-> IF r = "generator" THEN "queued" ELSE "none"]
    /\ files = [f \in {"plan", "script", "video", "report", "score", "contract"} |-> 0]
    /\ script = NoScript
    /\ watch = [at |-> "away"]
    /\ setting \in [writable : BOOLEAN, latex : BOOLEAN, child : BOOLEAN, formula : BOOLEAN]

Written(f) == [files EXCEPT ![f] = job.attempt]
Mark(role, status) == roles' = [roles EXCEPT ![role] = status]

-----------------------------------------------------------------------------
(* Classification: capability, quality, failure, recovery.                 *)

\* capability_gate_service.evaluate; the engine passes no limit of animation density.
GateAllows(formula) == ~formula \/ setting.latex

\* quality_judge_service.score, in thousandths.
Score(completed, issues, previews) ==
    ((IF completed THEN 1000 ELSE 500)
       + (IF "static_previews" \in previews THEN 400 ELSE 900)
       + (IF issues # {} THEN 700 ELSE 900)
       + (IF previews # {} THEN 700 ELSE 900)) \div 4

Blockers == {"sandbox_policy_violation", "runtime_policy_violation"}
ProviderCodes == {"provider_auth_error", "provider_rate_limited", "provider_timeout"}
UnsafeCodes == {"unsafe_transformmatchingtex_slice", "unsafe_bare_tex_selection",
                "unsafe_bare_tex_highlight"}
PreviewCodes == {"near_blank_preview", "static_previews"}
VideoCodes == {"black_frames", "frozen_tail", "encoding_error", "min_width_not_met",
               "min_height_not_met", "min_duration_not_met"}

\* DEFAULT_AUTO_REPAIR_RETRYABLE_ISSUE_CODES.
Retryable == {"render_failed", "generation_failed", "syntax_error", "missing_scene"}
               \cup UnsafeCodes \cup PreviewCodes \cup VideoCodes

\* build_failure_contract.
Contract(code) ==
    LET c(retry, advice, human) == [retryable |-> retry, advice |-> advice, human |-> human]
        repairIfListed == IF code \in Retryable THEN "auto_repair" ELSE "inspect_failure_context"
    IN IF code = "provider_auth_error" THEN c(FALSE, "fix_credentials", TRUE)
       ELSE IF code \in ProviderCodes THEN c(TRUE, "retry_later", FALSE)
       ELSE IF code = "latex_dependency_missing" THEN c(FALSE, "install_dependencies", TRUE)
       ELSE IF code \in Blockers THEN c(FALSE, "inspect_runtime_policy", TRUE)
       ELSE IF code = "render_failed" \/ code \in UnsafeCodes
            THEN c(code \in Retryable, repairIfListed, FALSE)
       ELSE IF code \in PreviewCodes THEN c(TRUE, "auto_repair", FALSE)
       ELSE c(code \in Retryable, repairIfListed, FALSE)

\* RecoveryPolicyService.build: the plan follows the contract, or asks for a human.
PlanFor(code) ==
    IF Contract(code).advice = "auto_repair" THEN "repair"
    ELSE IF code \in {"near_blank_preview", "render_failed"} THEN "repair"
    ELSE "escalate_human"

\* Repairs whatever may be tried again later.
RepairsTimeouts(code) == code \in Retryable \cup {"provider_timeout"}

\* AutoRepairService.maybe_schedule_repair, before its budget.
Repairable(code) == code \in Retryable

-----------------------------------------------------------------------------
(* An attempt.                                                             *)

Begin ==
    /\ stage = "start" /\ job.status = "queued" /\ job.attempt < MaxRuns
    /\ job' = [job EXCEPT !.status = "running", !.attempt = @ + 1]
    /\ stage' = "planning"
    /\ Mark("planner", "running")
    /\ UNCHANGED <<fault, files, script, tried, watch, setting>>

\* _fail_task down to the failed row: the generator's run is closed in three phases,
\* the report replaces the last one, the contract and the explanation are written.
\* The phases without the rendering.
RenderForgotten == {"generating", "static"}

GeneratorPhases == {"generating", "static", "rendering", "promoted"}

Fails(code, issues) ==
    /\ stage' = "failing"
    /\ fault' = [code |-> code, at |-> stage, issues |-> issues,
                 told |-> IF files.script = 0 THEN {} ELSE Diagnostics(script)]
    /\ IF stage \in GeneratorPhases THEN Mark("generator", "failed") ELSE UNCHANGED roles
    /\ job' = [job EXCEPT !.status = "failed"]
    /\ files' = IF ~setting.writable THEN files
                ELSE [files EXCEPT !.report = job.attempt, !.contract = job.attempt]
    /\ UNCHANGED <<script, tried, watch, setting>>

\* The infrastructure may fail at any stage, a late one included.
InfraFails ==
    /\ stage \in Stages \ {"start", "failing", "repairing", "reviewing", "delivering", "rest"}
    /\ Fails("infra_error", {"infra_error"})

\* Whether files may be written is the same for every path of a task: the first check decides.
Plan ==
    /\ stage = "planning"
    /\ IF ~setting.writable THEN Fails("runtime_policy_violation", {"runtime_policy_violation"})
       ELSE /\ files' = Written("plan")
            /\ Mark("planner", "completed")
            /\ stage' = "preflight"
            /\ UNCHANGED <<job, fault, script, tried, watch, setting>>

Preflight ==
    /\ stage = "preflight"
    /\ IF ~GateAllows(setting.formula)
       THEN Fails("latex_dependency_missing", {"latex_dependency_missing"})
       ELSE /\ stage' = "generating"
            /\ Mark("generator", "running")
            /\ UNCHANGED <<job, fault, files, script, tried, watch, setting>>

ProviderFails ==
    /\ stage = "generating"
    /\ \E code \in ProviderCodes \cup {"generation_failed"} : Fails(code, {code})

\* The script of an earlier attempt is kept.
GenerateOnce ==
    /\ stage = "generating"
    /\ IF files.script = 0 THEN script' \in Scripts /\ files' = Written("script")
       ELSE UNCHANGED <<script, files>>
    /\ stage' = "static"
    /\ UNCHANGED <<job, fault, roles, tried, watch, setting>>

GenerateScript ==
    /\ stage = "generating"
    /\ script' \in Scripts
    /\ files' = Written("script")
    /\ stage' = "static"
    /\ UNCHANGED <<job, fault, roles, tried, watch, setting>>

\* The first issue decides; a missing scene is the last one found.
StaticCheck ==
    /\ stage = "static"
    /\ LET issues == StaticIssues(script)
           firsts == IF issues = {"missing_scene"} THEN issues ELSE issues \ {"missing_scene"}
       IN IF issues = {}
          THEN stage' = "rendering"
               /\ UNCHANGED <<job, fault, roles, files, script, tried, watch, setting>>
          ELSE \E code \in firsts : Fails(code, issues)

RenderFails ==
    /\ stage = "rendering"
    /\ \E code \in {"sandbox_policy_violation", "render_failed"}
                     \cup When(UsesLatex(script) /\ ~setting.latex, "latex_dependency_missing") :
          /\ UsesLatex(script) /\ ~setting.latex => code = "latex_dependency_missing"
          /\ Fails(code, {code})

\* manim writes under the artifacts' directory; _locate_output_video looks first where an
\* earlier attempt's video was promoted to, and promotes that one onto itself.
Render ==
    /\ stage = "rendering"
    /\ ~(UsesLatex(script) /\ ~setting.latex)
    /\ files' = [files EXCEPT !.video = IF @ # 0 THEN @ ELSE job.attempt]
    /\ stage' = "promoted"
    /\ UNCHANGED <<job, fault, roles, script, tried, watch, setting>>

RecordRender ==
    /\ stage = "promoted"
    /\ Mark("generator", "completed")
    /\ stage' = "preview"
    /\ UNCHANGED <<job, fault, files, script, tried, watch, setting>>

ExtractPreviews ==
    /\ stage = "preview"
    /\ Mark("reviewer", "running")
    /\ stage' = "validating"
    /\ UNCHANGED <<job, fault, files, script, tried, watch, setting>>

\* The hard, rule and preview reports combined; issues come in that order.
ValidationFails ==
    /\ stage = "validating"
    /\ \E code \in VideoFaults : Fails(code, {code})

Validate ==
    /\ stage = "validating"
    /\ files' = Written("report")
    /\ stage' = "judging"
    /\ UNCHANGED <<job, fault, roles, script, tried, watch, setting>>

\* The scorecard is written and stored ...
Judge ==
    /\ stage = "judging"
    /\ files' = Written("score")
    /\ stage' = "judged"
    /\ UNCHANGED <<job, fault, roles, script, tried, watch, setting>>

\* ... before the row.  A report that passed has no issue, so the score is that of a clean
\* completion.
Complete ==
    /\ stage = "judged"
    /\ job' = [job EXCEPT !.status = "completed", !.delivery = "delivered", !.mode = "reviewed",
                          !.gate = IF Score(TRUE, {}, {}) >= MinScore THEN "accepted"
                                   ELSE "needs_revision"]
    /\ stage' = "closing"
    /\ UNCHANGED <<fault, roles, files, script, tried, watch, setting>>

Close ==
    /\ stage = "closing"
    /\ Mark("reviewer", "completed")
    /\ stage' = "rest"
    /\ UNCHANGED <<job, fault, files, script, tried, watch, setting>>

-----------------------------------------------------------------------------
(* The rest of _fail_task.                                                 *)

OpenRepair ==
    /\ stage = "failing"
    /\ Mark("repairer", "running")
    /\ stage' = "repairing"
    /\ UNCHANGED <<job, fault, files, script, tried, watch, setting>>

\* The budget and the admission of the child are those of TaskDelivery.
Repair ==
    /\ stage = "repairing"
    /\ \E admitted \in BOOLEAN :
          tried' = IF Repairable(fault.code) /\ admitted THEN "repair" ELSE "none"
    /\ stage' = "reviewing"
    /\ UNCHANGED <<job, fault, roles, files, script, watch, setting>>

RecordFailure ==
    /\ stage = "reviewing"
    /\ roles' = [roles EXCEPT !["reviewer"] = "completed", !["repairer"] = "completed"]
    /\ stage' = "delivering"
    /\ UNCHANGED <<job, fault, files, script, tried, watch, setting>>

\* A repair was created: the case is brought up to date and nothing is delivered yet.
Handed ==
    /\ stage = "delivering" /\ tried = "repair"
    /\ stage' = "rest"
    /\ UNCHANGED <<job, fault, roles, files, script, tried, watch, setting>>

\* maybe_schedule_degraded_delivery: a child of the failed child, once in its lineage.
MayDegrade ==
    /\ setting.child
    /\ files.contract # 0 => ~Contract(fault.code).human
    /\ fault.code \notin ProviderCodes \cup Blockers

Degrade ==
    /\ stage = "delivering" /\ tried # "repair" /\ MayDegrade
    /\ tried' = "degraded"
    /\ stage' = "rest"
    /\ UNCHANGED <<job, fault, roles, files, script, watch, setting>>

\* The emergency video replaces what is there; the row is completed after it.
DeliverEmergency ==
    /\ stage = "delivering" /\ tried # "repair"
    /\ fault.code \notin Blockers \cup {"latex_dependency_missing"}
    /\ files' = Written("video")
    /\ job' = [job EXCEPT !.status = "completed", !.delivery = "delivered", !.mode = "emergency"]
    /\ stage' = "rest"
    /\ UNCHANGED <<fault, roles, script, tried, watch, setting>>

GiveUp ==
    /\ stage = "delivering" /\ tried # "repair"
    /\ job' = [job EXCEPT !.delivery = "failed"]
    /\ stage' = "rest"
    /\ UNCHANGED <<fault, roles, files, script, tried, watch, setting>>

-----------------------------------------------------------------------------
(* Crashes and the watchdog.                                               *)

\* The lease ends and requeue_stale_tasks queues what is running in the database.
Crash ==
    /\ stage \notin {"start", "rest"}
    /\ IF job.status = "running"
       THEN job' = [job EXCEPT !.status = "queued"] /\ stage' = "start"
       ELSE UNCHANGED job /\ stage' = "rest"
    /\ UNCHANGED <<fault, roles, files, script, tried, watch, setting>>

Ended == job.status \in {"completed", "failed"}

\* _reconcile_stalled_agent_runs reads the runs and the root task, then writes back the open
\* runs one by one.
Sweep ==
    /\ watch.at # "sweep"
    /\ watch' = [at |-> "sweep", todo |-> {r \in Roles : roles[r] \in Open}, ended |-> Ended,
                 quiet |-> stage = "rest"]
    /\ UNCHANGED <<job, stage, fault, roles, files, script, tried, setting>>

CloseRun(r) ==
    /\ watch.at = "sweep" /\ r \in watch.todo
    /\ IF watch.ended \/ Ended THEN Mark(r, "cancelled") ELSE UNCHANGED roles
    /\ watch' = [watch EXCEPT !.todo = @ \ {r}]
    /\ UNCHANGED <<job, stage, fault, files, script, tried, setting>>

SweepEnds ==
    /\ watch.at = "sweep" /\ watch.todo = {}
    /\ watch' = [at |-> IF watch.quiet /\ watch.ended THEN "swept" ELSE "away"]
    /\ UNCHANGED <<job, stage, fault, roles, files, script, tried, setting>>

EngineStep ==
    \/ Begin \/ Plan \/ Preflight \/ ProviderFails \/ GenerateScript \/ StaticCheck
    \/ RenderFails \/ Render \/ RecordRender \/ ExtractPreviews \/ ValidationFails
    \/ Validate \/ Judge \/ Complete \/ Close \/ InfraFails
    \/ OpenRepair \/ Repair \/ RecordFailure \/ Handed \/ Degrade \/ DeliverEmergency \/ GiveUp

PipelineNext ==
    \/ EngineStep \/ Crash
    \/ Sweep \/ (\E r \in Roles : CloseRun(r)) \/ SweepEnds

PipelineSpec == PipelineInit /\ [][PipelineNext]_pipelineVars

-----------------------------------------------------------------------------
(* Properties.                                                             *)

\* A delivery that passed review stands on the report, the scorecard and the script of
\* the attempt that passed, whatever earlier attempts left in the directory
\* (workflow_engine.run_task writes each before the row).
EvidenceIsFresh ==
    job.mode = "reviewed" /\ job.status = "completed" =>
        /\ {files.plan, files.script, files.report, files.score} = {job.attempt}
        /\ files.video # 0 /\ StaticIssues(script) = {}

\* When an attempt was handled to its end, nobody is shown at work on it: only the roles
\* whose phase it never came out of may be left open, and a sweep of the watchdog that
\* begins afterwards leaves none (delivery_case_service.py, case_reliability_service.py).
LeftOpen == {r \in Roles : roles[r] \in Open}

RunsClose ==
    /\ stage = "delivering" =>
          LeftOpen \subseteq (CASE fault.at = "planning" -> {"planner", "generator"}
                                [] fault.at = "preflight" -> {"generator"}
                                [] OTHER -> {})
    /\ stage = "rest" /\ watch.at = "swept" => LeftOpen = {}

\* A repair is scheduled only for what the failure contract calls retryable and advises to
\* repair, under a plan that asks for no human (three tables of codes in three files).
RepairFollowsContract ==
    tried = "repair" =>
        /\ Contract(fault.code).retryable /\ ~Contract(fault.code).human
        /\ Contract(fault.code).advice = "auto_repair" /\ PlanFor(fault.code) = "repair"
        /\ files.contract = job.attempt

\* What the static check refuses in a script, the explanation given to the repair names as
\* well; imports, forbidden calls and the missing scene have no diagnostic of their name.
RefusalIsExplained ==
    fault.at = "static" =>
        fault.issues \ {"syntax_error", "infra_error", "forbidden_import", "forbidden_call",
                        "missing_scene"} \subseteq fault.told

\* "normalize the produced file into a canonical task artifact path immediately after
\* render" (docs/plans/2026-03-12-final-video-path-stabilization-implementation-plan.md:7):
\* the video that passed review is the one rendered from the script that is there.
RenderIsPublished ==
    job.mode = "reviewed" /\ job.status = "completed" => files.video = files.script
=============================================================================
