--------------------------- MODULE RunPipelineProofs ---------------------------
(***************************************************************************)
(* What a delivery that passed review rests on, and what a repair is       *)
(* scheduled for, for any scripts, validators and number of attempts       *)
(* (RunPipeline).                                                          *)
(***************************************************************************)
EXTENDS RunPipeline, TLAPS

FileNames == {"plan", "script", "video", "report", "score", "contract"}
JobRow == [status : {"queued", "running", "completed", "failed"},
           delivery : {"pending", "delivered", "failed"},
           mode : {"none", "reviewed", "emergency"}, attempt : Nat,
           gate : {"none", "accepted", "needs_revision"}]

Typed == job \in JobRow /\ files \in [FileNames -> Nat] /\ stage \in Stages

\* The stages from each one that writes a file, to the end of the run.
Delivered == {"closing"}
Scored == {"judged"} \cup Delivered
Reported == {"judging"} \cup Scored
Filmed == {"promoted", "preview", "validating"} \cup Reported
Checked == {"rendering"} \cup Filmed
Scripted == {"static"} \cup Checked
Planned == {"preflight", "generating"} \cup Scripted

\* A stage is reached only with what the stages before it have written in this attempt.
StageHasFiles ==
    /\ stage # "start" => job.attempt # 0
    /\ stage \in Planned => files.plan = job.attempt
    /\ stage \in Scripted => files.script = job.attempt
    /\ stage \in Checked => StaticIssues(script) = {}
    /\ stage \in Filmed => files.video # 0
    /\ stage \in Reported => files.report = job.attempt
    /\ stage \in Scored => files.score = job.attempt

Reviewed == job.mode = "reviewed" /\ job.status = "completed"
ReviewedAtEnd == Reviewed => stage \in {"closing", "rest"}

FreshInv == Typed /\ StageHasFiles /\ ReviewedAtEnd /\ EvidenceIsFresh

-----------------------------------------------------------------------------
LEMMA FreshInit == PipelineInit => FreshInv
BY DEF PipelineInit, FreshInv, Typed, StageHasFiles, ReviewedAtEnd, EvidenceIsFresh, Reviewed,
       JobRow, FileNames, Stages, Planned, Scripted, Checked, Filmed, Reported, Scored, Delivered

\* A step that changes the stage alone, to one that needs no further file, and is not
\* taken from a delivery but to rest.
LEMMA StageMoves ==
  ASSUME FreshInv, UNCHANGED <<job, files, script>>, stage' \in Stages,
         stage' = "start" \/ stage # "start",
         StageHasFiles', Reviewed => stage' \in {"closing", "rest"}
  PROVE  FreshInv'
BY DEF FreshInv, Typed, ReviewedAtEnd, EvidenceIsFresh, Reviewed

LEMMA FailureKeepsFresh ==
  ASSUME FreshInv, NEW code, NEW issues, stage # "start", Fails(code, issues)
  PROVE  FreshInv'
<1> USE DEF FreshInv, Fails
<1>1. /\ job' = [job EXCEPT !.status = "failed"]
      /\ stage' = "failing"
  OBVIOUS
<1>2. files' \in [FileNames -> Nat]
  BY DEF Typed, JobRow, FileNames
<1>3. Typed'
  BY <1>1, <1>2 DEF Typed, JobRow, Stages
<1>4. job'.status = "failed" /\ job'.attempt = job.attempt
  BY <1>1 DEF Typed, JobRow
<1>5. StageHasFiles'
  BY <1>1, <1>4 DEF StageHasFiles, Planned, Scripted, Checked, Filmed, Reported, Scored, Delivered
<1>6. QED
  BY <1>3, <1>4, <1>5 DEF ReviewedAtEnd, EvidenceIsFresh, Reviewed

\* A stage of the run that writes one file and goes on.
LEMMA FileWritten ==
  ASSUME FreshInv, NEW f \in FileNames, files' = Written(f), UNCHANGED job,
         stage \notin {"start", "closing", "rest"}, stage' \in Stages \ {"start"}, StageHasFiles'
  PROVE  FreshInv'
<1>1. ~Reviewed /\ ~Reviewed'
  BY DEF FreshInv, ReviewedAtEnd, Reviewed
<1>2. Typed'
  BY DEF FreshInv, Typed, JobRow, Written
<1>3. QED
  BY <1>1, <1>2 DEF FreshInv, ReviewedAtEnd, EvidenceIsFresh, Reviewed

LEMMA AttemptBegins == FreshInv /\ Begin => FreshInv'
<1> SUFFICES ASSUME FreshInv, Begin PROVE FreshInv'
  OBVIOUS
<1> USE DEF FreshInv, Begin
<1>1. job' = [job EXCEPT !.status = "running", !.attempt = @ + 1] /\ stage' = "planning"
  OBVIOUS
<1>2. job' \in JobRow /\ job'.status = "running" /\ job'.attempt # 0
  <2>1. job.attempt \in Nat
    BY DEF Typed, JobRow
  <2>2. job.attempt + 1 \in Nat /\ job.attempt + 1 # 0
    BY <2>1
  <2>3. QED
    BY <1>1, <2>2 DEF Typed, JobRow
<1>3. Typed'
  BY <1>1, <1>2 DEF Typed, Stages
<1>4. StageHasFiles'
  BY <1>1, <1>2 DEF StageHasFiles, Planned, Scripted, Checked, Filmed, Reported, Scored, Delivered
<1>5. QED
  BY <1>2, <1>3, <1>4 DEF ReviewedAtEnd, EvidenceIsFresh, Reviewed

\* The stages that write a file, or fail.
LEMMA FilesStep ==
  FreshInv /\ (Plan \/ GenerateScript \/ Validate \/ Judge) => FreshInv'
<1> USE DEF Planned, Scripted, Checked, Filmed, Reported, Scored, Delivered
<1>1. ASSUME FreshInv, Plan PROVE FreshInv'
  <2>1. CASE ~setting.writable
    BY <1>1, <2>1, FailureKeepsFresh DEF Plan
  <2>2. CASE setting.writable
    <3>1. /\ files' = Written("plan") /\ stage' = "preflight" /\ stage = "planning"
          /\ UNCHANGED job
      BY <1>1, <2>2 DEF Plan
    <3>2. files'.plan = job.attempt
      BY <1>1, <3>1 DEF FreshInv, Typed, FileNames, Written
    <3>3. StageHasFiles'
      BY <1>1, <3>1, <3>2 DEF FreshInv, StageHasFiles
    <3>4. QED
      BY <1>1, <3>1, <3>3, FileWritten DEF Stages, FileNames
  <2>3. QED
    BY <2>1, <2>2
<1>2. ASSUME FreshInv, GenerateScript PROVE FreshInv'
  <2>1. /\ files' = Written("script") /\ stage' = "static" /\ stage = "generating"
        /\ UNCHANGED job
    BY <1>2 DEF GenerateScript
  <2>2. files'.script = job.attempt /\ files'.plan = files.plan
    BY <1>2, <2>1 DEF FreshInv, Typed, FileNames, Written
  <2>3. StageHasFiles'
    BY <1>2, <2>1, <2>2 DEF FreshInv, StageHasFiles
  <2>4. QED
    BY <1>2, <2>1, <2>3, FileWritten DEF Stages, FileNames
<1>3. ASSUME FreshInv, Validate PROVE FreshInv'
  <2>1. /\ files' = Written("report") /\ stage' = "judging" /\ stage = "validating"
        /\ UNCHANGED <<job, script>>
    BY <1>3 DEF Validate
  <2>2. /\ files'.report = job.attempt
        /\ \A f \in {"plan", "script", "video"} : files'[f] = files[f]
    BY <1>3, <2>1 DEF FreshInv, Typed, FileNames, Written
  <2>3. StageHasFiles'
    BY <1>3, <2>1, <2>2 DEF FreshInv, StageHasFiles
  <2>4. QED
    BY <1>3, <2>1, <2>3, FileWritten DEF Stages, FileNames
<1>4. ASSUME FreshInv, Judge PROVE FreshInv'
  <2>1. /\ files' = Written("score") /\ stage' = "judged" /\ stage = "judging"
        /\ UNCHANGED <<job, script>>
    BY <1>4 DEF Judge
  <2>2. /\ files'.score = job.attempt
        /\ \A f \in {"plan", "script", "video", "report"} : files'[f] = files[f]
    BY <1>4, <2>1 DEF FreshInv, Typed, FileNames, Written
  <2>3. StageHasFiles'
    BY <1>4, <2>1, <2>2 DEF FreshInv, StageHasFiles
  <2>4. QED
    BY <1>4, <2>1, <2>3, FileWritten DEF Stages, FileNames
<1>5. QED
  BY <1>1, <1>2, <1>3, <1>4

\* The video is that of the attempt or one that was there; it is there in any case.
LEMMA VideoStep == FreshInv /\ Render => FreshInv'
<1> SUFFICES ASSUME FreshInv, Render PROVE FreshInv'
  OBVIOUS
<1> USE DEF FreshInv, Render
<1> DEFINE video == IF files.video # 0 THEN files.video ELSE job.attempt
<1>1. /\ stage = "rendering" /\ stage' = "promoted" /\ UNCHANGED <<job, script>>
      /\ files' = [files EXCEPT !.video = video]
  OBVIOUS
<1>2. video \in Nat /\ video # 0
  BY <1>1 DEF Typed, JobRow, FileNames, StageHasFiles
<1>3. /\ files' \in [FileNames -> Nat] /\ files'.video # 0
      /\ files'.plan = files.plan /\ files'.script = files.script
  BY <1>1, <1>2 DEF Typed, FileNames
<1>4. Typed'
  BY <1>1, <1>3 DEF Typed, Stages
<1>5. StageHasFiles'
  BY <1>1, <1>3 DEF StageHasFiles, Planned, Scripted, Checked, Filmed, Reported, Scored, Delivered
<1>6. ~Reviewed /\ ~Reviewed'
  BY <1>1 DEF ReviewedAtEnd, Reviewed
<1>7. QED
  BY <1>4, <1>5, <1>6 DEF ReviewedAtEnd, EvidenceIsFresh, Reviewed

LEMMA CompletionStep == FreshInv /\ Complete => FreshInv'
<1> SUFFICES ASSUME FreshInv, Complete PROVE FreshInv'
  OBVIOUS
<1> USE DEF FreshInv, Complete
<1> DEFINE gate == IF Score(TRUE, {}, {}) >= MinScore THEN "accepted" ELSE "needs_revision"
<1>1. gate \in {"accepted", "needs_revision"}
  OBVIOUS
<1>2. /\ job' = [job EXCEPT !.status = "completed", !.delivery = "delivered",
                            !.mode = "reviewed", !.gate = gate]
      /\ stage = "judged" /\ stage' = "closing" /\ UNCHANGED <<files, script>>
  OBVIOUS
<1> HIDE DEF gate
<1>3. job' \in JobRow /\ job'.attempt = job.attempt
  BY <1>1, <1>2 DEF Typed, JobRow
<1>4. Typed'
  BY <1>2, <1>3 DEF Typed, Stages
<1>5. StageHasFiles'
  BY <1>2, <1>3 DEF StageHasFiles, Planned, Scripted, Checked, Filmed, Reported, Scored, Delivered
<1>6. EvidenceIsFresh'
  BY <1>2, <1>5 DEF StageHasFiles, EvidenceIsFresh, Planned, Scripted, Checked, Filmed, Reported, Scored, Delivered
<1>7. QED
  BY <1>2, <1>4, <1>5, <1>6 DEF ReviewedAtEnd

\* Stages that only go on, or fail.
LEMMA PlainStages ==
  FreshInv /\ (Preflight \/ ProviderFails \/ StaticCheck \/ RenderFails \/ RecordRender
                 \/ ExtractPreviews \/ ValidationFails \/ Close \/ InfraFails) => FreshInv'
<1> SUFFICES ASSUME FreshInv PROVE
      (Preflight \/ ProviderFails \/ StaticCheck \/ RenderFails \/ RecordRender
         \/ ExtractPreviews \/ ValidationFails \/ Close \/ InfraFails) => FreshInv'
  OBVIOUS
<1>1. ASSUME stage \in Stages \ {"start"}, stage' \in Stages \ {"start"}, UNCHANGED <<job, files, script>>,
             Reviewed => stage' \in {"closing", "rest"}, StageHasFiles'
      PROVE  FreshInv'
  BY <1>1, StageMoves
<1> USE DEF Planned, Scripted, Checked, Filmed, Reported, Scored, Delivered
<1>2. ASSUME Preflight PROVE FreshInv'
  <2>1. CASE ~GateAllows(setting.formula)
    BY <1>2, <2>1, FailureKeepsFresh DEF Preflight
  <2>2. CASE GateAllows(setting.formula)
    BY <1>1, <1>2, <2>2 DEF Preflight, FreshInv, StageHasFiles, ReviewedAtEnd, Stages
  <2>3. QED
    BY <2>1, <2>2
<1>3. ASSUME ProviderFails PROVE FreshInv'
  BY <1>3, FailureKeepsFresh DEF ProviderFails
<1>4. ASSUME StaticCheck PROVE FreshInv'
  <2>1. CASE StaticIssues(script) = {}
    BY <1>1, <1>4, <2>1 DEF StaticCheck, FreshInv, StageHasFiles, ReviewedAtEnd, Stages
  <2>2. CASE StaticIssues(script) # {}
    BY <1>4, <2>2, FailureKeepsFresh DEF StaticCheck
  <2>3. QED
    BY <2>1, <2>2
<1>5. ASSUME RenderFails PROVE FreshInv'
  BY <1>5, FailureKeepsFresh DEF RenderFails
<1>6. ASSUME RecordRender PROVE FreshInv'
  BY <1>1, <1>6 DEF RecordRender, FreshInv, StageHasFiles, ReviewedAtEnd, Stages
<1>7. ASSUME ExtractPreviews PROVE FreshInv'
  BY <1>1, <1>7 DEF ExtractPreviews, FreshInv, StageHasFiles, ReviewedAtEnd, Stages
<1>8. ASSUME ValidationFails PROVE FreshInv'
  BY <1>8, FailureKeepsFresh DEF ValidationFails
<1>9. ASSUME Close PROVE FreshInv'
  BY <1>1, <1>9 DEF Close, FreshInv, StageHasFiles, Stages
<1>10. ASSUME InfraFails PROVE FreshInv'
  BY <1>10, FailureKeepsFresh DEF InfraFails
<1>11. QED
  BY <1>2, <1>3, <1>4, <1>5, <1>6, <1>7, <1>8, <1>9, <1>10

\* After a failure, and when the process dies.
LEMMA AfterwardsStep ==
  FreshInv /\ (OpenRepair \/ Repair \/ RecordFailure \/ Handed \/ Degrade \/ DeliverEmergency
                 \/ GiveUp \/ Crash) => FreshInv'
<1> SUFFICES ASSUME FreshInv PROVE
      (OpenRepair \/ Repair \/ RecordFailure \/ Handed \/ Degrade \/ DeliverEmergency
         \/ GiveUp \/ Crash) => FreshInv'
  OBVIOUS
<1> USE DEF Planned, Scripted, Checked, Filmed, Reported, Scored, Delivered
<1>1. ASSUME OpenRepair \/ Repair \/ RecordFailure \/ Handed \/ Degrade PROVE FreshInv'
  <2>1. /\ stage \in {"failing", "repairing", "reviewing", "delivering"}
        /\ stage' \in {"repairing", "reviewing", "delivering", "rest"}
        /\ UNCHANGED <<job, files, script>>
    BY <1>1 DEF OpenRepair, Repair, RecordFailure, Handed, Degrade
  <2>2. QED
    BY <2>1, StageMoves DEF FreshInv, StageHasFiles, ReviewedAtEnd, Stages
<1>2. ASSUME DeliverEmergency \/ GiveUp PROVE FreshInv'
  <2>1. /\ stage = "delivering" /\ stage' = "rest" /\ UNCHANGED script
        /\ files' = files \/ files' = Written("video")
        /\ \/ job' = [job EXCEPT !.delivery = "failed"]
           \/ job' = [job EXCEPT !.status = "completed", !.delivery = "delivered", !.mode = "emergency"]
    BY <1>2 DEF DeliverEmergency, GiveUp
  <2>2. job' \in JobRow /\ job'.attempt = job.attempt /\ ~Reviewed'
    BY <2>1 DEF FreshInv, Typed, JobRow, ReviewedAtEnd, Reviewed
  <2>3. files' \in [FileNames -> Nat]
    BY <2>1 DEF FreshInv, Typed, JobRow, Written
  <2>4. Typed' /\ StageHasFiles'
    BY <2>1, <2>2, <2>3 DEF FreshInv, Typed, StageHasFiles, Stages
  <2>5. QED
    BY <2>2, <2>4 DEF FreshInv, ReviewedAtEnd, EvidenceIsFresh, Reviewed
<1>3. ASSUME Crash PROVE FreshInv'
  <2>1. CASE job.status = "running"
    <3>1. job' = [job EXCEPT !.status = "queued"] /\ stage' = "start" /\ UNCHANGED <<files, script>>
      BY <1>3, <2>1 DEF Crash
    <3>2. job' \in JobRow /\ ~Reviewed'
      BY <3>1 DEF FreshInv, Typed, JobRow, Reviewed
    <3>3. Typed' /\ StageHasFiles'
      BY <3>1, <3>2 DEF FreshInv, Typed, StageHasFiles, Stages
    <3>4. QED
      BY <3>2, <3>3 DEF FreshInv, ReviewedAtEnd, EvidenceIsFresh, Reviewed
  <2>2. CASE job.status # "running"
    BY <1>3, <2>2, StageMoves DEF Crash, FreshInv, StageHasFiles, Stages
  <2>3. QED
    BY <2>1, <2>2
<1>4. QED
  BY <1>1, <1>2, <1>3

\* The watchdog writes the runs of the roles only.
LEMMA SweepStep ==
  ASSUME FreshInv, UNCHANGED <<job, stage, files, script>>
  PROVE  FreshInv'
BY DEF FreshInv, Typed, StageHasFiles, ReviewedAtEnd, EvidenceIsFresh, Reviewed

LEMMA FreshStep == FreshInv /\ [PipelineNext]_pipelineVars => FreshInv'
<1> SUFFICES ASSUME FreshInv, [PipelineNext]_pipelineVars PROVE FreshInv'
  OBVIOUS
<1>1. CASE EngineStep
  BY <1>1, AttemptBegins, FilesStep, VideoStep, CompletionStep, PlainStages, AfterwardsStep
     DEF EngineStep
<1>2. CASE Crash
  BY <1>2, AfterwardsStep
<1>3. CASE Sweep \/ (\E r \in Roles : CloseRun(r)) \/ SweepEnds
  BY <1>3, SweepStep DEF Sweep, CloseRun, SweepEnds
<1>4. CASE UNCHANGED pipelineVars
  BY <1>4, SweepStep DEF pipelineVars
<1>5. QED
  BY <1>1, <1>2, <1>3, <1>4 DEF PipelineNext

\* A delivery that passed review stands on the plan, the script, the report and the
\* scorecard of the attempt that passed and on a script the static check accepts, whatever
\* earlier attempts died at (workflow_engine.run_task).
THEOREM DeliveryRestsOnEvidence == PipelineSpec => []EvidenceIsFresh
<1>1. FreshInv => EvidenceIsFresh
  BY DEF FreshInv
<1>2. QED
  BY <1>1, FreshInit, FreshStep, PTL DEF PipelineSpec

-----------------------------------------------------------------------------
(* Repairs.  After a failure its contract has been written, or its code is *)
(* one that nothing repairs; and an attempt is not run again once its      *)
(* failure was recorded.                                                   *)

Afterwards == {"failing", "repairing", "reviewing", "delivering"}

FaultIsRecorded ==
    /\ ~setting.writable => stage \notin Planned
    /\ stage \in Afterwards =>
          /\ job.status # "running"
          /\ fault.code \in Retryable => files.contract = job.attempt
    /\ tried = "repair" =>
          /\ stage \in {"reviewing", "delivering", "rest"}
          /\ fault.code \in Retryable /\ files.contract = job.attempt

RepairInv == Typed /\ FaultIsRecorded

\* The three tables agree on every code that is repaired.
LEMMA TablesAgree ==
  ASSUME NEW code \in Retryable
  PROVE  /\ Contract(code).retryable /\ ~Contract(code).human
         /\ Contract(code).advice = "auto_repair" /\ PlanFor(code) = "repair"
<1>1. /\ code \notin ProviderCodes /\ code # "provider_auth_error"
      /\ code # "latex_dependency_missing" /\ code \notin Blockers
  BY DEF Retryable, UnsafeCodes, PreviewCodes, VideoCodes, ProviderCodes, Blockers
<1>2. Contract(code) = [retryable |-> TRUE, advice |-> "auto_repair", human |-> FALSE]
  BY <1>1 DEF Contract
<1>3. QED
  BY <1>2 DEF PlanFor

LEMMA RepairInit == PipelineInit => RepairInv
BY FreshInit DEF FreshInv, PipelineInit, RepairInv, FaultIsRecorded, Afterwards, Planned, Scripted,
                 Checked, Filmed, Reported, Scored, Delivered

\* Steps of the run that leave the fault and the contract alone.
LEMMA RunGoesOn ==
  ASSUME RepairInv, Typed', UNCHANGED <<fault, tried, setting>>,
         stage \notin Afterwards \cup {"rest"}, stage' \notin Afterwards,
         setting.writable \/ stage' \notin Planned
  PROVE  RepairInv'
BY DEF RepairInv, FaultIsRecorded, Afterwards

LEMMA FailureIsRecorded ==
  ASSUME RepairInv, Typed', NEW code, NEW issues, stage \notin Afterwards \cup {"rest"},
         Fails(code, issues), setting.writable \/ code \notin Retryable
  PROVE  RepairInv'
<1> USE DEF RepairInv, Fails
<1>1. stage' = "failing" /\ tried' = tried /\ setting' = setting /\ tried # "repair"
  BY DEF FaultIsRecorded, Afterwards
<1>2. job' = [job EXCEPT !.status = "failed"] /\ fault'.code = code
  OBVIOUS
<1>3. job'.status = "failed" /\ job'.attempt = job.attempt
  BY <1>2 DEF Typed, JobRow
<1>4. code \in Retryable => files'.contract = job.attempt
  BY DEF Typed, FileNames
<1>5. QED
  BY <1>1, <1>2, <1>3, <1>4 DEF FaultIsRecorded, Afterwards, Planned, Scripted, Checked, Filmed, Reported, Scored, Delivered

LEMMA RunKeepsRepairs == RepairInv /\ Typed' /\ EngineStep => RepairInv'
<1> SUFFICES ASSUME RepairInv, Typed', EngineStep PROVE RepairInv'
  OBVIOUS
<1> USE DEF RepairInv
<1>1. stage \in Planned => setting.writable
  BY DEF FaultIsRecorded
<1>2. CASE Plan
  <2>1. CASE ~setting.writable
    <3>1. "runtime_policy_violation" \notin Retryable
      BY DEF Retryable, UnsafeCodes, PreviewCodes, VideoCodes
    <3>2. QED
      BY <1>2, <2>1, <3>1, FailureIsRecorded DEF Plan, Afterwards
  <2>2. CASE setting.writable
    BY <1>2, <2>2, RunGoesOn DEF Plan, Afterwards
  <2>3. QED
    BY <2>1, <2>2
<1>3. CASE Begin \/ GenerateScript \/ Render \/ RecordRender \/ ExtractPreviews \/ Validate
             \/ Judge \/ Complete \/ Close
  <2>1. /\ stage \notin Afterwards \cup {"rest"} /\ stage' \notin Afterwards
        /\ UNCHANGED <<fault, tried, setting>>
        /\ stage \in Planned \/ stage' \notin Planned
    BY <1>3 DEF Begin, GenerateScript, Render, RecordRender, ExtractPreviews, Validate, Judge,
                Complete, Close, Afterwards, Planned, Scripted, Checked, Filmed, Reported, Scored, Delivered
  <2>2. QED
    BY <1>1, <2>1, RunGoesOn
<1>4. CASE Preflight \/ StaticCheck
  <2>1. stage \in {"preflight", "static"} /\ setting.writable
    BY <1>1, <1>4 DEF Preflight, StaticCheck, Planned, Scripted
  <2>2. \/ \E code, issues : Fails(code, issues)
        \/ UNCHANGED <<fault, tried, setting>> /\ stage' \in {"generating", "rendering"}
    BY <1>4 DEF Preflight, StaticCheck
  <2>3. QED
    BY <2>1, <2>2, RunGoesOn, FailureIsRecorded DEF Afterwards
<1>5. CASE ProviderFails \/ RenderFails \/ ValidationFails
  <2>1. stage \in {"generating", "rendering", "validating"} /\ setting.writable
    BY <1>1, <1>5 DEF ProviderFails, RenderFails, ValidationFails, Planned, Scripted, Checked, Filmed
  <2>2. \E code, issues : Fails(code, issues)
    BY <1>5 DEF ProviderFails, RenderFails, ValidationFails
  <2>3. QED
    BY <2>1, <2>2, FailureIsRecorded DEF Afterwards
<1>6. CASE InfraFails
  <2>1. "infra_error" \notin Retryable
    BY DEF Retryable, UnsafeCodes, PreviewCodes, VideoCodes
  <2>2. QED
    BY <1>6, <2>1, FailureIsRecorded DEF InfraFails, Afterwards
<1>7. CASE OpenRepair \/ RecordFailure \/ Handed \/ Degrade
  <2>1. /\ stage \in Afterwards /\ UNCHANGED <<job, files, fault, setting>>
        /\ stage' \in Afterwards \cup {"rest"}
        /\ tried' = "repair" => /\ tried = "repair"
                                /\ stage' \in {"reviewing", "delivering", "rest"} \/ OpenRepair
    BY <1>7 DEF OpenRepair, RecordFailure, Handed, Degrade, Afterwards
  <2>2. OpenRepair => tried # "repair"
    BY DEF OpenRepair, FaultIsRecorded
  <2>3. QED
    BY <2>1, <2>2 DEF FaultIsRecorded, Afterwards, Planned, Scripted, Checked, Filmed, Reported, Scored, Delivered
<1>8. CASE Repair
  <2>1. /\ stage = "repairing" /\ stage' = "reviewing" /\ UNCHANGED <<job, files, fault, setting>>
        /\ tried' = "repair" => fault.code \in Retryable
    BY <1>8 DEF Repair, Repairable
  <2>2. QED
    BY <2>1 DEF FaultIsRecorded, Afterwards, Planned, Scripted, Checked, Filmed, Reported, Scored, Delivered
<1>9. CASE DeliverEmergency \/ GiveUp
  BY <1>9 DEF DeliverEmergency, GiveUp, FaultIsRecorded, Afterwards, Planned, Scripted, Checked, Filmed, Reported, Scored, Delivered
<1>10. QED
  BY <1>2, <1>3, <1>4, <1>5, <1>6, <1>7, <1>8, <1>9 DEF EngineStep

LEMMA RepairStep == RepairInv /\ Typed' /\ [PipelineNext]_pipelineVars => RepairInv'
<1> SUFFICES ASSUME RepairInv, Typed', [PipelineNext]_pipelineVars PROVE RepairInv'
  OBVIOUS
<1> USE DEF RepairInv
<1>1. CASE EngineStep
  BY <1>1, RunKeepsRepairs
<1>2. CASE Crash
  <2>1. /\ UNCHANGED <<fault, files, tried, setting>> /\ stage # "rest"
        /\ \/ job.status = "running" /\ stage' = "start"
           \/ job' = job /\ stage' = "rest"
    BY <1>2 DEF Crash
  <2>2. job.status = "running" => tried # "repair"
    BY <1>2 DEF Crash, FaultIsRecorded, Afterwards
  <2>3. QED
    BY <2>1, <2>2 DEF FaultIsRecorded, Afterwards, Planned, Scripted, Checked, Filmed, Reported, Scored, Delivered
<1>3. CASE UNCHANGED <<job, stage, fault, files, tried, setting>>
  BY <1>3 DEF FaultIsRecorded
<1>4. QED
  BY <1>1, <1>2, <1>3 DEF PipelineNext, Sweep, CloseRun, SweepEnds, pipelineVars

\* Whatever fails, and however often the run died before, a repair is scheduled only for
\* a code that the failure contract written for this attempt calls retryable and advises to
\* repair, and for which the recovery plan asks for no human (auto_repair_service.py,
\* failure_contract.py and recovery_policy_service.py).
THEOREM RepairsAsContracted == PipelineSpec => []RepairFollowsContract
<1>1. RepairInv => RepairFollowsContract
  BY TablesAgree DEF RepairInv, FaultIsRecorded, RepairFollowsContract
<1>2. FreshInv => Typed
  BY DEF FreshInv
<1>3. QED
  BY <1>1, <1>2, FreshInit, FreshStep, RepairInit, RepairStep, PTL DEF PipelineSpec

-----------------------------------------------------------------------------
(* The runs of the roles.  A role that was opened is closed by the stage     *)
(* that ends its work or by the failure that ends the attempt; the watchdog  *)
(* only closes; and once a task has ended it stays so.                       *)

EndOfWatch == {"away", "sweep", "swept"}

\* The stages after the work of the generator.
Quiet == {"preview", "validating", "judging", "judged", "closing"}

OpenIn(state) == {r \in Roles : state[r] \in Open}

RolesTyped == roles = [r \in Roles |-> roles[r]]

\* Which roles are shown at work at each stage.
StageCloses ==
    /\ stage \in Planned => roles["planner"] \notin Open
    /\ stage \in Quiet => roles["generator"] \notin Open
    /\ stage \in Afterwards =>
          /\ fault.at # "planning" => roles["planner"] \notin Open
          /\ fault.at \notin {"planning", "preflight"} => roles["generator"] \notin Open
    /\ stage = "delivering" => roles["reviewer"] \notin Open /\ roles["repairer"] \notin Open

\* A sweep that began when nothing ran any more has still to close what is open.
SweepCloses ==
    /\ watch.at \in EndOfWatch
    /\ watch.at = "sweep" =>
          /\ watch = [at |-> "sweep", todo |-> watch.todo, ended |-> watch.ended, quiet |-> watch.quiet]
          /\ watch.quiet = TRUE => stage = "rest"
          /\ watch.quiet = TRUE /\ watch.ended = TRUE => OpenIn(roles) \subseteq watch.todo
    /\ watch.at = "swept" => stage = "rest" /\ OpenIn(roles) = {}

CloseInv == Typed /\ RolesTyped /\ StageCloses /\ SweepCloses

LEMMA StagesApart ==
  /\ "rest" \notin Planned \cup Quiet \cup Afterwards \cup GeneratorPhases
  /\ Planned \cap Afterwards = {}
  /\ {"start", "planning"} \cap (Planned \cup Quiet \cup Afterwards) = {}
  /\ Quiet \cup GeneratorPhases \cup {"preflight"} = Planned
BY DEF Planned, Scripted, Checked, Filmed, Reported, Scored, Delivered, Quiet, Afterwards,
       GeneratorPhases

LEMMA CloseInit == PipelineInit => CloseInv
<1> SUFFICES ASSUME PipelineInit PROVE CloseInv
  OBVIOUS
<1>1. Typed
  BY FreshInit DEF FreshInv
<1>2. RolesTyped
  BY DEF PipelineInit, RolesTyped
<1>3. stage = "start" /\ watch.at = "away"
  BY DEF PipelineInit
<1>4. StageCloses /\ SweepCloses
  BY <1>3, StagesApart DEF StageCloses, SweepCloses, EndOfWatch, Afterwards
<1>5. QED
  BY <1>1, <1>2, <1>4 DEF CloseInv

\* A role that is given a status, with what becomes of the others.
LEMMA MarkedRole ==
  ASSUME RolesTyped, NEW role \in Roles, NEW status, Mark(role, status)
  PROVE  /\ RolesTyped' /\ roles'[role] = status
         /\ \A r \in Roles \ {role} : roles'[r] = roles[r]
BY DEF RolesTyped, Mark

\* The engine's steps, which are taken before the stage of rest.
LEMMA WatchWaits ==
  ASSUME SweepCloses, stage # "rest", UNCHANGED watch
  PROVE  SweepCloses'
BY DEF SweepCloses

LEMMA FailureCloses ==
  ASSUME CloseInv, NEW code, NEW issues, stage \in Planned \cup {"planning"}, Fails(code, issues)
  PROVE  RolesTyped' /\ StageCloses' /\ SweepCloses'
<1>1. /\ stage' = "failing" /\ fault'.at = stage /\ UNCHANGED watch
      /\ IF stage \in GeneratorPhases THEN Mark("generator", "failed") ELSE UNCHANGED roles
  BY DEF Fails
<1>2. stage # "rest"
  BY StagesApart
<1>3. SweepCloses'
  BY <1>1, <1>2, WatchWaits DEF CloseInv
<1>4. /\ RolesTyped' /\ roles'["planner"] = roles["planner"]
      /\ IF stage \in GeneratorPhases THEN roles'["generator"] \notin Open
         ELSE roles'["generator"] = roles["generator"]
  BY <1>1, MarkedRole DEF CloseInv, Roles, Open, RolesTyped
<1>5. stage \in Planned => roles'["planner"] \notin Open
  BY <1>4 DEF CloseInv, StageCloses
<1>6. stage \notin {"planning", "preflight"} => roles'["generator"] \notin Open
  BY <1>4, StagesApart DEF CloseInv, StageCloses
<1>7. StageCloses'
  BY <1>1, <1>5, <1>6, StagesApart DEF StageCloses, Afterwards
<1>8. QED
  BY <1>3, <1>4, <1>7

\* The stages that go on.
LEMMA RunCloses ==
  ASSUME CloseInv,
         Begin \/ Plan \/ Preflight \/ GenerateScript \/ StaticCheck \/ Render \/ RecordRender
           \/ ExtractPreviews \/ Validate \/ Judge \/ Complete \/ Close
  PROVE  RolesTyped' /\ StageCloses' /\ SweepCloses'
<1> USE DEF Planned, Scripted, Checked, Filmed, Reported, Scored, Delivered, Quiet, Afterwards
<1>1. RolesTyped /\ StageCloses /\ SweepCloses
  BY DEF CloseInv
<1>2. ASSUME stage # "rest", stage' \in Stages \ Afterwards, UNCHANGED watch, RolesTyped',
             stage' \in Planned => roles'["planner"] \notin Open,
             stage' \in Quiet => roles'["generator"] \notin Open
      PROVE  RolesTyped' /\ StageCloses' /\ SweepCloses'
  BY <1>1, <1>2, WatchWaits DEF StageCloses
<1>3. ASSUME NEW role \in Roles, NEW status, Mark(role, status)
      PROVE  /\ RolesTyped' /\ roles'[role] = status
             /\ \A r \in Roles \ {role} : roles'[r] = roles[r]
  BY <1>1, <1>3, MarkedRole
<1>4. CASE Begin
  <2>1. stage = "start" /\ stage' = "planning" /\ UNCHANGED watch /\ Mark("planner", "running")
    BY <1>4 DEF Begin
  <2>2. QED
    BY <1>2, <1>3, <2>1 DEF Roles, Stages
<1>5. CASE Plan
  <2>1. CASE ~ setting.writable
    BY <1>5, <2>1, FailureCloses DEF Plan
  <2>2. CASE setting.writable
    <3>1. /\ stage = "planning" /\ stage' = "preflight" /\ UNCHANGED watch
          /\ Mark("planner", "completed")
      BY <1>5, <2>2 DEF Plan
    <3>2. RolesTyped' /\ roles'["planner"] \notin Open
      BY <1>3, <3>1 DEF Roles, Open
    <3>3. QED
      BY <1>2, <3>1, <3>2 DEF Stages
  <2>3. QED
    BY <2>1, <2>2
<1>6. CASE Preflight
  <2>1. CASE ~ GateAllows(setting.formula)
    BY <1>6, <2>1, FailureCloses DEF Preflight
  <2>2. CASE GateAllows(setting.formula)
    <3>1. /\ stage = "preflight" /\ stage' = "generating" /\ UNCHANGED watch
          /\ Mark("generator", "running")
      BY <1>6, <2>2 DEF Preflight
    <3>2. RolesTyped' /\ roles'["planner"] \notin Open
      BY <1>1, <1>3, <3>1 DEF Roles, StageCloses
    <3>3. QED
      BY <1>2, <3>1, <3>2 DEF Stages
  <2>3. QED
    BY <2>1, <2>2
<1>7. CASE GenerateScript \/ Render
  <2>1. /\ stage \in {"generating", "rendering"} /\ stage' \in {"static", "promoted"}
        /\ UNCHANGED <<watch, roles>>
    BY <1>7 DEF GenerateScript, Render
  <2>2. roles'["planner"] \notin Open
    BY <1>1, <2>1 DEF StageCloses
  <2>3. QED
    BY <1>1, <1>2, <2>1, <2>2 DEF Stages, RolesTyped
<1>8. CASE StaticCheck
  <2>1. CASE StaticIssues(script) # {}
    BY <1>8, <2>1, FailureCloses DEF StaticCheck
  <2>2. CASE StaticIssues(script) = {}
    <3>1. stage = "static" /\ stage' = "rendering" /\ UNCHANGED <<watch, roles>>
      BY <1>8, <2>2 DEF StaticCheck
    <3>2. roles'["planner"] \notin Open
      BY <1>1, <3>1 DEF StageCloses
    <3>3. QED
      BY <1>1, <1>2, <3>1, <3>2 DEF Stages, RolesTyped
  <2>3. QED
    BY <2>1, <2>2
<1>9. CASE RecordRender
  <2>1. /\ stage = "promoted" /\ stage' = "preview" /\ UNCHANGED watch
        /\ Mark("generator", "completed")
    BY <1>9 DEF RecordRender
  <2>2. RolesTyped' /\ roles'["planner"] \notin Open /\ roles'["generator"] \notin Open
    BY <1>1, <1>3, <2>1 DEF Roles, Open, StageCloses
  <2>3. QED
    BY <1>2, <2>1, <2>2 DEF Stages
<1>10. CASE ExtractPreviews \/ Validate \/ Judge \/ Complete \/ Close
  <2>1. /\ stage \in Quiet /\ stage' \in Quiet \cup {"rest"} /\ UNCHANGED watch
        /\ roles' = roles \/ Mark("reviewer", "running") \/ Mark("reviewer", "completed")
    BY <1>10 DEF ExtractPreviews, Validate, Judge, Complete, Close
  <2>2. /\ RolesTyped' /\ roles'["planner"] = roles["planner"]
        /\ roles'["generator"] = roles["generator"]
    BY <1>1, <1>3, <2>1 DEF Roles, RolesTyped
  <2>3. QED
    BY <1>1, <1>2, <2>1, <2>2 DEF Stages, StageCloses
<1>11. QED
  BY <1>4, <1>5, <1>6, <1>7, <1>8, <1>9, <1>10

LEMMA FailedRunCloses ==
  ASSUME CloseInv, ProviderFails \/ RenderFails \/ ValidationFails \/ InfraFails
  PROVE  RolesTyped' /\ StageCloses' /\ SweepCloses'
<1>1. stage \in Planned \cup {"planning"} /\ \E code, issues : Fails(code, issues)
  BY DEF ProviderFails, RenderFails, ValidationFails, InfraFails, Stages, Planned, Scripted,
         Checked, Filmed, Reported, Scored, Delivered
<1>2. QED
  BY <1>1, FailureCloses

LEMMA AfterwardsCloses ==
  ASSUME CloseInv, OpenRepair \/ Repair \/ RecordFailure \/ Handed \/ Degrade \/ DeliverEmergency \/ GiveUp
  PROVE  RolesTyped' /\ StageCloses' /\ SweepCloses'
<1> USE DEF Afterwards
<1>1. RolesTyped /\ StageCloses /\ SweepCloses
  BY DEF CloseInv
<1>2. /\ stage \in Afterwards /\ stage' \in (Afterwards \ {"failing"}) \cup {"rest"}
      /\ UNCHANGED <<watch, fault>>
  BY DEF OpenRepair, Repair, RecordFailure, Handed, Degrade, DeliverEmergency, GiveUp
<1>3. SweepCloses'
  BY <1>1, <1>2, WatchWaits
<1>4. /\ RolesTyped' /\ roles'["planner"] = roles["planner"]
      /\ roles'["generator"] = roles["generator"]
  <2>1. CASE OpenRepair
    BY <1>1, <2>1, MarkedRole DEF OpenRepair, Roles
  <2>2. CASE RecordFailure
    BY <1>1, <2>2 DEF RecordFailure, RolesTyped, Roles
  <2>3. CASE Repair \/ Handed \/ Degrade \/ DeliverEmergency \/ GiveUp
    BY <1>1, <2>3 DEF Repair, Handed, Degrade, DeliverEmergency, GiveUp, RolesTyped
  <2>4. QED
    BY <2>1, <2>2, <2>3
<1>5. stage' = "delivering" => roles'["reviewer"] \notin Open /\ roles'["repairer"] \notin Open
  <2>1. CASE RecordFailure
    BY <1>1, <2>1 DEF RecordFailure, RolesTyped, Roles, Open
  <2>2. CASE ~ RecordFailure
    BY <2>2 DEF OpenRepair, Repair, Handed, Degrade, DeliverEmergency, GiveUp
  <2>3. QED
    BY <2>1, <2>2
<1>6. StageCloses'
  BY <1>1, <1>2, <1>4, <1>5, StagesApart DEF StageCloses
<1>7. QED
  BY <1>3, <1>4, <1>6

LEMMA CrashCloses ==
  ASSUME CloseInv, Crash PROVE RolesTyped' /\ StageCloses' /\ SweepCloses'
<1>1. /\ stage # "rest" /\ stage' \in {"start", "rest"} /\ UNCHANGED <<watch, roles>>
  BY DEF Crash
<1>2. SweepCloses'
  BY <1>1, WatchWaits DEF CloseInv
<1>3. StageCloses'
  BY <1>1, StagesApart DEF StageCloses
<1>4. QED
  BY <1>1, <1>2, <1>3 DEF CloseInv, RolesTyped

\* The watchdog closes runs and opens none.
LEMMA WatchdogCloses ==
  ASSUME CloseInv, Sweep \/ (\E r \in Roles : CloseRun(r)) \/ SweepEnds
  PROVE  RolesTyped' /\ StageCloses' /\ SweepCloses'
<1>1. RolesTyped /\ StageCloses /\ SweepCloses
  BY DEF CloseInv
<1>2. CASE Sweep
  <2>1. /\ watch' = [at |-> "sweep", todo |-> OpenIn(roles), ended |-> Ended, quiet |-> stage = "rest"]
        /\ UNCHANGED <<stage, fault, roles>>
    BY <1>2 DEF Sweep, OpenIn
  <2>2. /\ watch'.at = "sweep" /\ watch'.todo = OpenIn(roles) /\ watch'.quiet = (stage = "rest")
        /\ watch' = [at |-> "sweep", todo |-> watch'.todo, ended |-> watch'.ended, quiet |-> watch'.quiet]
    BY <2>1
  <2>3. SweepCloses'
    BY <2>1, <2>2 DEF SweepCloses, EndOfWatch
  <2>4. QED
    BY <1>1, <2>1, <2>3 DEF StageCloses, RolesTyped
<1>3. ASSUME NEW r \in Roles, CloseRun(r) PROVE RolesTyped' /\ StageCloses' /\ SweepCloses'
  <2> DEFINE left == watch.todo \ {r}
  <2>1. /\ watch.at = "sweep" /\ watch' = [watch EXCEPT !.todo = left] /\ UNCHANGED <<stage, fault>>
        /\ IF watch.ended \/ Ended THEN Mark(r, "cancelled") ELSE UNCHANGED roles
    BY <1>3 DEF CloseRun
  <2>2. /\ RolesTyped' /\ \A d \in Roles : roles'[d] = roles[d] \/ roles'[d] \notin Open
        /\ watch.ended = TRUE => roles'[r] \notin Open
    BY <1>1, <2>1, MarkedRole DEF Open, RolesTyped
  <2>3. StageCloses'
    BY <1>1, <2>1, <2>2 DEF StageCloses, Roles
  <2>4. watch' = [at |-> "sweep", todo |-> left, ended |-> watch.ended, quiet |-> watch.quiet]
    <3>1. watch = [at |-> "sweep", todo |-> watch.todo, ended |-> watch.ended, quiet |-> watch.quiet]
      BY <1>1, <2>1 DEF SweepCloses
    <3> HIDE DEF left
    <3>2. QED
      BY <2>1, <3>1
  <2> HIDE DEF left
  <2>5. /\ watch'.at = "sweep" /\ watch'.todo = left /\ watch'.ended = watch.ended
        /\ watch'.quiet = watch.quiet
        /\ watch' = [at |-> "sweep", todo |-> watch'.todo, ended |-> watch'.ended, quiet |-> watch'.quiet]
    BY <2>4
  <2>6. watch.quiet = TRUE /\ watch.ended = TRUE => OpenIn(roles') \subseteq left
    BY <1>1, <2>1, <2>2 DEF SweepCloses, OpenIn, left
  <2>7. SweepCloses'
    BY <1>1, <2>1, <2>5, <2>6 DEF SweepCloses, EndOfWatch
  <2>8. QED
    BY <2>2, <2>3, <2>7
<1>4. CASE SweepEnds
  <2>1. /\ watch.at = "sweep" /\ watch.todo = {} /\ UNCHANGED <<stage, fault, roles>>
        /\ watch'.at = IF watch.quiet /\ watch.ended THEN "swept" ELSE "away"
    BY <1>4 DEF SweepEnds
  <2>2. watch'.at = "swept" => stage = "rest" /\ OpenIn(roles) = {}
    BY <1>1, <2>1 DEF SweepCloses
  <2>3. SweepCloses'
    BY <2>1, <2>2 DEF SweepCloses, EndOfWatch
  <2>4. QED
    BY <1>1, <2>1, <2>3 DEF StageCloses, RolesTyped
<1>5. QED
  BY <1>2, <1>3, <1>4

LEMMA CloseStep == CloseInv /\ Typed' /\ [PipelineNext]_pipelineVars => CloseInv'
<1> SUFFICES ASSUME CloseInv, Typed', [PipelineNext]_pipelineVars
             PROVE  RolesTyped' /\ StageCloses' /\ SweepCloses'
  BY DEF CloseInv
<1>1. CASE EngineStep
  BY <1>1, RunCloses, FailedRunCloses, AfterwardsCloses DEF EngineStep
<1>2. CASE Crash \/ Sweep \/ (\E r \in Roles : CloseRun(r)) \/ SweepEnds
  BY <1>2, CrashCloses, WatchdogCloses
<1>3. CASE UNCHANGED pipelineVars
  BY <1>3 DEF pipelineVars, CloseInv, RolesTyped, StageCloses, SweepCloses
<1>4. QED
  BY <1>1, <1>2, <1>3 DEF PipelineNext

\* When a failure has been handled to its end, no role but those whose phase was never left is
\* shown at work; and a sweep of the watchdog that begins when the task has ended and nothing
\* runs any more leaves none (delivery_case_service.py, case_reliability_service.py).
THEOREM RunsAreClosed == PipelineSpec => []RunsClose
<1>1. CloseInv => RunsClose
  <2> SUFFICES ASSUME CloseInv PROVE RunsClose
    OBVIOUS
  <2>1. LeftOpen = OpenIn(roles)
    BY DEF LeftOpen, OpenIn
  <2>2. stage = "rest" /\ watch.at = "swept" => LeftOpen = {}
    BY <2>1 DEF CloseInv, SweepCloses
  <2>3. stage = "delivering" =>
          /\ LeftOpen \subseteq {"planner", "generator"}
          /\ fault.at # "planning" => "planner" \notin LeftOpen
          /\ fault.at \notin {"planning", "preflight"} => "generator" \notin LeftOpen
    BY DEF CloseInv, StageCloses, LeftOpen, Roles, Afterwards
  <2>4. QED
    BY <2>2, <2>3 DEF RunsClose
<1>2. FreshInv => Typed
  BY DEF FreshInv
<1>3. QED
  BY <1>1, <1>2, FreshInit, FreshStep, CloseInit, CloseStep, PTL DEF PipelineSpec

-----------------------------------------------------------------------------
(* The two readings of a script.  They differ in one place: for the names    *)
(* that stand for a fragment the static check looks at every text of the     *)
(* selector and the diagnostics at the first one, so that they agree when a  *)
(* selector has one text, as get_part_by_tex takes.                          *)

OneText(s) ==
  \A x \in s.statements : StaticSelects(x.value) => DOMAIN TextsOf(x.value) \subseteq {1}

Unexplained == {"syntax_error", "infra_error", "forbidden_import", "forbidden_call", "missing_scene"}

LEMMA FragmentsAgree ==
  ASSUME NEW e
  PROVE  DiagnosedFragment(e) <=> StaticSelects(e) /\ StaticFirstBare(e)
BY DEF DiagnosedFragment, StaticSelects, StaticFirstBare

LEMMA AliasesAgree ==
  ASSUME NEW s, OneText(s)
  PROVE  StaticAliases(s) \subseteq DiagnosedAliases(s)
<1>1. ASSUME NEW x \in s.statements, StaticSelects(x.value),
             \E t \in Elements(TextsOf(x.value)) : IsBare(t)
      PROVE  DiagnosedFragment(x.value)
  <2>1. PICK i \in DOMAIN TextsOf(x.value) : IsBare(TextsOf(x.value)[i])
    BY <1>1 DEF Elements
  <2>2. i = 1
    BY <1>1, <2>1 DEF OneText
  <2>3. TextsOf(x.value) # << >>
    BY <2>1
  <2>4. QED
    BY <1>1, <2>1, <2>2, <2>3 DEF DiagnosedFragment, StaticSelects
<1>2. QED
  BY <1>1 DEF StaticAliases, DiagnosedAliases

\* Rule by rule: what the static check refuses in a call the diagnostics name.
LEMMA RulesAgree ==
  ASSUME NEW call, NEW strict, NEW lenient, strict \subseteq lenient
  PROVE  StaticRules(call, strict) \ Unexplained \subseteq DiagnosticRules(call, lenient)
<1> SUFFICES ASSUME NEW code \in StaticRules(call, strict), code \notin Unexplained
             PROVE  code \in DiagnosticRules(call, lenient)
  OBVIOUS
<1>1. ASSUME NEW e, \/ StaticSelects(e) /\ StaticFirstBare(e)
                    \/ e.kind = "name" /\ e.id \in strict
      PROVE  DiagnosedFragment(e) \/ (e.kind = "name" /\ e.id \in lenient)
  BY <1>1, FragmentsAgree
<1>2. \/ call.name = "TransformMatchingTex" /\ Len(call.args) > 0 /\ NumericSubscript(call.args[1])
           /\ code = "unsafe_transformmatchingtex_slice"
      \/ call.name = "play" /\ (\E e \in Elements(call.args) : PlainOperation(e))
           /\ code = "non_animation_play_argument"
      \/ call.name = "Tex" /\ (\E t \in Elements(TextsOf(call)) : IsMath(t)) /\ code = "tex_math_label"
      \/ call.name = "set_backstroke" /\ "width" \in call.keywords
           /\ code = "set_backstroke_width_keyword"
      \/ call.name = "SurroundingRectangle" /\ Len(call.args) > 0
           /\ (\/ StaticSelects(call.args[1]) /\ StaticFirstBare(call.args[1])
               \/ call.args[1].kind = "name" /\ call.args[1].id \in strict)
           /\ code = "unsafe_bare_tex_highlight"
      \/ call.name = "get_part_by_tex" /\ StaticFirstBare(call) /\ code = "unsafe_bare_tex_selection"
      \/ call.name = "get_area_under_graph" /\ code = "nonexistent_graph_area_getter"
      \/ call.name \in DiagonalCorners /\ code = "unsupported_diagonal_corner_getter"
      \/ call.name \in {"get_x_axis_labels", "get_y_axis_labels"}
           /\ code = "nonexistent_axis_label_getter"
  BY DEF StaticRules, When, Unexplained
<1>3. QED
  BY <1>1, <1>2 DEF DiagnosticRules, When, StaticFirstBare

LEMMA RefusalsAgree ==
  ASSUME NEW s, OneText(s)
  PROVE  StaticIssues(s) \ Unexplained \subseteq Diagnostics(s)
<1>1. CASE ~ s.parses
  BY <1>1 DEF StaticIssues, Unexplained
<1>2. CASE s.parses
  <2> SUFFICES ASSUME NEW code \in StaticIssues(s), code \notin Unexplained
               PROVE  code \in Diagnostics(s)
    OBVIOUS
  <2>1. PICK call \in CallsOf(s) : code \in StaticRules(call, StaticAliases(s))
    BY <1>2 DEF StaticIssues, When, Unexplained
  <2>2. code \in DiagnosticRules(call, DiagnosedAliases(s))
    BY <2>1, AliasesAgree, RulesAgree
  <2>3. QED
    BY <1>2, <2>2 DEF Diagnostics
<1>3. QED
  BY <1>1, <1>2

ExplainInv == RefusalIsExplained /\ script \in Scripts \cup {NoScript}

\* What is refused when the script is checked was written in this attempt, and is explained.
LEMMA RefusalIsTold ==
  ASSUME \A s \in Scripts : OneText(s), FreshInv, script \in Scripts \cup {NoScript},
         NEW code, NEW issues, Fails(code, issues),
         stage = "static" => issues \in {StaticIssues(script), {"infra_error"}}
  PROVE  RefusalIsExplained'
<1>1. fault' = [code |-> code, at |-> stage, issues |-> issues,
                told |-> IF files.script = 0 THEN {} ELSE Diagnostics(script)]
  BY DEF Fails
<1>2. fault'.at = stage /\ fault'.issues = issues
  BY <1>1
<1>3. ASSUME stage = "static" PROVE issues \ Unexplained \subseteq fault'.told
  <2>1. files.script # 0
    BY <1>3 DEF FreshInv, StageHasFiles, Scripted
  <2>2. fault'.told = Diagnostics(script)
    BY <1>1, <2>1
  <2>3. OneText(script)
    BY DEF NoScript, OneText
  <2>4. QED
    BY <1>3, <2>2, <2>3, RefusalsAgree DEF Unexplained
<1>4. QED
  BY <1>2, <1>3 DEF RefusalIsExplained, Unexplained

LEMMA ExplainStep ==
  ASSUME \A s \in Scripts : OneText(s), FreshInv, ExplainInv, [PipelineNext]_pipelineVars
  PROVE  ExplainInv'
<1>1. script' \in Scripts \cup {NoScript}
  <2>1. GenerateScript \/ UNCHANGED script
    BY DEF PipelineNext, EngineStep, Begin, Plan, Preflight, ProviderFails, StaticCheck, RenderFails,
           Render, RecordRender, ExtractPreviews, ValidationFails, Validate, Judge, Complete, Close,
           InfraFails, OpenRepair, Repair, RecordFailure, Handed, Degrade, DeliverEmergency, GiveUp,
           Crash, Sweep, CloseRun, SweepEnds, Fails, pipelineVars
  <2>2. QED
    BY <2>1 DEF GenerateScript, ExplainInv
<1>2. \/ UNCHANGED fault
      \/ \E code, issues : /\ Fails(code, issues)
                           /\ stage = "static" => issues \in {StaticIssues(script), {"infra_error"}}
  BY DEF PipelineNext, EngineStep, Begin, Plan, Preflight, ProviderFails, GenerateScript, StaticCheck,
         RenderFails, Render, RecordRender, ExtractPreviews, ValidationFails, Validate, Judge, Complete,
         Close, InfraFails, OpenRepair, Repair, RecordFailure, Handed, Degrade, DeliverEmergency, GiveUp,
         Crash, Sweep, CloseRun, SweepEnds, pipelineVars
<1>3. RefusalIsExplained'
  <2>1. CASE UNCHANGED fault
    BY <2>1 DEF ExplainInv, RefusalIsExplained
  <2>2. QED
    BY <1>2, <2>1, RefusalIsTold DEF ExplainInv
<1>4. QED
  BY <1>1, <1>3 DEF ExplainInv

\* As long as the selectors in the scripts have one text, the diagnostics given to a repair
\* name whatever the static check refused, but for the codes that have no diagnostic of their
\* name (static_check.py, script_diagnostics.py).
THEOREM RefusalsAreExplained ==
  ASSUME \A s \in Scripts : OneText(s)
  PROVE  PipelineSpec => []RefusalIsExplained
<1>1. PipelineInit => ExplainInv
  BY DEF PipelineInit, ExplainInv, RefusalIsExplained, NoFault
<1>2. FreshInv /\ ExplainInv /\ [PipelineNext]_pipelineVars => ExplainInv'
  BY ExplainStep
<1>3. ExplainInv => RefusalIsExplained
  BY DEF ExplainInv
<1>4. QED
  BY <1>1, <1>2, <1>3, FreshInit, FreshStep, PTL DEF PipelineSpec

-----------------------------------------------------------------------------
(* The shapes of the pipeline's rows.  What a file carries is the number of *)
(* an attempt, and an attempt is begun only below the bound.                *)

ClosedRuns == {"none", "completed", "failed", "cancelled"}
RunsOfRoles == Open \cup ClosedRuns

Bounded ==
    /\ job.attempt <= MaxRuns
    /\ \A f \in FileNames : files[f] <= MaxRuns
    /\ \A r \in Roles : roles[r] \in RunsOfRoles
    /\ script \in Scripts \cup {NoScript}
    /\ tried \in {"none", "repair", "degraded"}

LEMMA BoundedInit == PipelineInit => Bounded
<1> SUFFICES ASSUME PipelineInit PROVE Bounded
  OBVIOUS
<1>1. job.attempt = 0 /\ 0 <= MaxRuns /\ \A f \in FileNames : files[f] = 0
  BY PipelineAssumption DEF PipelineInit, FileNames
<1>2. \A r \in Roles : roles[r] \in RunsOfRoles
  BY DEF PipelineInit, RunsOfRoles, Open, ClosedRuns
<1>3. script = NoScript /\ tried = "none"
  BY DEF PipelineInit
<1>4. QED
  BY <1>1, <1>2, <1>3 DEF Bounded

\* An attempt is counted when it begins, below the bound.
LEMMA AttemptsBounded ==
  ASSUME Typed, Bounded, [PipelineNext]_pipelineVars
  PROVE  job'.attempt <= MaxRuns
<1>1. CASE Begin
  BY <1>1, PipelineAssumption DEF Begin, Typed, JobRow
<1>2. \/ Begin
      \/ job' = job
      \/ job' = [job EXCEPT !.status = "failed"]
      \/ job' = [job EXCEPT !.status = "queued"]
      \/ job' = [job EXCEPT !.delivery = "failed"]
      \/ Complete \/ DeliverEmergency
  BY DEF PipelineNext, EngineStep, Plan, Preflight, ProviderFails, GenerateScript, StaticCheck,
         RenderFails, Render, RecordRender, ExtractPreviews, ValidationFails, Validate, Judge, Close,
         InfraFails, OpenRepair, Repair, RecordFailure, Handed, Degrade, GiveUp, Crash, Sweep, CloseRun,
         SweepEnds, Fails, pipelineVars
<1>3. ASSUME ~Begin PROVE job'.attempt = job.attempt
  BY <1>2, <1>3 DEF Complete, DeliverEmergency, Typed, JobRow
<1>4. QED
  BY <1>1, <1>3 DEF Bounded

\* A file is written with the number of the attempt that writes it.
LEMMA FilesBounded ==
  ASSUME Typed, Bounded, [PipelineNext]_pipelineVars
  PROVE  \A f \in FileNames : files'[f] <= MaxRuns
<1>1. \/ UNCHANGED files
      \/ \E f \in FileNames : files' = Written(f)
      \/ Render
      \/ files' = [files EXCEPT !.report = job.attempt, !.contract = job.attempt]
  BY DEF PipelineNext, EngineStep, Begin, Plan, Preflight, ProviderFails, GenerateScript, StaticCheck,
         RenderFails, RecordRender, ExtractPreviews, ValidationFails, Validate, Judge, Complete, Close,
         InfraFails, OpenRepair, Repair, RecordFailure, Handed, Degrade, DeliverEmergency, GiveUp, Crash,
         Sweep, CloseRun, SweepEnds, Fails, pipelineVars, FileNames
<1>2. \A f \in FileNames : files'[f] \in {files[f], job.attempt}
  <2>1. CASE Render
    BY <2>1 DEF Render, Typed
  <2>2. CASE ~Render
    BY <1>1, <2>2 DEF Written, Typed
  <2>3. QED
    BY <2>1, <2>2
<1>3. QED
  BY <1>2 DEF Bounded

LEMMA RolesBounded ==
  ASSUME RolesTyped, Bounded, [PipelineNext]_pipelineVars
  PROVE  \A r \in Roles : roles'[r] \in RunsOfRoles
<1>1. \/ UNCHANGED roles
      \/ \E role \in Roles, status \in {"running", "completed", "failed", "cancelled"} : Mark(role, status)
      \/ RecordFailure
  <2>1. ASSUME NEW code, NEW issues, Fails(code, issues)
        PROVE  UNCHANGED roles \/ Mark("generator", "failed")
    BY <2>1 DEF Fails
  <2>2. ASSUME NEW r \in Roles, CloseRun(r) PROVE UNCHANGED roles \/ Mark(r, "cancelled")
    BY <2>2 DEF CloseRun
  <2>3. CASE Plan \/ Preflight \/ ProviderFails \/ StaticCheck \/ RenderFails \/ ValidationFails \/ InfraFails
    BY <2>1, <2>3 DEF Plan, Preflight, ProviderFails, StaticCheck, RenderFails, ValidationFails, InfraFails, Roles
  <2>4. CASE Begin \/ RecordRender \/ ExtractPreviews \/ Close \/ OpenRepair
    BY <2>4 DEF Begin, RecordRender, ExtractPreviews, Close, OpenRepair, Roles
  <2>5. CASE GenerateScript \/ Render \/ Validate \/ Judge \/ Complete \/ Repair \/ Handed \/ Degrade
               \/ DeliverEmergency \/ GiveUp \/ Crash \/ Sweep \/ SweepEnds \/ UNCHANGED pipelineVars
    BY <2>5 DEF GenerateScript, Render, Validate, Judge, Complete, Repair, Handed, Degrade,
                DeliverEmergency, GiveUp, Crash, Sweep, SweepEnds, pipelineVars
  <2>6. QED
    BY <2>2, <2>3, <2>4, <2>5 DEF PipelineNext, EngineStep
<1>2. ASSUME NEW role \in Roles, NEW status \in {"running", "completed", "failed", "cancelled"},
             Mark(role, status)
      PROVE  \A r \in Roles : roles'[r] \in RunsOfRoles
  BY <1>2, MarkedRole DEF Bounded, RunsOfRoles, Open, ClosedRuns
<1>3. CASE RecordFailure
  <2>1. \A r \in Roles : roles'[r] \in {roles[r], "completed"}
    BY <1>3 DEF RecordFailure, RolesTyped
  <2>2. QED
    BY <2>1 DEF Bounded, RunsOfRoles, ClosedRuns
<1>4. QED
  BY <1>1, <1>2, <1>3 DEF Bounded

LEMMA BoundedStep ==
  ASSUME Typed, RolesTyped, Bounded, [PipelineNext]_pipelineVars
  PROVE  Bounded'
<1>1. script' \in Scripts \cup {NoScript}
  <2>1. GenerateScript \/ UNCHANGED script
    BY DEF PipelineNext, EngineStep, Begin, Plan, Preflight, ProviderFails, StaticCheck, RenderFails,
           Render, RecordRender, ExtractPreviews, ValidationFails, Validate, Judge, Complete, Close,
           InfraFails, OpenRepair, Repair, RecordFailure, Handed, Degrade, DeliverEmergency, GiveUp,
           Crash, Sweep, CloseRun, SweepEnds, Fails, pipelineVars
  <2>2. QED
    BY <2>1 DEF GenerateScript, Bounded
<1>2. tried' \in {"none", "repair", "degraded"}
  <2>1. Repair \/ Degrade \/ UNCHANGED tried
    BY DEF PipelineNext, EngineStep, Begin, Plan, Preflight, ProviderFails, GenerateScript, StaticCheck,
           RenderFails, Render, RecordRender, ExtractPreviews, ValidationFails, Validate, Judge, Complete,
           Close, InfraFails, OpenRepair, RecordFailure, Handed, DeliverEmergency, GiveUp,
           Crash, Sweep, CloseRun, SweepEnds, Fails, pipelineVars
  <2>2. QED
    BY <2>1 DEF Repair, Degrade, Bounded
<1>3. QED
  BY <1>1, <1>2, AttemptsBounded, FilesBounded, RolesBounded DEF Bounded

LEMMA BoundedTypes ==
  ASSUME Typed, RolesTyped, Bounded, watch.at \in EndOfWatch
  PROVE  PipelineTypeOK
<1>1. /\ job.status \in {"queued", "running", "completed", "failed"}
      /\ job.delivery \in {"pending", "delivered", "failed"}
      /\ job.mode \in {"none", "reviewed", "emergency"}
      /\ job.attempt \in 0 .. MaxRuns /\ stage \in Stages
  BY PipelineAssumption DEF Typed, JobRow, Bounded
<1>2. roles \in [Roles -> Open \cup {"none", "completed", "failed", "cancelled"}]
  BY DEF RolesTyped, Bounded, RunsOfRoles, ClosedRuns
<1>3. \A f \in DOMAIN files : files[f] \in 0 .. MaxRuns
  BY PipelineAssumption DEF Typed, Bounded
<1>4. QED
  BY <1>1, <1>2, <1>3 DEF PipelineTypeOK, Bounded, EndOfWatch

\* The task's row, the runs of its roles and the attempts that wrote its files have the shapes
\* their code writes, through failures, repairs, crashes and sweeps (workflow_engine.py,
\* delivery_case_service.py).
THEOREM PipelineTypesHold == PipelineSpec => []PipelineTypeOK
<1>1. FreshInv => Typed
  BY DEF FreshInv
<1>2. CloseInv => RolesTyped /\ watch.at \in EndOfWatch
  BY DEF CloseInv, SweepCloses
<1>3. Typed /\ RolesTyped /\ Bounded /\ [PipelineNext]_pipelineVars => Bounded'
  BY BoundedStep
<1>4. Typed /\ RolesTyped /\ Bounded /\ watch.at \in EndOfWatch => PipelineTypeOK
  BY BoundedTypes
<1>5. QED
  BY <1>1, <1>2, <1>3, <1>4, FreshInit, FreshStep, CloseInit, CloseStep, BoundedInit, PTL
     DEF PipelineSpec

-----------------------------------------------------------------------------
(* The video of the script.  Rendering keeps a video that is already where   *)
(* it would promote its own, so it is the script's own where none was left   *)
(* by an earlier attempt; the run RunPipeline_stalevideo shows one that was. *)

\* A script is written only where no attempt has left a video.
NoVideoLeft == [][GenerateScript => files.video = 0]_pipelineVars

VideoInv ==
    /\ stage \in {"static", "rendering"} => files.video = 0
    /\ stage \in Filmed => files.video = job.attempt
    /\ RenderIsPublished

LEMMA VideoIsOfScript ==
  ASSUME FreshInv, FreshInv', VideoInv, [PipelineNext]_pipelineVars, GenerateScript => files.video = 0
  PROVE  VideoInv'
<1>1. files \in [FileNames -> Nat] /\ job \in JobRow
  BY DEF FreshInv, Typed
<1>2. ASSUME stage' \in {"static", "rendering"} PROVE files'.video = 0
  <2>1. GenerateScript \/ (stage \in {"static", "rendering"} /\ UNCHANGED files)
    BY <1>2 DEF PipelineNext, EngineStep, Begin, Plan, Preflight, ProviderFails, StaticCheck, RenderFails,
         Render, RecordRender, ExtractPreviews, ValidationFails, Validate, Judge, Complete, Close,
         InfraFails, OpenRepair, Repair, RecordFailure, Handed, Degrade, DeliverEmergency, GiveUp, Crash,
         Sweep, CloseRun, SweepEnds, Fails, pipelineVars
  <2>2. QED
    BY <1>1, <2>1 DEF GenerateScript, Written, FileNames, VideoInv
<1>3. ASSUME stage' \in Filmed PROVE files'.video = job'.attempt
  <2>1. \/ Render \/ Complete
        \/ stage \in Filmed /\ UNCHANGED job /\ (UNCHANGED files \/ \E f \in FileNames \ {"video"} : files' = Written(f))
    BY <1>3 DEF PipelineNext, EngineStep, Begin, Plan, Preflight, ProviderFails, StaticCheck, RenderFails,
         GenerateScript, RecordRender, ExtractPreviews, ValidationFails, Validate, Judge, Close, Filmed,
         Reported, Scored, Delivered, FileNames,
         InfraFails, OpenRepair, Repair, RecordFailure, Handed, Degrade, DeliverEmergency, GiveUp, Crash,
         Sweep, CloseRun, SweepEnds, Fails, pipelineVars
  <2>2. CASE Render
    BY <1>1, <2>2 DEF Render, VideoInv, FileNames
  <2>3. CASE Complete
    BY <1>1, <2>3 DEF Complete, VideoInv, JobRow, Filmed, Reported, Scored
  <2>4. QED
    BY <1>1, <2>1, <2>2, <2>3 DEF VideoInv, Written, FileNames
<1>4. RenderIsPublished'
  <2> SUFFICES ASSUME Reviewed' PROVE files'.video = files'.script
    BY DEF RenderIsPublished, Reviewed
  <2>1. CASE stage' = "closing"
    BY <1>3, <2>1 DEF FreshInv, StageHasFiles, Filmed, Reported, Scored, Delivered, Checked, Scripted
  <2>2. CASE stage' = "rest"
    <3>1. \/ UNCHANGED <<job, files>>
          \/ DeliverEmergency \/ GiveUp
      BY <2>2 DEF PipelineNext, EngineStep, Begin, Plan, Preflight, ProviderFails, StaticCheck, RenderFails,
         GenerateScript, Render, RecordRender, ExtractPreviews, ValidationFails, Validate, Judge, Complete,
         Close, InfraFails, OpenRepair, Repair, RecordFailure, Handed, Degrade, Crash,
         Sweep, CloseRun, SweepEnds, Fails, pipelineVars
    <3>2. UNCHANGED <<job, files>>
      BY <1>1, <3>1 DEF DeliverEmergency, GiveUp, Reviewed, JobRow, FreshInv, ReviewedAtEnd
    <3>3. QED
      BY <3>2 DEF VideoInv, RenderIsPublished, Reviewed
  <2>3. QED
    BY <2>1, <2>2 DEF FreshInv, ReviewedAtEnd
<1>5. QED
  BY <1>2, <1>3, <1>4 DEF VideoInv

\* Where no attempt writes a script beside a video an earlier one left, the video of a
\* delivery that passed review is the one rendered from its script (manim_runner.py,
\* _locate_output_video): what was left in the directory is all the finding turns on.
THEOREM CleanRunPublishesItsRender == PipelineSpec /\ NoVideoLeft => []RenderIsPublished
<1>1. PipelineInit => VideoInv
  BY DEF PipelineInit, VideoInv, RenderIsPublished, Filmed, Reported, Scored, Delivered
<1>2. FreshInv /\ FreshInv' /\ VideoInv /\ [PipelineNext]_pipelineVars
        /\ [GenerateScript => files.video = 0]_pipelineVars => VideoInv'
  <2> SUFFICES ASSUME FreshInv, FreshInv', VideoInv, [PipelineNext]_pipelineVars,
                      [GenerateScript => files.video = 0]_pipelineVars
               PROVE  VideoInv'
    OBVIOUS
  <2>1. CASE UNCHANGED pipelineVars
    BY <2>1 DEF pipelineVars, VideoInv, RenderIsPublished
  <2>2. CASE GenerateScript => files.video = 0
    BY <2>2, VideoIsOfScript
  <2>3. QED
    BY <2>1, <2>2
<1>3. VideoInv => RenderIsPublished
  BY DEF VideoInv
<1>4. QED
  BY <1>1, <1>2, <1>3, FreshInit, FreshStep, PTL DEF PipelineSpec, NoVideoLeft
=============================================================================
