------------------------------ MODULE MCServices ------------------------------
(***************************************************************************)
(* The services around the task queue, checked in one run.  They share no  *)
(* state with one another, so a behaviour runs one of them, which is       *)
(* chosen in its initial state, and leaves the others as they start.       *)
(***************************************************************************)
EXTENDS StrategyPromotion, AgentProfiles, AgentAccess, SessionMemory, VideoThread,
        ReviewWorkflow, PersistentMemory, RunPipeline, TLC

VARIABLE service

Services == {"suite", "strategies", "profiles", "access", "memory", "thread", "review",
             "memories", "pipeline"}

\* Two cases that count for quality and for repair; one cluster served by strategy 1.
AllTags == [c \in 1 .. CaseCount |-> {"quality", "repair"}]
OneCluster == <<"main", "main", "main">>
OneServes == <<"active", "candidate", "candidate">>

\* The one memory is promoted by one of two agents.
FirstAgents == [m \in Records |-> "agent1"]

\* A thread of the API process and one of the worker.
TwoProcesses == "w1" :> "api" @@ "w2" :> "worker"

\* Scripts: a sound one with what only the diagnostics remark on, a formula, and scripts
\* that break the rules directly, behind a name and in arguments of arguments.
Script(parses, scene, imports, statements) ==
    [parses |-> parses, scene |-> scene, imports |-> imports, statements |-> statements]
Does(value) == {Statement("none", value)}
ControlSequence == Text("control sequence")
PartOf(texts) == MethodCall("nothing", "get_part_by_tex", texts)
Box(e) == FunctionCall("SurroundingRectangle", <<e>>, {})
Play(e) == MethodCall("nothing", "play", <<e>>)
Unsupported ==
    {Statement("none", e) : e \in {
        MethodCall("nothing", "get_area_under_graph", << >>),
        MethodCall("nothing", "get_top_left", << >>),
        MethodCall("nothing", "get_x_axis_labels", << >>),
        FunctionCall("Tex", <<Text("words"), Text("label")>>, {}),
        FunctionCall("set_backstroke", << >>, {"width"}),
        FunctionCall("eval", <<Text("words")>>, {}),
        Play(MethodCall("nothing", "set_color", << >>))}}
SomeScripts ==
    {Script(TRUE, TRUE, {}, s) : s \in {
        Does(Play(MethodCall("animate", "shift", << >>))) \cup Does(MethodCall("c2p", "shift", << >>))
          \cup Does(FunctionCall("get_v_line", << >>, {"color"})),
        Does(FunctionCall("MathTex", <<Text("label")>>, {})),
        Does(Play(FunctionCall("TransformMatchingTex", <<Path(<<"copy", "attribute", "number">>)>>, {})))
          \cup Does(Play(Box(PartOf(<<ControlSequence>>)))),
        {Statement("part", PartOf(<<ControlSequence>>)), Statement("none", Box(Name("part")))},
        Unsupported}}
    \cup {Script(FALSE, FALSE, {}, {}), Script(TRUE, FALSE, {"socket"}, {})}
SomeFaults == {"missing_output", "static_previews"}

\* A root task of plain words or of a formula without LaTeX, a child where LaTeX is there, and
\* a directory that may not be written.
SomeSetting ==
    IF service = "pipeline"
    THEN /\ setting.latex = setting.child
         /\ setting.formula => ~setting.latex
         /\ ~setting.writable => ~setting.latex /\ ~setting.formula
    ELSE ~(setting.writable \/ setting.latex \/ setting.child \/ setting.formula)

vars == <<service, suiteVars, strategyVars, profileVars, accessVars, memoryVars, threadVars,
          reviewVars, persistentVars, pipelineVars>>

Init ==
    /\ service \in Services
    /\ SuiteInit /\ StrategyInit /\ ProfilesInit /\ AccessInit /\ MemoryInit /\ ThreadInit
    /\ ReviewInit /\ PersistentInit /\ PipelineInit
    /\ SomeSetting

Rest(running) ==
    /\ UNCHANGED service
    /\ running # "suite" => UNCHANGED suiteVars
    /\ running # "strategies" => UNCHANGED strategyVars
    /\ running # "profiles" => UNCHANGED profileVars
    /\ running # "access" => UNCHANGED accessVars
    /\ running # "memory" => UNCHANGED memoryVars
    /\ running # "thread" => UNCHANGED threadVars
    /\ running # "review" => UNCHANGED reviewVars
    /\ running # "memories" => UNCHANGED persistentVars
    /\ running # "pipeline" => UNCHANGED pipelineVars

Next ==
    \/ service = "suite" /\ SuiteNext /\ Rest("suite")
    \/ service = "strategies" /\ StrategyNext /\ Rest("strategies")
    \/ service = "profiles" /\ ProfilesNext /\ Rest("profiles")
    \/ service = "access" /\ AccessNext /\ Rest("access")
    \/ service = "memory" /\ MemoryNext /\ Rest("memory")
    \/ service = "thread" /\ ThreadNext /\ Rest("thread")
    \/ service = "review" /\ ReviewNext /\ Rest("review")
    \/ service = "memories" /\ PersistentNext /\ Rest("memories")
    \/ service = "pipeline" /\ PipelineNext /\ Rest("pipeline")

Spec == Init /\ [][Next]_vars

-----------------------------------------------------------------------------
\* The rows, files and copies of the service that runs have the shapes its code writes.
TypeOK ==
    \/ service = "suite" /\ SuiteTypeOK
    \/ service = "strategies" /\ StrategyTypeOK
    \/ service = "profiles" /\ ProfilesTypeOK
    \/ service = "access" /\ AccessTypeOK
    \/ service = "memory" /\ MemoryTypeOK
    \/ service = "thread" /\ ThreadTypeOK
    \/ service = "review" /\ ReviewTypeOK
    \/ service = "memories" /\ PersistentTypeOK
    \/ service = "pipeline" /\ PipelineTypeOK
===============================================================================
