----------------------------- MODULE MCRunPipeline -----------------------------
\* One task and a language model that writes one sound script or another.
EXTENDS RunPipeline

PlainScript(name) ==
    [parses |-> TRUE, scene |-> TRUE, imports |-> {},
     statements |-> {Statement(name, FunctionCall("Circle", << >>, {}))}]
PlainScripts == {PlainScript("first"), PlainScript("second")}
===============================================================================
