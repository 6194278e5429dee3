SPECIFICATION PipelineSpec
CHECK_DEADLOCK FALSE
CONSTANTS
  Scripts <- PlainScripts
  VideoFaults = {}
  MinScore = 750
  MaxRuns = 2
INVARIANT RenderIsPublished
