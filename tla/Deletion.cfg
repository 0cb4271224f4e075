CONSTANTS
  asset = asset
  run = run
  frames = frames
  file = file
  Procs = {p1, p2}
  Resources = {asset, run}
  RunKind = {run}
  Artifacts = {frames}
  Refs = {file}
  Graphs <- MCGraphs
  MaxData = 2
SPECIFICATION Spec
INVARIANTS
  ErasedAfterCleanup
  CompleteLeavesNothing
PROPERTIES
  NoLateWrite
