SPECIFICATION FairLlmSpec
CONSTANTS
  a = a  b = b  c = c  d = d  e = e  f = f  g = g  w1 = w1  shared = shared  other = other  hq = hq
  Tasks = {a, b, c, e, f}
  Procs = {w1}
  Worker <- MCWorker
  ProcOf <- MCProcOf
  Buckets = {shared, other, hq}
  BucketSeq <- MCPools
  Slots <- MCPoolSlots
  FirstSizes <- MCSized
  Unset = Unset
  MaxResets = 0
  MaxCrashes = 0
  Kind <- MCPoolKinds
  Parent <- MCPoolParents
  Streamed = {b}
  ModelPool <- MCPoolOf
  UtilityPool = other
  BackgroundPool = shared
  Reserved = hq
  NoPool = NoPool
  HqConcurrency <- MCHq
  ChunkConcurrency = 1
INVARIANTS LlmTypeOK NoCircularWait TokensComeBack
PROPERTIES Spec EveryRequestEnds
