SPECIFICATION LlmSpec
CONSTANTS
  a = a  b = b  c = c  d = d  e = e  f = f  g = g  w1 = w1  shared = shared  other = other  hq = hq
  Tasks = {a, b, c, d, e, f, g}
  Procs = {w1}
  Worker <- MCWorker
  ProcOf <- MCProcOf
  Buckets = {shared, hq}
  BucketSeq <- MCReserved
  Slots <- MCFanSlots
  FirstSizes <- MCSized
  Unset = Unset
  MaxResets = 0
  MaxCrashes = 1
  Kind <- MCFanKinds
  Parent <- MCFanParents
  Streamed = {c}
  ModelPool <- MCFanPoolOf
  UtilityPool = shared
  BackgroundPool = shared
  Reserved = hq
  NoPool = NoPool
  HqConcurrency <- MCHq
  ChunkConcurrency = 1
INVARIANTS NoCircularWait BackendCap BackgroundStaysApart
