SPECIFICATION LlmSpec
CONSTANTS
  a = a  b = b  c = c  d = d  e = e  f = f  g = g  w1 = w1  shared = shared  other = other  hq = hq
  Tasks = {a, b, c}
  Procs = {w1}
  Worker <- MCWorker
  ProcOf <- MCProcOf
  Buckets = {shared, hq}
  BucketSeq <- MCReserved
  Slots <- MCRoomySlots
  FirstSizes <- MCSized
  Unset = Unset
  MaxResets = 0
  MaxCrashes = 0
  Kind <- MCMapKinds
  Parent <- MCMapParents
  Streamed = {}
  ModelPool <- MCOnShared
  UtilityPool = shared
  BackgroundPool = shared
  Reserved = hq
  NoPool = NoPool
  HqConcurrency <- MCHq
  ChunkConcurrency = 2
INVARIANTS TokensComeBack
