SPECIFICATION Spec
CONSTANTS
  t1 = t1  t2 = t2  t3 = t3  w1 = w1  w2 = w2  n1 = n1  shared = shared  hq = hq
  Tasks = {t1, t2, t3}
  Procs = {w1, w2}
  Worker <- MCWorkers
  ProcOf <- MCProcOf2
  Buckets = {shared}
  BucketSeq <- MCOneBucket
  Slots <- MCSlots2
  FirstSizes <- MCFresh
  Unset = Unset
  MaxResets = 0
  MaxCrashes = 0
INVARIANTS CountsNotMultiplied
