SPECIFICATION Spec
CONSTANTS
  t1 = t1  t2 = t2  t3 = t3  w1 = w1  w2 = w2  n1 = n1  shared = shared  hq = hq
  Tasks = {t1, t3}
  Procs = {w1, n1, w2}
  Worker <- MCWorker
  ProcOf <- MCProcOf
  Buckets = {shared, hq}
  BucketSeq <- MCBucketSeq
  Slots <- MCSlots
  FirstSizes <- MCAnyStart
  Unset = Unset
  MaxResets = 1
  MaxCrashes = 1
INVARIANTS TypeOK Conservation GlobalCap ServesSizedBuckets StatusIsHonest
PROPERTIES PoolSpec
