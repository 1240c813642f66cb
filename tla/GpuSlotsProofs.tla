--------------------------- MODULE GpuSlotsProofs ---------------------------
(***************************************************************************)
(* Proofs about GpuSlots for every number of tasks, processes, buckets and *)
(* slots: typing, the conservation of tokens and the cap that follows from *)
(* it, the sizing of the buckets a process serves from across a roll-out    *)
(* of other sizes, and that the queues implement the counting         *)
(* semaphore of SlotPool as long as no refill finds a token out.           *)
(***************************************************************************)
EXTENDS GpuSlots, FiniteSetTheorems, TLAPS

LEMMA SubsetOfTasksIsFinite ==
  ASSUME NEW S, S \subseteq Tasks
  PROVE  IsFiniteSet(S) /\ Cardinality(S) \in Nat
BY FS_Subset, FS_CardinalityType, GpuSlotsAssumption

LEMMA CountIsNat ==
  ASSUME NEW p \in Procs, NEW b \in Buckets
  PROVE  Slots[p][b] \in Nat /\ Slots[p][b] # Unset
<1>1. Slots[p] \in [Buckets -> Nat]
  BY GpuSlotsAssumption
<1> QED
  BY <1>1, GpuSlotsAssumption

LEMMA BucketAt ==
  ASSUME NEW i \in 1..Last
  PROVE  BucketSeq[i] \in Buckets
BY GpuSlotsAssumption DEF Last

LEMMA LastIsNat == Last \in Nat
BY GpuSlotsAssumption DEF Last

LEMMA NextBucket ==
  ASSUME NEW i \in 1..Last
  PROVE  (IF i = Last THEN 0 ELSE i + 1) \in 0..Last
BY LastIsNat

(* Every reachable state of the queues, the sentinels, the leases and the  *)
(* processes has the types the Redis keys and the Python objects have.     *)
THEOREM TypeCorrect == Spec => []TypeOK
<1>1. Init => TypeOK
  <2> SUFFICES ASSUME Init PROVE TypeOK
    OBVIOUS
  <2>1. PICK first \in FirstSizes :
          /\ sentinel = first
          /\ queue = [b \in Buckets |-> IF first[b] = Unset THEN 0 ELSE first[b]]
    BY DEF Init
  <2>2. first \in [Buckets -> Nat \cup {Unset}]
    BY GpuSlotsAssumption
  <2>3. queue \in [Buckets -> Nat] /\ sentinel \in [Buckets -> Nat \cup {Unset}]
    BY <2>1, <2>2
  <2> QED
    BY <2>3, LastIsNat DEF Init, TypeOK, LeaseState
<1>2. TypeOK /\ [Next]_gpuVars => TypeOK'
  <2> SUFFICES ASSUME TypeOK, [Next]_gpuVars PROVE TypeOK'
    OBVIOUS
  <2> USE DEF TypeOK
  <2>f. ASSUME NEW p \in Procs, NEW b \in Buckets, Fill(p, b)
        PROVE  /\ queue' \in [Buckets -> Nat]
               /\ sentinel' \in [Buckets -> Nat \cup {Unset}]
               /\ leaked' \in [Buckets -> Nat]
               /\ surplus' \in [Buckets -> Nat]
               /\ UNCHANGED <<ahead, lease>>
    <3>1. Cardinality(InUse(b)) \in Nat
      BY SubsetOfTasksIsFinite DEF InUse
    <3> QED
      BY <2>f, <3>1, CountIsNat DEF Fill
  <2>1. ASSUME NEW p \in Procs, StartProc(p) PROVE TypeOK'
    BY <2>1, LastIsNat DEF StartProc, redis
  <2>2. ASSUME NEW p \in Procs, InitRead(p) PROVE TypeOK'
    BY <2>2, LastIsNat DEF InitRead, redis
  <2>3. ASSUME NEW p \in Procs, InitFill(p) PROVE TypeOK'
    <3>1. BucketSeq[boot[p].at] \in Buckets
      BY <2>3, BucketAt DEF InitFill
    <3> QED
      BY <2>3, <2>f, <3>1, LastIsNat DEF InitFill
  <2>4. ASSUME NEW p \in Procs, ResetStart(p) PROVE TypeOK'
    BY <2>4, LastIsNat DEF ResetStart, redis
  <2>5. ASSUME NEW p \in Procs, ResetFill(p) PROVE TypeOK'
    <3>1. BucketSeq[resetAt[p]] \in Buckets
      BY <2>5, BucketAt DEF ResetFill
    <3>2. resetAt' \in [Procs -> 0..Last]
      <4>1. (IF resetAt[p] = Last THEN 0 ELSE resetAt[p] + 1) \in 0..Last
        <5>1. resetAt[p] \in 1..Last
          BY <2>5 DEF ResetFill
        <5> QED
          BY ONLY <5>1, NextBucket
      <4>2. resetAt' = [resetAt EXCEPT ![p] = IF resetAt[p] = Last THEN 0 ELSE resetAt[p] + 1]
        BY <2>5 DEF ResetFill
      <4> QED
        BY <4>1, <4>2
    <3>3. Fill(p, BucketSeq[resetAt[p]]) /\ UNCHANGED <<boot, resets, crashes>>
      BY <2>5 DEF ResetFill
    <3> QED
      BY <2>f, <3>1, <3>2, <3>3
  <2>6. ASSUME NEW p \in Procs, Crash(p) PROVE TypeOK'
    <3>1. \A b \in Buckets : Cardinality(InUse(b) \cap TasksOf(p)) \in Nat
      BY SubsetOfTasksIsFinite DEF InUse
    <3>2. leaked' \in [Buckets -> Nat]
      <4>1. \A b \in Buckets : leaked[b] + Cardinality(InUse(b) \cap TasksOf(p)) \in Nat
        <5>1. \A b \in Buckets : leaked[b] \in Nat
          OBVIOUS
        <5> QED
          BY ONLY <3>1, <5>1
      <4>2. leaked' = [b \in Buckets |-> leaked[b] + Cardinality(InUse(b) \cap TasksOf(p))]
        BY <2>6 DEF Crash
      <4> QED
        BY <4>1, <4>2
    <3>3. lease' \in [Buckets -> [Tasks -> LeaseState]]
      BY <2>6 DEF Crash, LeaseState
    <3>4. ahead' \in [Buckets -> [Tasks -> SUBSET Tasks]]
      BY <2>6 DEF Crash, Gone
    <3>5. boot' \in [Procs -> [at : 0..(Last + 1), stale : BOOLEAN]]
      BY <2>6, LastIsNat DEF Crash
    <3> QED
      BY <2>6, <3>2, <3>3, <3>4, <3>5, LastIsNat DEF Crash
  <2>7. ASSUME NEW t \in Tasks, NEW b \in Buckets, TokenStep(t, b) PROVE TypeOK'
    <3> USE DEF redis, boots
    <3>s. ASSUME NEW s \in LeaseState, SetLease(t, b, s)
          PROVE  lease' \in [Buckets -> [Tasks -> LeaseState]]
      BY <3>s DEF SetLease
    <3>t. {"none", "waiting", "popped", "ctx", "handle", "ctxPush", "taskPush"} \subseteq LeaseState
      BY DEF LeaseState
    <3>1. CASE Blpop(t, b)
      <4>1. ahead' \in [Buckets -> [Tasks -> SUBSET Tasks]]
        BY <3>1 DEF Blpop, Waiting
      <4> QED
        BY <3>1, <4>1, <3>s, <3>t DEF Blpop
    <3>w. ASSUME StopWaiting(t, b)
          PROVE  ahead' \in [Buckets -> [Tasks -> SUBSET Tasks]]
      BY <3>w DEF StopWaiting, Gone
    <3>2. CASE Serve(t, b)
      <4>1. queue' \in [Buckets -> Nat]
        BY <3>2 DEF Serve
      <4>2. lease' \in [Buckets -> [Tasks -> LeaseState]]
        BY <3>2, <3>s, <3>t DEF Serve
      <4>3. ahead' \in [Buckets -> [Tasks -> SUBSET Tasks]]
        BY <3>2, <3>w DEF Serve
      <4> QED
        BY <3>2, <4>1, <4>2, <4>3 DEF Serve
    <3>3. CASE Timeout(t, b)
      BY <3>3, <3>s, <3>t, <3>w DEF Timeout
    <3>4. CASE Receive(t, b, "ctx") \/ Receive(t, b, "handle")
      BY <3>4, <3>s, <3>t DEF Receive
    <3>5. CASE ExitCtx(t, b)
      BY <3>5, <3>s, <3>t DEF ExitCtx
    <3>6. CASE ReleaseHandle(t, b)
      BY <3>6, <3>s, <3>t DEF ReleaseHandle
    <3>7. CASE Push(t, b)
      BY <3>7, <3>s, <3>t DEF Push
    <3>8. CASE CancelWait(t, b)
      BY <3>8, <3>s, <3>t, <3>w DEF CancelWait
    <3>9. CASE CancelLoses(t, b)
      BY <3>9, <3>s, <3>t DEF CancelLoses
    <3>10. CASE PushFails(t, b)
      BY <3>10, <3>s, <3>t DEF PushFails
    <3> QED
      BY <2>7, <3>1, <3>2, <3>3, <3>4, <3>5, <3>6, <3>7, <3>8, <3>9, <3>10 DEF TokenStep
  <2>8. CASE UNCHANGED gpuVars
    BY <2>8 DEF gpuVars
  <2> QED
    BY <2>1, <2>2, <2>3, <2>4, <2>5, <2>6, <2>7, <2>8 DEF Next, ProcStep
<1> QED
  BY <1>1, <1>2, PTL DEF Spec
-----------------------------------------------------------------------------
(* Moving one lease moves one task in or out of one bucket's set of holders. *)
LEMMA LeaseMoves ==
  ASSUME TypeOK, NEW t \in Tasks, NEW b \in Buckets, NEW s \in LeaseState,
         SetLease(t, b, s)
  PROVE  /\ \A c \in Buckets \ {b} : InUse(c)' = InUse(c)
         /\ s \in HoldsToken => InUse(b)' = InUse(b) \cup {t}
         /\ s \notin HoldsToken => InUse(b)' = InUse(b) \ {t}
BY DEF TypeOK, SetLease, InUse

LEMMA HolderCount ==
  ASSUME TypeOK, NEW t \in Tasks, NEW b \in Buckets
  PROVE  /\ Cardinality(InUse(b)) \in Nat
         /\ t \notin InUse(b) =>
              Cardinality(InUse(b) \cup {t}) = Cardinality(InUse(b)) + 1
         /\ t \in InUse(b) =>
              Cardinality(InUse(b) \ {t}) = Cardinality(InUse(b)) - 1
<1>1. InUse(b) \subseteq Tasks
  BY DEF InUse
<1>2. IsFiniteSet(InUse(b)) /\ Cardinality(InUse(b)) \in Nat
  BY <1>1, SubsetOfTasksIsFinite
<1>3. t \notin InUse(b) => Cardinality(InUse(b) \cup {t}) = Cardinality(InUse(b)) + 1
  BY <1>2, FS_AddElement
<1>4. t \in InUse(b) => Cardinality(InUse(b) \ {t}) = Cardinality(InUse(b)) - 1
  BY <1>2, FS_RemoveElement
<1> QED
  BY <1>2, <1>3, <1>4

(* The ledger of one bucket, the conjunct of Conservation. *)
Balanced(b) ==
  queue[b] + Cardinality(InUse(b)) + leaked[b] = Filled(b) + surplus[b]

LEMMA FillBalances ==
  ASSUME TypeOK, Conservation, NEW p \in Procs, NEW b \in Buckets, Fill(p, b)
  PROVE  Conservation'
<1> SUFFICES ASSUME NEW c \in Buckets PROVE Balanced(c)'
  BY DEF Conservation, Balanced
<1>1. InUse(c)' = InUse(c)
  BY DEF Fill, InUse
<1>2. Cardinality(InUse(c)) \in Nat
  BY SubsetOfTasksIsFinite DEF InUse
<1>3. Slots[p][b] \in Nat
  BY GpuSlotsAssumption
<1>4. CASE c = b
  <2>1. queue'[c] = Slots[p][c] /\ leaked'[c] = 0 /\ sentinel'[c] = Slots[p][c]
        /\ surplus'[c] = Cardinality(InUse(c))
    BY <1>4 DEF Fill, TypeOK
  <2>2. Slots[p][c] # Unset
    BY <1>3, <1>4, GpuSlotsAssumption
  <2> QED
    BY <1>1, <1>2, <1>3, <1>4, <2>1, <2>2 DEF Balanced, Filled
<1>5. CASE c # b
  <2>1. /\ queue'[c] = queue[c] /\ leaked'[c] = leaked[c]
        /\ sentinel'[c] = sentinel[c] /\ surplus'[c] = surplus[c]
    BY <1>5 DEF Fill, TypeOK
  <2> QED
    BY <1>1, <2>1 DEF Balanced, Filled, Conservation
<1> QED
  BY <1>4, <1>5

LEMMA CrashBalances ==
  ASSUME TypeOK, Conservation, NEW p \in Procs, Crash(p)
  PROVE  Conservation'
<1> SUFFICES ASSUME NEW b \in Buckets PROVE Balanced(b)'
  BY DEF Conservation, Balanced
<1>1. InUse(b)' = InUse(b) \ TasksOf(p)
  BY DEF Crash, InUse, TasksOf, HoldsToken
<1>2. InUse(b) \subseteq Tasks /\ TasksOf(p) \subseteq Tasks
  BY DEF InUse, TasksOf
<1>3. /\ Cardinality(InUse(b)) \in Nat
      /\ Cardinality(InUse(b) \cap TasksOf(p)) \in Nat
      /\ Cardinality(InUse(b) \ TasksOf(p)) \in Nat
      /\ IsFiniteSet(InUse(b)) /\ IsFiniteSet(TasksOf(p))
  BY <1>2, SubsetOfTasksIsFinite
<1>4. Cardinality(InUse(b) \ TasksOf(p))
        = Cardinality(InUse(b)) - Cardinality(InUse(b) \cap TasksOf(p))
  BY <1>3, FS_Difference
<1>5. leaked'[b] = leaked[b] + Cardinality(InUse(b) \cap TasksOf(p))
  BY DEF Crash
<1>6. queue'[b] = queue[b] /\ Filled(b)' = Filled(b) /\ surplus'[b] = surplus[b]
  BY DEF Crash, Filled
<1>7. queue[b] \in Nat /\ leaked[b] \in Nat
  BY DEF TypeOK
<1>8. Balanced(b)
  BY DEF Conservation, Balanced
<1>9. Cardinality(InUse(b)') = Cardinality(InUse(b)) - Cardinality(InUse(b) \cap TasksOf(p))
  BY <1>1, <1>4
<1> QED
  BY <1>3, <1>5, <1>6, <1>7, <1>8, <1>9 DEF Balanced

(* A step of one lease balances if what it adds to the list and to the      *)
(* losses is what it takes from the holders.                                *)
LEMMA LeaseStepBalances ==
  ASSUME TypeOK, Conservation, NEW t \in Tasks, NEW b \in Buckets,
         NEW s \in LeaseState, SetLease(t, b, s),
         UNCHANGED <<sentinel, surplus>>,
         \A c \in Buckets \ {b} : queue'[c] = queue[c] /\ leaked'[c] = leaked[c],
         queue'[b] \in Nat, leaked'[b] \in Nat,
         LET before == IF lease[b][t] \in HoldsToken THEN 1 ELSE 0
             after  == IF s \in HoldsToken THEN 1 ELSE 0
         IN  queue'[b] + leaked'[b] + after = queue[b] + leaked[b] + before
  PROVE  Conservation'
<1> SUFFICES ASSUME NEW c \in Buckets PROVE Balanced(c)'
  BY DEF Conservation, Balanced
<1>1. Filled(c)' = Filled(c) /\ surplus'[c] = surplus[c]
  BY DEF Filled
<1>2. Balanced(c)
  BY DEF Conservation, Balanced
<1>3. CASE c # b
  <2>1. InUse(c)' = InUse(c)
    BY <1>3, LeaseMoves
  <2> QED
    BY <1>1, <1>2, <1>3, <2>1 DEF Balanced
<1>4. CASE c = b
  <2>1. queue[b] \in Nat /\ leaked[b] \in Nat
    BY DEF TypeOK
  <2>2. Cardinality(InUse(b)) \in Nat
    BY HolderCount
  <2>3. t \in InUse(b) <=> lease[b][t] \in HoldsToken
    BY DEF InUse
  <2>4. CASE s \in HoldsToken /\ lease[b][t] \in HoldsToken
    <3>1. InUse(b)' = InUse(b)
      <4>1. InUse(b)' = InUse(b) \cup {t}
        BY <2>4, LeaseMoves
      <4> QED
        BY <2>3, <2>4, <4>1
    <3> QED
      BY <1>1, <1>2, <1>4, <2>1, <2>2, <2>4, <3>1 DEF Balanced
  <2>5. CASE s \in HoldsToken /\ lease[b][t] \notin HoldsToken
    <3>1. InUse(b)' = InUse(b) \cup {t}
      BY <2>5, LeaseMoves
    <3>2. Cardinality(InUse(b)') = Cardinality(InUse(b)) + 1
      BY <2>3, <2>5, <3>1, HolderCount
    <3> QED
      BY <1>1, <1>2, <1>4, <2>1, <2>2, <2>5, <3>2 DEF Balanced
  <2>6. CASE s \notin HoldsToken /\ lease[b][t] \in HoldsToken
    <3>1. InUse(b)' = InUse(b) \ {t}
      BY <2>6, LeaseMoves
    <3>2. Cardinality(InUse(b)') = Cardinality(InUse(b)) - 1
      BY <2>3, <2>6, <3>1, HolderCount
    <3> QED
      BY <1>1, <1>2, <1>4, <2>1, <2>2, <2>6, <3>2 DEF Balanced
  <2>7. CASE s \notin HoldsToken /\ lease[b][t] \notin HoldsToken
    <3>1. InUse(b)' = InUse(b)
      <4>1. InUse(b)' = InUse(b) \ {t}
        BY <2>7, LeaseMoves
      <4> QED
        BY <2>3, <2>7, <4>1
    <3> QED
      BY <1>1, <1>2, <1>4, <2>1, <2>2, <2>7, <3>1 DEF Balanced
  <2> QED
    BY <2>4, <2>5, <2>6, <2>7
<1> QED
  BY <1>3, <1>4

LEMMA TokenStepBalances ==
  ASSUME TypeOK, Conservation, NEW t \in Tasks, NEW b \in Buckets,
         TokenStep(t, b)
  PROVE  Conservation'
<1> USE DEF redis, boots
<1>t. /\ queue[b] \in Nat /\ leaked[b] \in Nat
      /\ queue \in [Buckets -> Nat] /\ leaked \in [Buckets -> Nat]
  BY DEF TypeOK
<1>s. {"none", "waiting", "popped", "ctx", "handle", "ctxPush", "taskPush"} \subseteq LeaseState
  BY DEF LeaseState
<1>1. CASE Blpop(t, b)
  BY <1>1, <1>t, <1>s, LeaseStepBalances DEF Blpop, HoldsToken
<1>2. CASE Serve(t, b)
  <2>1. /\ queue'[b] = queue[b] - 1 /\ queue'[b] \in Nat
        /\ \A c \in Buckets \ {b} : queue'[c] = queue[c]
    BY <1>2, <1>t DEF Serve
  <2> QED
    BY <1>2, <1>t, <1>s, <2>1, LeaseStepBalances DEF Serve, HoldsToken
<1>3. CASE Timeout(t, b)
  BY <1>3, <1>t, <1>s, LeaseStepBalances DEF Timeout, HoldsToken
<1>4. CASE Receive(t, b, "ctx")
  BY <1>4, <1>t, <1>s, LeaseStepBalances DEF Receive, HoldsToken
<1>5. CASE Receive(t, b, "handle")
  BY <1>5, <1>t, <1>s, LeaseStepBalances DEF Receive, HoldsToken
<1>6. CASE ExitCtx(t, b)
  BY <1>6, <1>t, <1>s, LeaseStepBalances DEF ExitCtx, HoldsToken
<1>7. CASE ReleaseHandle(t, b)
  <2>1. CASE lease[b][t] = "handle"
    BY <1>7, <2>1, <1>t, <1>s, LeaseStepBalances DEF ReleaseHandle, HoldsToken
  <2>2. CASE lease[b][t] # "handle"
    BY <1>7, <2>2 DEF ReleaseHandle, Conservation, InUse, Filled
  <2> QED
    BY <2>1, <2>2
<1>8. CASE Push(t, b)
  <2>1. /\ queue'[b] = queue[b] + 1 /\ queue'[b] \in Nat
        /\ \A c \in Buckets \ {b} : queue'[c] = queue[c]
    BY <1>8, <1>t DEF Push
  <2> QED
    BY <1>8, <1>t, <1>s, <2>1, LeaseStepBalances DEF Push, HoldsToken
<1>9. CASE CancelWait(t, b)
  BY <1>9, <1>t, <1>s, LeaseStepBalances DEF CancelWait, HoldsToken
<1>10. CASE CancelLoses(t, b)
  <2>1. /\ leaked'[b] = leaked[b] + 1 /\ leaked'[b] \in Nat
        /\ \A c \in Buckets \ {b} : leaked'[c] = leaked[c]
    BY <1>10, <1>t DEF CancelLoses
  <2> QED
    BY <1>10, <1>t, <1>s, <2>1, LeaseStepBalances DEF CancelLoses, HoldsToken
<1>11. CASE PushFails(t, b)
  <2>1. /\ leaked'[b] = leaked[b] + 1 /\ leaked'[b] \in Nat
        /\ \A c \in Buckets \ {b} : leaked'[c] = leaked[c]
    BY <1>11, <1>t DEF PushFails
  <2> QED
    BY <1>11, <1>t, <1>s, <2>1, LeaseStepBalances DEF PushFails, HoldsToken
<1> QED
  BY <1>1, <1>2, <1>3, <1>4, <1>5, <1>6, <1>7, <1>8, <1>9, <1>10, <1>11 DEF TokenStep

(* No step creates or destroys a token unnoticed: the list, the tokens out *)
(* and the tokens lost always add up to what the list was filled with plus *)
(* what was out at that moment.                                            *)
THEOREM TokensConserved == Spec => []Conservation
<1>1. Init => Conservation
  <2> SUFFICES ASSUME Init, NEW b \in Buckets PROVE Balanced(b)
    BY DEF Conservation, Balanced
  <2>1. InUse(b) = {} /\ leaked[b] = 0 /\ surplus[b] = 0
    BY DEF Init, InUse, HoldsToken
  <2>2. Cardinality(InUse(b)) = 0
    BY <2>1, FS_EmptySet
  <2>3. queue[b] = Filled(b)
    BY DEF Init, Filled
  <2>4. Filled(b) \in Nat
    BY GpuSlotsAssumption DEF Init, Filled
  <2> QED
    BY <2>1, <2>2, <2>3, <2>4 DEF Balanced
<1>2. TypeOK /\ Conservation /\ [Next]_gpuVars => Conservation'
  <2> SUFFICES ASSUME TypeOK, Conservation, [Next]_gpuVars PROVE Conservation'
    OBVIOUS
  <2>1. ASSUME NEW p \in Procs, ProcStep(p) PROVE Conservation'
    <3>1. CASE StartProc(p) \/ InitRead(p) \/ ResetStart(p)
      BY <3>1 DEF StartProc, InitRead, ResetStart, redis, Conservation, InUse, Filled
    <3>2. CASE InitFill(p)
      <4>1. BucketSeq[boot[p].at] \in Buckets /\ Fill(p, BucketSeq[boot[p].at])
        BY <3>2, BucketAt DEF InitFill
      <4> QED
        BY <4>1, FillBalances
    <3>3. CASE ResetFill(p)
      <4>1. BucketSeq[resetAt[p]] \in Buckets /\ Fill(p, BucketSeq[resetAt[p]])
        BY <3>3, BucketAt DEF ResetFill
      <4> QED
        BY <4>1, FillBalances
    <3>4. CASE Crash(p)
      BY <3>4, CrashBalances
    <3> QED
      BY <2>1, <3>1, <3>2, <3>3, <3>4 DEF ProcStep
  <2>2. CASE UNCHANGED gpuVars
    BY <2>2 DEF gpuVars, Conservation, InUse, Filled
  <2> QED
    BY <2>1, <2>2, TokenStepBalances DEF Next
<1> QED
  BY <1>1, <1>2, TypeCorrect, PTL DEF Spec

(* A bucket whose last refill found no token out never has more calls in   *)
(* flight than it was sized for, however many processes share it.          *)
THEOREM CapIsGlobal == Spec => []GlobalCap
<1>1. TypeOK /\ Conservation => GlobalCap
  <2> SUFFICES ASSUME TypeOK, Conservation, NEW b \in Buckets, surplus[b] = 0
               PROVE  Cardinality(InUse(b)) + queue[b] <= Filled(b)
    BY DEF GlobalCap
  <2>1. queue[b] \in Nat /\ leaked[b] \in Nat /\ Filled(b) \in Nat
    BY DEF TypeOK, Filled
  <2>2. Cardinality(InUse(b)) \in Nat
    BY SubsetOfTasksIsFinite DEF InUse
  <2>3. queue[b] + Cardinality(InUse(b)) + leaked[b] = Filled(b) + surplus[b]
    BY DEF Conservation
  <2> QED
    BY <2>1, <2>2, <2>3
<1> QED
  BY <1>1, TypeCorrect, TokensConserved, PTL
-----------------------------------------------------------------------------
(* How far init_gpu's loop has got is what makes the sizes inductive.  A     *)
(* process is past a bucket once its loop has checked or rebuilt it.  Each   *)
(* bucket has a worker whose running incarnation, once past it, agrees with  *)
(* its size: the one that filled it last.                                    *)
Past(p, b) == \E i \in 1..Last : i < boot[p].at /\ BucketSeq[i] = b
AgreesOn(r, b) ==
  \A p \in Procs : Worker[p] = Worker[r] /\ Past(p, b) => sentinel[b] = Slots[p][b]
BucketSized(b) ==
  /\ (\E p \in Procs : Past(p, b)) => sentinel[b] \in SizesOf(b)
  /\ Procs # {} => \E r \in Procs : AgreesOn(r, b)
OneIncarnation ==
  \A p, q \in Procs : Worker[p] = Worker[q] /\ p # q /\ boot[p].at > 0 => boot[q].at = 0
ResetsRun == \A p \in Procs : resetAt[p] # 0 => boot[p].at > 0
BootProgress == OneIncarnation /\ ResetsRun /\ \A b \in Buckets : BucketSized(b)

LEMMA RunsAlone == TypeOK /\ OneIncarnation /\ ResetsRun /\ [Next]_gpuVars
                     => OneIncarnation' /\ ResetsRun'
<1> SUFFICES ASSUME TypeOK, OneIncarnation, ResetsRun, [Next]_gpuVars
             PROVE  OneIncarnation' /\ ResetsRun'
  OBVIOUS
<1>t. /\ \A p \in Procs : boot[p].at \in 0..(Last + 1)
      /\ boot \in [Procs -> [at : 0..(Last + 1), stale : BOOLEAN]]
      /\ resetAt \in [Procs -> 0..Last] /\ Last \in Nat
  BY LastIsNat DEF TypeOK
<1>1. ASSUME NEW p \in Procs, StartProc(p) PROVE OneIncarnation' /\ ResetsRun'
  <2>1. /\ \A q \in Procs : Worker[q] = Worker[p] => boot[q].at = 0
        /\ boot' = [boot EXCEPT ![p] = [at |-> 1, stale |-> FALSE]] /\ resetAt' = resetAt
    BY <1>1 DEF StartProc
  <2>2. boot'[p].at = 1 /\ \A q \in Procs \ {p} : boot'[q] = boot[q]
    BY <1>t, <2>1
  <2> QED
    BY <2>1, <2>2 DEF OneIncarnation, ResetsRun
<1>2. ASSUME NEW p \in Procs, InitRead(p) \/ InitFill(p)
      PROVE  OneIncarnation' /\ ResetsRun'
  <2>1. boot[p].at > 0 /\ resetAt' = resetAt
    BY <1>2, <1>t DEF InitRead, InitFill
  <2>2. boot'[p].at > 0 /\ \A q \in Procs \ {p} : boot'[q] = boot[q]
    BY <1>2, <1>t DEF InitRead, InitFill
  <2> QED
    BY <2>1, <2>2 DEF OneIncarnation, ResetsRun
<1>3. ASSUME NEW p \in Procs, ResetStart(p) \/ ResetFill(p)
      PROVE  OneIncarnation' /\ ResetsRun'
  <2>1. boot' = boot /\ \A q \in Procs \ {p} : resetAt'[q] = resetAt[q]
    BY <1>3, <1>t DEF ResetStart, ResetFill
  <2>2. boot[p].at > 0
    <3>1. CASE ResetStart(p)
      BY <3>1, <1>t DEF ResetStart, Up
    <3>2. CASE ResetFill(p)
      BY <3>2, <1>t DEF ResetFill, ResetsRun
    <3> QED
      BY <1>3, <3>1, <3>2
  <2> QED
    BY <2>1, <2>2 DEF OneIncarnation, ResetsRun
<1>4. ASSUME NEW p \in Procs, Crash(p) PROVE OneIncarnation' /\ ResetsRun'
  <2>1. /\ boot'[p].at = 0 /\ \A q \in Procs \ {p} : boot'[q] = boot[q]
        /\ resetAt'[p] = 0 /\ \A q \in Procs \ {p} : resetAt'[q] = resetAt[q]
    BY <1>4, <1>t DEF Crash
  <2> QED
    BY <2>1 DEF OneIncarnation, ResetsRun
<1>5. ASSUME UNCHANGED <<boot, resetAt>> PROVE OneIncarnation' /\ ResetsRun'
  BY <1>5 DEF OneIncarnation, ResetsRun
<1>6. ASSUME NEW t \in Tasks, NEW b \in Buckets, TokenStep(t, b)
      PROVE  UNCHANGED <<boot, resetAt>>
  BY <1>6 DEF TokenStep, Blpop, Serve, Timeout, Receive, ExitCtx, ReleaseHandle,
              Push, CancelWait, CancelLoses, PushFails, boots
<1>7. CASE UNCHANGED gpuVars
  BY <1>5, <1>7 DEF gpuVars
<1> QED
  BY <1>1, <1>2, <1>3, <1>4, <1>5, <1>6, <1>7 DEF Next, ProcStep

(* The process that has just checked or filled a bucket vouches for it. *)
LEMMA OwnerVouches ==
  ASSUME NEW p \in Procs, NEW c \in Buckets, OneIncarnation', boot'[p].at > 0,
         sentinel'[c] = Slots[p][c]
  PROVE  BucketSized(c)'
<1>1. sentinel'[c] \in SizesOf(c)
  BY DEF SizesOf
<1>2. ASSUME NEW q \in Procs, Worker[q] = Worker[p], Past(q, c)' PROVE q = p
  <2>1. boot'[q].at # 0
    BY <1>2, LastIsNat DEF Past, Last
  <2> QED
    BY <1>2, <2>1 DEF OneIncarnation
<1>3. AgreesOn(p, c)'
  BY <1>2 DEF AgreesOn
<1> QED
  BY <1>1, <1>3 DEF BucketSized, SizesOf

(* A bucket that keeps its size, and that nobody gets past, stays sized. *)
LEMMA UntouchedStaysSized ==
  ASSUME NEW c \in Buckets, BucketSized(c), sentinel'[c] = sentinel[c],
         \A q \in Procs : Past(q, c)' => Past(q, c)
  PROVE  BucketSized(c)'
<1>1. ASSUME NEW r \in Procs, AgreesOn(r, c) PROVE AgreesOn(r, c)'
  BY <1>1 DEF AgreesOn
<1> QED
  BY <1>1 DEF BucketSized, SizesOf

LEMMA FillSizes ==
  ASSUME TypeOK, OneIncarnation', NEW p \in Procs, NEW b \in Buckets, Fill(p, b),
         boot'[p].at > 0, NEW c \in Buckets, BucketSized(c),
         c # b => \A q \in Procs : Past(q, c)' => Past(q, c)
  PROVE  BucketSized(c)'
<1>1. CASE c = b
  <2>1. sentinel'[c] = Slots[p][c]
    BY <1>1 DEF Fill, TypeOK
  <2> QED
    BY <2>1, OwnerVouches
<1>2. CASE c # b
  <2>1. sentinel'[c] = sentinel[c]
    BY <1>2 DEF Fill, TypeOK
  <2> QED
    BY <1>2, <2>1, UntouchedStaysSized
<1> QED
  BY <1>1, <1>2

LEMMA BootInductive == TypeOK /\ BootProgress /\ [Next]_gpuVars => BootProgress'
<1> SUFFICES ASSUME TypeOK, BootProgress, [Next]_gpuVars, NEW c \in Buckets
             PROVE  BucketSized(c)'
  BY RunsAlone DEF BootProgress
<1>o. OneIncarnation' /\ BucketSized(c)
  BY RunsAlone DEF BootProgress
<1>t. /\ \A q \in Procs : boot[q].at \in 0..(Last + 1)
      /\ boot \in [Procs -> [at : 0..(Last + 1), stale : BOOLEAN]] /\ Last \in Nat
  BY LastIsNat DEF TypeOK
<1>s. Last' = Last
  BY DEF Last
<1>1. ASSUME NEW p \in Procs, StartProc(p) PROVE BucketSized(c)'
  <2>1. boot' = [boot EXCEPT ![p] = [at |-> 1, stale |-> FALSE]] /\ sentinel' = sentinel
    BY <1>1 DEF StartProc, redis
  <2>2. boot'[p].at = 1 /\ \A q \in Procs \ {p} : boot'[q] = boot[q]
    BY <1>t, <2>1
  <2>3. ~Past(p, c)'
    BY <1>s, <1>t, <2>2 DEF Past
  <2>4. \A q \in Procs : Past(q, c)' => Past(q, c)
    BY <1>s, <2>2, <2>3 DEF Past
  <2> QED
    BY <1>o, <2>1, <2>4, UntouchedStaysSized
<1>2. ASSUME NEW p \in Procs, InitRead(p) PROVE BucketSized(c)'
  <2> DEFINE b == BucketSeq[boot[p].at]
  <2>1. sentinel' = sentinel /\ boot[p].at \in 1..Last /\ b \in Buckets
    BY <1>2, BucketAt DEF InitRead, redis
  <2>2. \A q \in Procs \ {p} : boot'[q] = boot[q]
    BY <1>2, <1>t DEF InitRead
  <2>3. CASE sentinel[b] = Slots[p][b] /\ c = b
    <3>1. boot'[p].at = boot[p].at + 1
      BY <1>2, <1>t, <2>3 DEF InitRead
    <3>2. boot'[p].at > 0
      BY <1>t, <3>1
    <3> QED
      BY <1>o, <2>1, <2>3, <3>2, OwnerVouches
  <2>4. CASE sentinel[b] = Slots[p][b] /\ c # b
    <3>1. boot'[p].at = boot[p].at + 1
      BY <1>2, <1>t, <2>4 DEF InitRead
    <3>2. ASSUME NEW i \in 1..Last, i < boot'[p].at, BucketSeq[i] = c
          PROVE  i < boot[p].at
      BY <1>t, <2>1, <2>4, <3>1, <3>2
    <3>3. \A q \in Procs : Past(q, c)' => Past(q, c)
      BY <1>s, <2>2, <3>2 DEF Past
    <3> QED
      BY <1>o, <2>1, <3>3, UntouchedStaysSized
  <2>5. CASE sentinel[b] # Slots[p][b]
    <3>1. boot'[p].at = boot[p].at
      BY <1>2, <1>t, <2>5 DEF InitRead
    <3>2. \A q \in Procs : Past(q, c)' => Past(q, c)
      BY <1>s, <2>2, <3>1 DEF Past
    <3> QED
      BY <1>o, <2>1, <3>2, UntouchedStaysSized
  <2> QED
    BY <2>3, <2>4, <2>5
<1>3. ASSUME NEW p \in Procs, InitFill(p) PROVE BucketSized(c)'
  <2> DEFINE b == BucketSeq[boot[p].at]
  <2>1. boot[p].at \in 1..Last /\ b \in Buckets /\ Fill(p, b)
    BY <1>3, BucketAt DEF InitFill
  <2>2. /\ boot'[p].at = boot[p].at + 1
        /\ \A q \in Procs \ {p} : boot'[q] = boot[q]
    BY <1>3, <1>t DEF InitFill
  <2>3. boot'[p].at > 0
    BY <1>t, <2>2
  <2>4. ASSUME c # b, NEW i \in 1..Last, i < boot'[p].at, BucketSeq[i] = c
        PROVE  i < boot[p].at
    BY <1>t, <2>1, <2>2, <2>4
  <2>5. c # b => \A q \in Procs : Past(q, c)' => Past(q, c)
    BY <1>s, <2>2, <2>4 DEF Past
  <2> HIDE DEF b
  <2> QED
    BY <1>o, <2>1, <2>3, <2>5, FillSizes
<1>4. ASSUME NEW p \in Procs, ResetFill(p) PROVE BucketSized(c)'
  <2> DEFINE b == BucketSeq[resetAt[p]]
  <2>1. b \in Buckets /\ Fill(p, b) /\ boot' = boot
    BY <1>4, BucketAt DEF ResetFill
  <2>2. boot[p].at > 0
    BY <1>4, LastIsNat DEF ResetFill, BootProgress, ResetsRun
  <2>3. \A q \in Procs : Past(q, c)' => Past(q, c)
    BY <1>s, <2>1 DEF Past
  <2> HIDE DEF b
  <2> QED
    BY <1>o, <2>1, <2>2, <2>3, FillSizes
<1>5. ASSUME NEW p \in Procs, Crash(p) PROVE BucketSized(c)'
  <2>1. sentinel' = sentinel /\ boot'[p].at = 0 /\ \A q \in Procs \ {p} : boot'[q] = boot[q]
    BY <1>5, <1>t DEF Crash
  <2>2. ~Past(p, c)'
    BY <1>s, <1>t, <2>1 DEF Past
  <2>3. \A q \in Procs : Past(q, c)' => Past(q, c)
    BY <1>s, <2>1, <2>2 DEF Past
  <2> QED
    BY <1>o, <2>1, <2>3, UntouchedStaysSized
<1>6. ASSUME UNCHANGED <<sentinel, boot>> PROVE BucketSized(c)'
  <2>1. \A q \in Procs : Past(q, c)' => Past(q, c)
    BY <1>s, <1>6 DEF Past
  <2> QED
    BY <1>o, <1>6, <2>1, UntouchedStaysSized
<1>7. ASSUME NEW p \in Procs, ResetStart(p) PROVE UNCHANGED <<sentinel, boot>>
  BY <1>7 DEF ResetStart, redis
<1>8. ASSUME NEW t \in Tasks, NEW b \in Buckets, TokenStep(t, b)
      PROVE  UNCHANGED <<sentinel, boot>>
  BY <1>8 DEF TokenStep, Blpop, Serve, Timeout, Receive, ExitCtx, ReleaseHandle,
              Push, CancelWait, CancelLoses, PushFails, redis, boots
<1>9. CASE UNCHANGED gpuVars
  BY <1>6, <1>9 DEF gpuVars
<1> QED
  BY <1>1, <1>2, <1>3, <1>4, <1>5, <1>6, <1>7, <1>8, <1>9 DEF Next, ProcStep

LEMMA BootProgressHolds == Spec => []BootProgress
<1>1. Init => BootProgress
  <2> SUFFICES ASSUME Init PROVE BootProgress
    OBVIOUS
  <2>1. \A p \in Procs : boot[p].at = 0 /\ resetAt[p] = 0
    BY DEF Init
  <2>2. \A p \in Procs, b \in Buckets : ~Past(p, b)
    BY <2>1, LastIsNat DEF Past
  <2>3. ASSUME NEW b \in Buckets PROVE BucketSized(b)
    BY <2>2 DEF BucketSized, AgreesOn
  <2> QED
    BY <2>1, <2>3 DEF BootProgress, OneIncarnation, ResetsRun
<1> QED
  BY <1>1, BootInductive, TypeCorrect, PTL DEF Spec

LEMMA ProgressGivesSize == TypeOK /\ BootProgress => ServesSizedBuckets
<1> SUFFICES ASSUME TypeOK, BootProgress, NEW b \in Buckets
             PROVE  /\ (\E p \in Procs : Up(p)) => sentinel[b] \in SizesOf(b)
                    /\ (Procs # {} /\ EveryWorkerServes) =>
                         \E p \in Procs : Up(p) /\ sentinel[b] = Slots[p][b]
  BY DEF ServesSizedBuckets
<1>1. PICK i \in 1..Last : b = BucketSeq[i]
  BY GpuSlotsAssumption DEF Last
<1>2. ASSUME NEW p \in Procs, Up(p) PROVE Past(p, b)
  <2>1. i < Last + 1
    BY LastIsNat
  <2> QED
    BY <1>1, <1>2, <2>1 DEF Past, Up
<1>3. BucketSized(b)
  BY DEF BootProgress
<1>4. ASSUME Procs # {}, EveryWorkerServes
      PROVE  \E p \in Procs : Up(p) /\ sentinel[b] = Slots[p][b]
  <2>1. PICK r \in Procs : AgreesOn(r, b)
    BY <1>3, <1>4 DEF BucketSized
  <2>2. PICK q \in Procs : Worker[q] = Worker[r] /\ Up(q)
    BY <1>4 DEF EveryWorkerServes
  <2> QED
    BY <1>2, <2>1, <2>2 DEF AgreesOn
<1> QED
  BY <1>2, <1>3, <1>4 DEF BucketSized

(* Once a process takes requests, every bucket has a size some process is    *)
(* configured with, and as soon as every worker serves, the size of one that *)
(* runs: after a roll-out of other counts none keeps a replaced one, and     *)
(* processes that agree leave each bucket with exactly the count they share. *)
THEOREM SizedWhenServing == Spec => []ServesSizedBuckets
BY ProgressGivesSize, BootProgressHolds, TypeCorrect, PTL
-----------------------------------------------------------------------------
LEMMA TokenStepMovesOne ==
  ASSUME TypeOK, NEW t \in Tasks, NEW b \in Buckets, TokenStep(t, b)
  PROVE  \E s \in LeaseState : SetLease(t, b, s)
<1>s. {"none", "waiting", "popped", "ctx", "handle", "ctxPush", "taskPush"} \subseteq LeaseState
  BY DEF LeaseState
<1>1. CASE ReleaseHandle(t, b) /\ UNCHANGED lease
  <2>1. lease[b][t] \in LeaseState /\ lease' = [lease EXCEPT ![b][t] = lease[b][t]]
    BY <1>1 DEF TypeOK
  <2> QED
    BY <2>1 DEF SetLease
<1>2. CASE ~(ReleaseHandle(t, b) /\ UNCHANGED lease)
  BY <1>2, <1>s DEF TokenStep, Blpop, Serve, Timeout, Receive, ExitCtx,
     ReleaseHandle, Push, CancelWait, CancelLoses, PushFails
<1> QED
  BY <1>1, <1>2
-----------------------------------------------------------------------------
(* The semaphore's step: a token is granted when the list is not empty. *)
PermitsMapped == [b \in Buckets |-> InUse(b)]
Limits == [b \in Buckets |-> Filled(b) + surplus[b]]

LEMMA SameCardinality == \A S : Pool!Cardinality(S) = Cardinality(S)
  BY Zenon DEF Pool!Cardinality, Cardinality, Pool!IsFiniteSet, IsFiniteSet

LEMMA TokenStepOfPool ==
  ASSUME TypeOK, Conservation, NEW t \in Tasks, NEW b \in Buckets, TokenStep(t, b)
  PROVE  Pool!Next \/ UNCHANGED <<PermitsMapped, Limits>>
<1>1. PICK s \in LeaseState : SetLease(t, b, s)
  BY TokenStepMovesOne
<1>2. /\ \A c \in Buckets \ {b} : InUse(c)' = InUse(c)
      /\ s \in HoldsToken => InUse(b)' = InUse(b) \cup {t}
      /\ s \notin HoldsToken => InUse(b)' = InUse(b) \ {t}
  BY <1>1, LeaseMoves
<1>3. UNCHANGED Limits
  <2>1. UNCHANGED <<sentinel, surplus>>
    BY DEF TokenStep, Blpop, Serve, Timeout, Receive, ExitCtx, ReleaseHandle, Push,
           CancelWait, CancelLoses, PushFails, redis, boots
  <2> QED
    BY <2>1 DEF Limits, Filled
<1>4. CASE s \notin HoldsToken \/ t \in InUse(b)
  <2>1. \A c \in Buckets : InUse(c)' \subseteq InUse(c)
    BY <1>2, <1>4
  <2>2. PermitsMapped' \in [Buckets -> SUBSET Tasks]
    BY DEF InUse, PermitsMapped
  <2> QED
    BY <1>3, <2>1, <2>2 DEF Pool!Next, Pool!GiveUp, PermitsMapped, Limits
<1>5. CASE s \in HoldsToken /\ t \notin InUse(b)
  <2>1. lease[b][t] \notin HoldsToken /\ lease'[b][t] \in HoldsToken
    BY <1>1, <1>5 DEF InUse, SetLease, TypeOK
  <2>2. Serve(t, b)
    BY <2>1 DEF TypeOK, TokenStep, Blpop, Timeout, Receive, ExitCtx, ReleaseHandle,
       Push, CancelWait, CancelLoses, PushFails, SetLease, HoldsToken
  <2>3. queue[b] \in Nat /\ queue[b] > 0 /\ leaked[b] \in Nat /\ surplus[b] \in Nat
        /\ Filled(b) \in Nat
    BY <2>2 DEF Serve, TypeOK, Filled
  <2>4. Cardinality(InUse(b)) \in Nat
    BY HolderCount
  <2>5. queue[b] + Cardinality(InUse(b)) + leaked[b] = Filled(b) + surplus[b]
    BY DEF Conservation
  <2>6. Cardinality(InUse(b)) < Filled(b) + surplus[b]
    BY ONLY <2>3, <2>4, <2>5
  <2>7. PermitsMapped' = [PermitsMapped EXCEPT ![b] = @ \cup {t}]
    BY <1>2, <1>5 DEF PermitsMapped
  <2>8. Pool!Cardinality(InUse(b)) = Cardinality(InUse(b))
    BY SameCardinality
  <2>9. Pool!Grant(t, b)
    BY <1>3, <1>5, <2>6, <2>7, <2>8 DEF Pool!Grant, PermitsMapped, Limits
  <2> QED
    BY <2>9 DEF Pool!Next
<1> QED
  BY <1>4, <1>5

LEMMA FillOfPool ==
  ASSUME TypeOK, NEW p \in Procs, NEW b \in Buckets, Fill(p, b)
  PROVE  Pool!Next
<1>1. UNCHANGED PermitsMapped
  BY DEF Fill, PermitsMapped, InUse
<1>2. Slots[p][b] \in Nat /\ Slots[p][b] \in SizesOf(b)
  BY GpuSlotsAssumption DEF SizesOf
<1>3. Filled(b)' = Slots[p][b] /\ surplus'[b] = Cardinality(InUse(b))
  BY <1>2, GpuSlotsAssumption DEF Fill, Filled, TypeOK
<1>4. \A c \in Buckets \ {b} : Filled(c)' = Filled(c) /\ surplus'[c] = surplus[c]
  BY DEF Fill, Filled, TypeOK
<1>5. Limits' = [Limits EXCEPT ![b] = Slots[p][b] + Cardinality(InUse(b))]
  BY <1>3, <1>4 DEF Limits
<1>6. Pool!Cardinality(InUse(b)) = Cardinality(InUse(b))
  BY SameCardinality
<1>7. Pool!Rebuild(b)
  BY <1>1, <1>2, <1>5, <1>6 DEF Pool!Rebuild, PermitsMapped, Limits
<1> QED
  BY <1>7 DEF Pool!Next

LEMMA CrashOfPool ==
  ASSUME NEW p \in Procs, Crash(p)
  PROVE  Pool!Next
<1>1. \A b \in Buckets : InUse(b)' \subseteq InUse(b)
  BY DEF Crash, InUse, HoldsToken
<1>2. PermitsMapped' \in [Buckets -> SUBSET Tasks]
  BY DEF InUse, PermitsMapped
<1>3. UNCHANGED Limits
  BY DEF Crash, Limits, Filled
<1> QED
  BY <1>1, <1>2, <1>3 DEF Pool!Next, Pool!GiveUp, PermitsMapped, Limits

(* The queues of any number of processes implement one semaphore: racing   *)
(* starts, resets, lost replies and crashes are all steps of SlotPool.     *)
THEOREM ImplementsPool == Spec => PoolSpec
<1>1. Init => Pool!Init
  <2> SUFFICES ASSUME Init PROVE Pool!Init
    OBVIOUS
  <2>1. PermitsMapped = [b \in Buckets |-> {}]
    BY DEF Init, InUse, HoldsToken, PermitsMapped
  <2>2. ASSUME NEW b \in Buckets PROVE Filled(b) + surplus[b] \in Nat
    <3>1. sentinel[b] \in Nat \cup {Unset} /\ surplus[b] = 0
      BY GpuSlotsAssumption DEF Init
    <3> QED
      BY <3>1 DEF Filled
  <2> QED
    BY <2>1, <2>2 DEF Pool!Init, PermitsMapped
<1>2. TypeOK /\ Conservation /\ [Next]_gpuVars => [Pool!Next]_<<PermitsMapped, Limits>>
  <2> SUFFICES ASSUME TypeOK, Conservation, [Next]_gpuVars
               PROVE  Pool!Next \/ UNCHANGED <<PermitsMapped, Limits>>
    OBVIOUS
  <2>1. ASSUME NEW p \in Procs, StartProc(p) \/ InitRead(p) \/ ResetStart(p)
        PROVE  UNCHANGED <<PermitsMapped, Limits>>
    BY <2>1 DEF StartProc, InitRead, ResetStart, PermitsMapped, Limits, InUse, Filled, redis
  <2>2. ASSUME NEW p \in Procs, InitFill(p) \/ ResetFill(p)
        PROVE  Pool!Next
    <3>1. PICK b \in Buckets : Fill(p, b)
      BY <2>2, BucketAt DEF InitFill, ResetFill
    <3> QED
      BY <3>1, FillOfPool
  <2>3. CASE UNCHANGED gpuVars
    BY <2>3 DEF gpuVars, InUse, Filled, PermitsMapped, Limits
  <2> QED
    BY <2>1, <2>2, <2>3, TokenStepOfPool, CrashOfPool DEF Next, ProcStep
<1> QED
  BY <1>1, <1>2, TypeCorrect, TokensConserved, PTL
     DEF Spec, PoolSpec, Pool!Spec, PermitsMapped, Limits
-----------------------------------------------------------------------------
(* GET /api/system/gpu never reports more slots in use than there are calls *)
(* in flight and tokens leaked, and reports exactly those when the last     *)
(* fill found no token out (get_gpu_status).                                *)
THEOREM StatusHonest == Spec => []StatusIsHonest
<1>1. TypeOK /\ Conservation => StatusIsHonest
  <2> SUFFICES ASSUME TypeOK, Conservation, NEW p \in Procs, NEW b \in Buckets,
                      sentinel[b] = Slots[p][b]
               PROVE  /\ SlotsInUse(p, b) <= Cardinality(InUse(b)) + leaked[b]
                      /\ surplus[b] = 0 => SlotsInUse(p, b) = Cardinality(InUse(b)) + leaked[b]
    BY DEF StatusIsHonest
  <2>1. /\ queue[b] \in Nat /\ leaked[b] \in Nat /\ surplus[b] \in Nat /\ Slots[p][b] \in Nat
        /\ Cardinality(InUse(b)) \in Nat
    BY SubsetOfTasksIsFinite, CountIsNat DEF TypeOK, InUse
  <2>2. Filled(b) = Slots[p][b]
    BY CountIsNat, GpuSlotsAssumption DEF Filled
  <2>3. queue[b] + Cardinality(InUse(b)) + leaked[b] = Slots[p][b] + surplus[b]
    BY <2>2 DEF Conservation
  <2> QED
    BY <2>1, <2>3 DEF SlotsInUse
<1> QED
  BY <1>1, TypeCorrect, TokensConserved, PTL
=============================================================================
