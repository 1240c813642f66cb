------------------------------ MODULE GpuSlots ------------------------------
(***************************************************************************)
(* The GPU slot queues of utils/concurrency.py: one Redis list of tokens   *)
(* per bucket, a sentinel key per bucket, and the three ways a token moves *)
(* (BLPOP, RPUSH, a MULTI pipeline that rebuilds the list).  The callers   *)
(* are the most general ones: any task of a running process may ask for a  *)
(* token of any bucket, in either style, and be cancelled anywhere.        *)
(* Module LlmCalls says what the request handlers really do.               *)
(*                                                                         *)
(* The tokens of a list are all the string "1", so a list is its length.   *)
(* _POOL_SLOTS is built by each process from its own environment: a worker *)
(* that is restarted with other counts is another process of Procs, which  *)
(* can only run when the worker's other incarnations do not.               *)
(***************************************************************************)
EXTENDS Naturals, Sequences, FiniteSets

CONSTANTS
  Tasks,        \* asyncio tasks that make LLM calls
  Procs,        \* worker processes behind the same Redis
  Worker,       \* Worker[p]: the worker p is an incarnation of
  ProcOf,       \* ProcOf[t]: the process task t runs in
  Buckets,      \* the buckets of every pool
  BucketSeq,    \* the order _buckets() lists them in
  Slots,        \* Slots[p][b]: the token count configured in process p
  FirstSizes,   \* the sentinels a deployment may start from
  Unset,        \* the value of a sentinel key that does not exist
  MaxResets,    \* bound: calls of POST /api/system/gpu/reset
  MaxCrashes    \* bound: hard crashes of a process

ASSUME GpuSlotsAssumption ==
  /\ IsFiniteSet(Tasks)
  /\ ProcOf \in [Tasks -> Procs]
  /\ Procs = DOMAIN Worker
  /\ BucketSeq \in Seq(Buckets)
  /\ Buckets = {BucketSeq[i] : i \in 1..Len(BucketSeq)}
  /\ Slots \in [Procs -> [Buckets -> Nat]]
  /\ Unset \notin Nat
  /\ FirstSizes \subseteq [Buckets -> Nat \cup {Unset}]
  /\ MaxResets \in Nat /\ MaxCrashes \in Nat

VARIABLES
  queue,      \* queue[b]: length of the Redis list
  sentinel,   \* sentinel[b]: the count the list was last filled with
  ahead,      \* ahead[b][t]: the BLPOP clients blocked on b before t
  lease,      \* lease[b][t]: where task t stands with bucket b
  boot,       \* boot[p]: progress of init_gpu in process p
  resetAt,    \* resetAt[p]: next bucket of a running reset, 0 if none
  resets, crashes,    \* counters of the bounded actions
  leaked,     \* leaked[b]: tokens gone for good since b was last filled
  surplus     \* surplus[b]: tokens outstanding when b was last filled

redis    == <<queue, sentinel, ahead>>
boots    == <<boot, resetAt, resets, crashes>>
gpuVars  == <<queue, sentinel, ahead, lease, boot, resetAt, resets, crashes,
              leaked, surplus>>
-----------------------------------------------------------------------------
(* A lease is "waiting" while BLPOP blocks, "popped" once the server has   *)
(* taken a token off the list but the reply is not read yet, then "ctx"    *)
(* (inside gpu_slot or hq_gpu_slot) or "handle" (an unreleased SlotHandle).*)
(* On the way back it is "ctxPush" (the bare await of the context manager) *)
(* or "taskPush" (the shielded task of SlotHandle.release).                *)
LeaseState == {"none", "waiting", "popped", "ctx", "handle", "ctxPush", "taskPush"}
HoldsToken == {"popped", "ctx", "handle", "ctxPush", "taskPush"}

InUse(b) == {t \in Tasks : lease[b][t] \in HoldsToken}
TasksOf(p) == {t \in Tasks : ProcOf[t] = p}
Last == Len(BucketSeq)
Up(p) == boot[p].at = Last + 1
Filled(b) == IF sentinel[b] = Unset THEN 0 ELSE sentinel[b]

SetLease(t, b, s) == lease' = [lease EXCEPT ![b][t] = s]

(* Redis keeps the blocked clients of a list in arrival order. *)
Waiting(b) == {t \in Tasks : lease[b][t] = "waiting"}
Gone(b, S) == [t \in Tasks |-> IF t \in S THEN {} ELSE ahead[b][t] \ S]
StopWaiting(t, b) == ahead' = [ahead EXCEPT ![b] = Gone(b, {t})]

Init ==
  /\ \E first \in FirstSizes :
       /\ sentinel = first
       /\ queue = [b \in Buckets |-> IF first[b] = Unset THEN 0 ELSE first[b]]
  /\ ahead = [b \in Buckets |-> [t \in Tasks |-> {}]]
  /\ lease = [b \in Buckets |-> [t \in Tasks |-> "none"]]
  /\ boot = [p \in Procs |-> [at |-> 0, stale |-> FALSE]]
  /\ resetAt = [p \in Procs |-> 0]
  /\ resets = 0 /\ crashes = 0
  /\ leaked = [b \in Buckets |-> 0]
  /\ surplus = [b \in Buckets |-> 0]
-----------------------------------------------------------------------------
(* Mutant: the list is not deleted first. *)
FillOnTop(p, b) ==
  /\ queue' = [queue EXCEPT ![b] = @ + Slots[p][b]]
  /\ sentinel' = [sentinel EXCEPT ![b] = Slots[p][b]]
  /\ leaked' = [leaked EXCEPT ![b] = 0]
  /\ surplus' = [surplus EXCEPT ![b] = Cardinality(InUse(b))]
  /\ UNCHANGED <<ahead, lease>>

(* _fill_queue: DEL, RPUSH slots tokens and SET the sentinel, in one MULTI,  *)
(* with the counts of the process that calls it.  Tokens still out will be   *)
(* pushed on top of the fresh list.                                          *)
Fill(p, b) ==
  /\ queue' = [queue EXCEPT ![b] = Slots[p][b]]
  /\ sentinel' = [sentinel EXCEPT ![b] = Slots[p][b]]
  /\ leaked' = [leaked EXCEPT ![b] = 0]
  /\ surplus' = [surplus EXCEPT ![b] = Cardinality(InUse(b))]
  /\ UNCHANGED <<ahead, lease>>

(* Mutant: the lifespan hook does not await init_gpu. *)
StartProcAtOnce(p) ==
  /\ boot[p].at = 0
  /\ boot' = [boot EXCEPT ![p] = [at |-> Last + 1, stale |-> FALSE]]
  /\ UNCHANGED <<redis, lease, resetAt, resets, crashes, leaked, surplus>>

(* A process starts, in the place of whatever ran there before: the         *)
(* lifespan hook runs init_gpu before any request.                          *)
StartProc(p) ==
  /\ \A q \in Procs : Worker[q] = Worker[p] => boot[q].at = 0
  /\ boot' = [boot EXCEPT ![p] = [at |-> 1, stale |-> FALSE]]
  /\ UNCHANGED <<redis, lease, resetAt, resets, crashes, leaked, surplus>>

(* init_gpu, first half of the loop body: GET the sentinel and compare. *)
InitRead(p) ==
  /\ boot[p].at \in 1..Last
  /\ ~boot[p].stale
  /\ boot' = [boot EXCEPT ![p] =
                IF sentinel[BucketSeq[boot[p].at]] = Slots[p][BucketSeq[boot[p].at]]
                  THEN [at |-> boot[p].at + 1, stale |-> FALSE]
                  ELSE [at |-> boot[p].at, stale |-> TRUE]]
  /\ UNCHANGED <<redis, lease, resetAt, resets, crashes, leaked, surplus>>

(* init_gpu, second half: the rebuild decided on by what was read. *)
InitFill(p) ==
  /\ boot[p].at \in 1..Last
  /\ boot[p].stale
  /\ Fill(p, BucketSeq[boot[p].at])
  /\ boot' = [boot EXCEPT ![p] = [at |-> boot[p].at + 1, stale |-> FALSE]]
  /\ UNCHANGED <<resetAt, resets, crashes>>

(* reset_gpu_counter: one pipeline per bucket, other clients in between. *)
ResetStart(p) ==
  /\ Up(p)
  /\ resetAt[p] = 0
  /\ Last > 0
  /\ resets < MaxResets
  /\ resets' = resets + 1
  /\ resetAt' = [resetAt EXCEPT ![p] = 1]
  /\ UNCHANGED <<redis, lease, boot, crashes, leaked, surplus>>

ResetFill(p) ==
  /\ resetAt[p] \in 1..Last
  /\ Fill(p, BucketSeq[resetAt[p]])
  /\ resetAt' = [resetAt EXCEPT ![p] = IF @ = Last THEN 0 ELSE @ + 1]
  /\ UNCHANGED <<boot, resets, crashes>>
-----------------------------------------------------------------------------
(* _acquire: BLPOP reaches the server and queues behind older clients. *)
Blpop(t, b) ==
  /\ Up(ProcOf[t])
  /\ lease[b][t] = "none"
  /\ SetLease(t, b, "waiting")
  /\ ahead' = [ahead EXCEPT ![b][t] = Waiting(b)]
  /\ UNCHANGED <<queue, sentinel, boots, leaked, surplus>>

(* Mutants: a token is popped off an empty list, or goes to any waiter. *)
ServeFromEmpty(t, b) ==
  /\ lease[b][t] = "waiting"
  /\ ahead[b][t] = {}
  /\ queue' = [queue EXCEPT ![b] = @ - 1]
  /\ StopWaiting(t, b)
  /\ SetLease(t, b, "popped")
  /\ UNCHANGED <<sentinel, boots, leaked, surplus>>

ServeAnyone(t, b) ==
  /\ queue[b] > 0
  /\ lease[b][t] = "waiting"
  /\ queue' = [queue EXCEPT ![b] = @ - 1]
  /\ StopWaiting(t, b)
  /\ SetLease(t, b, "popped")
  /\ UNCHANGED <<sentinel, boots, leaked, surplus>>

(* Redis: a token goes to the client that has been blocked the longest. *)
Serve(t, b) ==
  /\ queue[b] > 0
  /\ lease[b][t] = "waiting"
  /\ ahead[b][t] = {}
  /\ queue' = [queue EXCEPT ![b] = @ - 1]
  /\ StopWaiting(t, b)
  /\ SetLease(t, b, "popped")
  /\ UNCHANGED <<sentinel, boots, leaked, surplus>>

(* Mutant: _acquire inside the try, so that a timeout releases as well. *)
TimeoutReleases(t, b) ==
  /\ lease[b][t] = "waiting"
  /\ queue[b] = 0
  /\ SetLease(t, b, "none")
  /\ StopWaiting(t, b)
  /\ queue' = [queue EXCEPT ![b] = @ + 1]
  /\ UNCHANGED <<sentinel, boots, leaked, surplus>>

(* BLPOP answers nil: GPUBusyError.  Redis never leaves a client blocked on *)
(* a list that has tokens, so the timeout only strikes on an empty one.     *)
Timeout(t, b) ==
  /\ lease[b][t] = "waiting"
  /\ queue[b] = 0
  /\ SetLease(t, b, "none")
  /\ StopWaiting(t, b)
  /\ UNCHANGED <<queue, sentinel, boots, leaked, surplus>>

(* _acquire returns: to a context manager, or to acquire_gpu_slot. *)
Receive(t, b, style) ==
  /\ lease[b][t] = "popped"
  /\ SetLease(t, b, style)
  /\ UNCHANGED <<redis, boots, leaked, surplus>>

(* The finally of gpu_slot / hq_gpu_slot starts its bare await of _release. *)
ExitCtx(t, b) ==
  /\ lease[b][t] = "ctx"
  /\ SetLease(t, b, "ctxPush")
  /\ UNCHANGED <<redis, boots, leaked, surplus>>

(* Mutant: release does not look at _released. *)
ReleaseHandleAgain(t, b) ==
  /\ IF lease[b][t] = "handle"
       THEN SetLease(t, b, "taskPush") /\ UNCHANGED queue
       ELSE UNCHANGED lease /\ queue' = [queue EXCEPT ![b] = @ + 1]
  /\ UNCHANGED <<sentinel, ahead, boots, leaked, surplus>>

(* SlotHandle.release: the first call spawns the shielded push, a later one *)
(* finds _released set and returns.                                         *)
ReleaseHandle(t, b) ==
  /\ IF lease[b][t] = "handle"
       THEN SetLease(t, b, "taskPush")
       ELSE UNCHANGED lease
  /\ UNCHANGED <<redis, boots, leaked, surplus>>

(* _release: RPUSH reaches the server. *)
Push(t, b) ==
  /\ lease[b][t] \in {"ctxPush", "taskPush"}
  /\ SetLease(t, b, "none")
  /\ queue' = [queue EXCEPT ![b] = @ + 1]
  /\ UNCHANGED <<sentinel, ahead, boots, leaked, surplus>>
-----------------------------------------------------------------------------
(* Cancelling a blocked BLPOP closes its connection: no token was taken. *)
CancelWait(t, b) ==
  /\ lease[b][t] = "waiting"
  /\ SetLease(t, b, "none")
  /\ StopWaiting(t, b)
  /\ UNCHANGED <<queue, sentinel, boots, leaked, surplus>>

(* A cancellation that lands between the server popping a token and the     *)
(* client reading the reply, or inside the bare await of _release before    *)
(* RPUSH is sent, loses the token.  A shielded push cannot be reached.      *)
CancelLoses(t, b) ==
  /\ lease[b][t] \in {"popped", "ctxPush"}
  /\ SetLease(t, b, "none")
  /\ leaked' = [leaked EXCEPT ![b] = @ + 1]
  /\ UNCHANGED <<redis, boots, surplus>>

(* RPUSH fails before it reaches Redis.  _released is set already, so no    *)
(* later release tries again.                                               *)
PushFails(t, b) ==
  /\ lease[b][t] \in {"ctxPush", "taskPush"}
  /\ SetLease(t, b, "none")
  /\ leaked' = [leaked EXCEPT ![b] = @ + 1]
  /\ UNCHANGED <<redis, boots, surplus>>

(* A process dies, to be restarted or replaced: everything it held, and its *)
(* blocked connections, are gone; the lists and the sentinels live on in    *)
(* Redis.                                                                   *)
Crash(p) ==
  /\ boot[p].at > 0
  /\ crashes < MaxCrashes
  /\ crashes' = crashes + 1
  /\ boot' = [boot EXCEPT ![p] = [at |-> 0, stale |-> FALSE]]
  /\ resetAt' = [resetAt EXCEPT ![p] = 0]
  /\ ahead' = [b \in Buckets |-> Gone(b, TasksOf(p))]
  /\ leaked' = [b \in Buckets |-> leaked[b] + Cardinality(InUse(b) \cap TasksOf(p))]
  /\ lease' = [b \in Buckets |-> [t \in Tasks |->
                 IF ProcOf[t] = p THEN "none" ELSE lease[b][t]]]
  /\ UNCHANGED <<queue, sentinel, resets, surplus>>
-----------------------------------------------------------------------------
ProcStep(p) ==
  \/ StartProc(p) \/ InitRead(p) \/ InitFill(p)
  \/ ResetStart(p) \/ ResetFill(p)
  \/ Crash(p)

TokenStep(t, b) ==
  \/ Blpop(t, b) \/ Serve(t, b) \/ Timeout(t, b)
  \/ Receive(t, b, "ctx") \/ Receive(t, b, "handle")
  \/ ExitCtx(t, b) \/ ReleaseHandle(t, b) \/ Push(t, b)
  \/ CancelWait(t, b) \/ CancelLoses(t, b) \/ PushFails(t, b)

Next ==
  \/ \E p \in Procs : ProcStep(p)
  \/ \E t \in Tasks, b \in Buckets : TokenStep(t, b)

Spec == Init /\ [][Next]_gpuVars
-----------------------------------------------------------------------------
TypeOK ==
  /\ queue \in [Buckets -> Nat]
  /\ sentinel \in [Buckets -> Nat \cup {Unset}]
  /\ ahead \in [Buckets -> [Tasks -> SUBSET Tasks]]
  /\ lease \in [Buckets -> [Tasks -> LeaseState]]
  /\ boot \in [Procs -> [at : 0..(Last + 1), stale : BOOLEAN]]
  /\ resetAt \in [Procs -> 0..Last]
  /\ resets \in Nat /\ crashes \in Nat
  /\ leaked \in [Buckets -> Nat]
  /\ surplus \in [Buckets -> Nat]

(* Every token is accounted for: what is in the list, what is out and what *)
(* is lost add up to what the list was last filled with plus the tokens    *)
(* that were out at that moment.                                           *)
Conservation ==
  \A b \in Buckets :
    queue[b] + Cardinality(InUse(b)) + leaked[b] = Filled(b) + surplus[b]

(* The cap is global: with no token out when the bucket was last filled,   *)
(* no number of processes, timeouts, cancellations, double releases or     *)
(* crashes puts more calls in flight than the bucket was sized for.        *)
GlobalCap ==
  \A b \in Buckets :
    surplus[b] = 0 => Cardinality(InUse(b)) + queue[b] <= Filled(b)

(* No call is ever made against a list nobody sized: once a process serves,  *)
(* each bucket is filled for a count that some process is configured with,   *)
(* the count of all of them when they agree.  A resize rolls over several    *)
(* workers one at a time and an old one may refill a bucket behind a new     *)
(* one; once every worker serves, each bucket has the size of one that runs, *)
(* so no count that only replaced processes had outlives the roll-out.       *)
SizesOf(b) == {Slots[p][b] : p \in Procs}
EveryWorkerServes == \A p \in Procs : \E q \in Procs : Worker[q] = Worker[p] /\ Up(q)
ServesSizedBuckets ==
  \A b \in Buckets :
    /\ (\E p \in Procs : Up(p)) => sentinel[b] \in SizesOf(b)
    /\ (Procs # {} /\ EveryWorkerServes) =>
         \E p \in Procs : Up(p) /\ sentinel[b] = Slots[p][b]

(* What init_gpu's comment says of deployments with several workers: they   *)
(* do not multiply the configured counts.                                   *)
CountsNotMultiplied ==
  (resets = 0 /\ crashes = 0) =>
    \A p \in Procs, b \in Buckets : queue[b] + Cardinality(InUse(b)) <= Slots[p][b]

(* GET /api/system/gpu computes slots_in_use from the list's length and the *)
(* counts of the process that answers.  Where the bucket has that size, it  *)
(* never claims more than the calls in flight plus the leaked tokens, and   *)
(* claims exactly that when no refill found tokens out.                     *)
SlotsInUseSwapped(p, b) ==      \* mutant: reads the length of the next list
  LET neighbour == CHOOSE c \in Buckets : c # b
  IN  IF Slots[p][b] > queue[neighbour] THEN Slots[p][b] - queue[neighbour] ELSE 0
SlotsInUse(p, b) == IF Slots[p][b] > queue[b] THEN Slots[p][b] - queue[b] ELSE 0
StatusIsHonest ==
  \A p \in Procs, b \in Buckets : sentinel[b] = Slots[p][b] =>
    /\ SlotsInUse(p, b) <= Cardinality(InUse(b)) + leaked[b]
    /\ surplus[b] = 0 => SlotsInUse(p, b) = Cardinality(InUse(b)) + leaked[b]

(* The queues implement the semaphore of SlotPool, crashes and all. *)
Pool == INSTANCE SlotPool WITH
  Sizes <- [b \in Buckets |-> SizesOf(b)],
  inUse <- [b \in Buckets |-> InUse(b)],
  limit <- [b \in Buckets |-> Filled(b) + surplus[b]]
PoolSpec == Pool!Spec
=============================================================================
