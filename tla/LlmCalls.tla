------------------------------ MODULE LlmCalls ------------------------------
(***************************************************************************)
(* The callers of the GPU queues: what each request handler does with the  *)
(* tokens of module GpuSlots.  A task is a request (chat, ask, compact,    *)
(* summary, compare), the background question pass of an upload, or one of *)
(* the LLM calls such a request fans out to (chunk, digest, hyq).          *)
(*                                                                         *)
(* pc[t] is the call the task is at.  When a context manager starts giving *)
(* its token back, pc already names what comes next: the task gets there   *)
(* once it is Idle, that is once the push is over.                         *)
(***************************************************************************)
EXTENDS GpuSlots

CONSTANTS
  Kind,               \* Kind[t]: which programme the task runs
  Parent,             \* Parent[t]: the request that spawns it, t itself if none
  Streamed,           \* the requests answered with a streaming response
  ModelPool,          \* ModelPool[t]: shared bucket of the model in its spec
  UtilityPool,        \* shared bucket of the utility role's model
  BackgroundPool,     \* shared bucket of the background role's model
  Reserved,           \* the reserved bucket of BackgroundPool
  NoPool,             \* "pool: none": a model that needs no token
  HqConcurrency,      \* HqConcurrency[p]: HQ_GPU_CONCURRENCY in process p
  ChunkConcurrency    \* CHUNK_CONCURRENCY

Chats    == {"chat", "ask"}
Mappers  == {"summary", "compare", "pass"}
Kinds    == Chats \cup Mappers \cup {"compact", "chunk", "digest", "hyq"}

ASSUME LlmCallsAssumption ==
  /\ Kind \in [Tasks -> Kinds]
  /\ Parent \in [Tasks -> Tasks]
  /\ \A t \in Tasks :
       /\ Kind[t] \in {"chunk", "digest"} => Kind[Parent[t]] \in {"summary", "compare"}
       /\ Kind[t] = "hyq" => Kind[Parent[t]] = "pass"
       /\ Kind[t] \notin {"chunk", "digest", "hyq"} => Parent[t] = t
       /\ ProcOf[Parent[t]] = ProcOf[t]
  /\ Streamed \subseteq {t \in Tasks : Kind[t] \in Chats \cup {"summary", "compare"}}
  /\ NoPool \notin Buckets
  /\ ModelPool \in [Tasks -> Buckets \cup {NoPool}]
  /\ UtilityPool \in Buckets \cup {NoPool}
  /\ BackgroundPool \in Buckets \cup {NoPool}
  /\ Reserved \in Buckets \ {UtilityPool, BackgroundPool}
  /\ \A t \in Tasks : ModelPool[t] # Reserved
  /\ HqConcurrency \in [Procs -> Nat]
  /\ \A p \in Procs :
       Slots[p][Reserved] = IF BackgroundPool = NoPool THEN 0 ELSE HqConcurrency[p]
  /\ ChunkConcurrency \in Nat \ {0}

VARIABLES
  pc,     \* pc[t]: where the task is, "idle" before it starts
  hit     \* hit[t]: is it being cancelled: not, once, or again and again

Stages == {"idle", "fanout", "sem", "acquire", "rewrite", "turn", "fold", "foldHeld",
           "answer", "summarize", "call", "gather", "consolidate", "drain", "close",
           "closeAgain", "done", "failed"}

llmVars == <<gpuVars, pc, hit>>
tasks   == <<pc, hit>>
-----------------------------------------------------------------------------
Kids(t, k) == {c \in Tasks : c # t /\ Parent[c] = t /\ Kind[c] = k}

(* A task is held up by a lease only while one of its awaits is on it. *)
Idle(t) == \A b \in Buckets : lease[b][t] \in {"none", "handle", "taskPush"}
Finished(t) == pc[t] \in {"done", "failed"} /\ Idle(t)

HyqBucketShared(t) == BackgroundPool      \* mutant: the reserved bucket is not used

(* hq_gpu_slot falls back to the shared bucket when none is reserved in the *)
(* process.                                                                 *)
HyqBucket(t) ==
  IF BackgroundPool # NoPool /\ Slots[ProcOf[t]][Reserved] > 0 THEN Reserved
                                                              ELSE BackgroundPool

(* The bucket the next LLM call of t draws from. *)
HandlePool(t) == IF Kind[t] = "compact" THEN UtilityPool ELSE ModelPool[t]
Target(t) ==
  CASE pc[t] = "acquire" -> HandlePool(t)
    [] pc[t] \in {"rewrite", "fold"} -> UtilityPool
    [] pc[t] = "call" /\ Kind[t] = "hyq" -> HyqBucket(t)
    [] pc[t] = "call" /\ Kind[t] # "hyq" -> ModelPool[t]
    [] OTHER -> NoPool

(* Mutants: a second slot is always taken, or never. *)
FoldAlwaysAcquires(t) == IF UtilityPool = NoPool THEN "foldHeld" ELSE "fold"
FoldNeverAcquires(t) == "foldHeld"

(* compact_history reuses the caller's slot when the pools coincide, and a  *)
(* utility model of pool none needs no slot at all.                         *)
FoldAt(t) == IF UtilityPool \in {HandlePool(t), NoPool} THEN "foldHeld" ELSE "fold"

(* _chunk_sem is one semaphore per process, the one of                      *)
(* generate_and_store_questions one per pass.                               *)
Sharers(t) ==
  {u \in Tasks : Kind[u] = Kind[t] /\
     IF Kind[t] = "hyq" THEN Parent[u] = Parent[t] ELSE ProcOf[u] = ProcOf[t]}
InSemaphoreWithRequest(t) ==      \* mutant: the request keeps a permit as well
  {u \in Tasks : ProcOf[u] = ProcOf[t] /\ (pc[u] \in {"call", "gather"} \/ ~Idle(u))}
InSemaphore(t) == {u \in Sharers(t) : pc[u] = "call" \/ ~Idle(u)}
Permits(t) ==
  IF Kind[t] = "chunk" THEN ChunkConcurrency
  ELSE IF HqConcurrency[ProcOf[t]] > 1 THEN HqConcurrency[ProcOf[t]] ELSE 1

(* Where a task goes when it has its handle, or when its LLM call returns or *)
(* raises.                                                                   *)
After(t) ==
  CASE pc[t] = "acquire" -> {IF Kind[t] = "compact" THEN "summarize" ELSE "turn"}
    [] pc[t] = "rewrite" -> {"acquire", "done"}
    [] pc[t] \in {"fold", "foldHeld"} -> {"answer"}
    [] pc[t] \in {"answer", "summarize"} -> {"close"}
    [] pc[t] = "call" -> IF Kind[t] \in {"chunk", "digest"} THEN {"done", "failed"}
                                                           ELSE {"done"}

BusyRaises(t) == "busy"      \* mutant: nobody handles GPUBusyError

(* Where GPUBusyError takes it: only the auto-compaction and the question   *)
(* pass swallow it.                                                         *)
Busy(t) ==
  CASE pc[t] = "fold" -> "answer"
    [] pc[t] = "call" /\ Kind[t] \in {"chunk", "digest"} -> "failed"
    [] OTHER -> "done"

(* Mutant: only the body generator's finally would release the slot. *)
UnwindUnreleased(t) == IF Kind[t] \in {"chunk", "digest"} THEN "failed" ELSE "done"

(* Where CancelledError takes it. *)
Unwind(t) ==
  CASE Kind[t] \in Chats -> "close"
    [] Kind[t] \in {"chunk", "digest"} -> "failed"
    [] OTHER -> IF pc[t] \in {"gather", "consolidate", "drain"} THEN "drain" ELSE "done"

Goto(t, s) == pc' = [pc EXCEPT ![t] = s]
Spawn(t, s, K, w) ==
  pc' = [u \in Tasks |-> IF u = t THEN s
                         ELSE IF u \in K /\ pc[u] = "idle" THEN w ELSE pc[u]]
-----------------------------------------------------------------------------
LlmInit ==
  /\ Init
  /\ pc = [t \in Tasks |-> "idle"]
  /\ hit = [t \in Tasks |-> "no"]

(* A request is routed to its handler.  A short text needs no mapping.      *)
Arrive(t) ==
  /\ pc[t] = "idle"
  /\ Parent[t] = t
  /\ Up(ProcOf[t])
  /\ \/ Kind[t] \in Chats \cup {"compact"} /\ Goto(t, "acquire")
     \/ Kind[t] = "ask" /\ Goto(t, "rewrite")
     \/ Kind[t] \in {"summary", "compare"} /\ Goto(t, "call")
     \/ Kind[t] \in Mappers /\ Goto(t, "fanout")
  /\ UNCHANGED <<gpuVars, hit>>

(* The client sends another request once the last one is over; t and its    *)
(* calls are fresh tasks then.                                              *)
Over(t) == Finished(t) /\ \A b \in Buckets : lease[b][t] # "taskPush"
NextRequest(t) ==
  LET family == {u \in Tasks : u = t \/ Parent[u] = t} IN
  /\ Parent[t] = t
  /\ Over(t) /\ \A u \in family : pc[u] = "idle" \/ Over(u)
  /\ pc' = [u \in Tasks |-> IF u \in family THEN "idle" ELSE pc[u]]
  /\ hit' = [u \in Tasks |-> IF u \in family THEN "no" ELSE hit[u]]
  /\ UNCHANGED gpuVars

(* map_calls_iter and generate_and_store_questions create their tasks. *)
FanOut(t) ==
  /\ pc[t] = "fanout"
  /\ Spawn(t, "gather", Kids(t, "chunk") \cup Kids(t, "hyq"), "sem")
  /\ UNCHANGED <<gpuVars, hit>>

EnterSemaphore(t) ==
  /\ pc[t] = "sem"
  /\ Cardinality(InSemaphore(t)) < Permits(t)
  /\ Goto(t, "call")
  /\ UNCHANGED <<gpuVars, hit>>

(* The task sends its BLPOP, in either style. *)
Ask(t) ==
  /\ Target(t) # NoPool
  /\ Idle(t)
  /\ Blpop(t, Target(t))
  /\ UNCHANGED tasks

(* A pool of none is never waited for: acquire_gpu_slot hands out the no-op *)
(* handle, the context managers yield at once.                              *)
Unmetered(t) ==
  /\ Idle(t)
  /\ Target(t) = NoPool
  /\ pc[t] \in {"acquire", "rewrite", "call"}
  /\ \E s \in After(t) : Goto(t, s)
  /\ UNCHANGED <<gpuVars, hit>>

(* The token has come: the caller has its handle, or enters the context. *)
Reply(t, b) ==
  \/ /\ pc[t] = "acquire"
     /\ Receive(t, b, "handle")
     /\ \E s \in After(t) : Goto(t, s)
     /\ UNCHANGED hit
  \/ /\ pc[t] # "acquire"
     /\ Receive(t, b, "ctx")
     /\ UNCHANGED tasks

GiveUp(t, b) ==
  /\ Timeout(t, b)
  /\ Goto(t, Busy(t))
  /\ UNCHANGED hit

(* The LLM call made inside a context manager is over. *)
Leave(t, b) ==
  /\ ExitCtx(t, b)
  /\ \E s \in After(t) : Goto(t, s)
  /\ UNCHANGED hit

(* open_user_turn: go straight to the answer, compact first, or fail. *)
Turn(t) ==
  /\ pc[t] = "turn"
  /\ \E s \in {"answer", FoldAt(t), "close"} : Goto(t, s)
  /\ UNCHANGED <<gpuVars, hit>>

(* An LLM call made under the handle the task already holds is over. *)
HeldCallEnds(t) ==
  /\ Idle(t)
  /\ pc[t] \in {"foldHeld", "answer", "summarize"}
  /\ \E s \in After(t) : Goto(t, s)
  /\ UNCHANGED <<gpuVars, hit>>

(* Mutant: every owner pushes a token. *)
CloseTwice(t) ==
  /\ pc[t] \in {"close", "closeAgain"}
  /\ Idle(t)
  /\ HandlePool(t) # NoPool
  /\ Goto(t, IF pc[t] = "close" THEN "closeAgain" ELSE "done")
  /\ queue' = [queue EXCEPT ![HandlePool(t)] = @ + 1]
  /\ lease' = [lease EXCEPT ![HandlePool(t)][t] = "none"]
  /\ UNCHANGED <<sentinel, ahead, boots, leaked, surplus, hit>>

(* The owner releases the slot.  When a buffered answer fails, the finally  *)
(* and the except clause both do.                                           *)
Close(t) ==
  /\ pc[t] \in {"close", "closeAgain"}
  /\ Idle(t)
  /\ IF HandlePool(t) = NoPool
       THEN UNCHANGED gpuVars
       ELSE /\ pc[t] = "closeAgain" => lease[HandlePool(t)][t] # "taskPush"
            /\ ReleaseHandle(t, HandlePool(t))
  /\ \/ Goto(t, "done")
     \/ /\ pc[t] = "close" /\ t \notin Streamed /\ Kind[t] # "compact"
        /\ Goto(t, "closeAgain")
  /\ UNCHANGED hit
-----------------------------------------------------------------------------
(* All calls of the fan-out succeeded, or are over in a question pass. *)
Gathered(t) ==
  LET kids == Kids(t, "chunk") \cup Kids(t, "hyq") IN
  /\ pc[t] = "gather"
  /\ \A c \in kids : Finished(c) /\ pc[c] = "done"
  /\ \/ Kind[t] \in {"pass", "summary"} /\ Goto(t, IF Kind[t] = "pass" THEN "done" ELSE "call")
     \/ Kind[t] = "compare" /\ Spawn(t, "consolidate", Kids(t, "digest"), "call")
  /\ UNCHANGED <<gpuVars, hit>>

(* map_calls_iter: one call failed, the others are cancelled and awaited. *)
MapFails(t) ==
  /\ pc[t] = "gather"
  /\ \E c \in Kids(t, "chunk") : Finished(c) /\ pc[c] = "failed"
  /\ Goto(t, "drain")
  /\ hit' = [u \in Tasks |-> IF u \in Kids(t, "chunk") /\ ~Finished(u) /\ hit[u] = "no"
                               THEN "once" ELSE hit[u]]
  /\ UNCHANGED gpuVars

(* generate_comparison: a plain gather of the digests, a failure abandons  *)
(* the other one to run on its own.                                        *)
Consolidated(t) ==
  /\ pc[t] = "consolidate"
  /\ \/ /\ \A c \in Kids(t, "digest") : Finished(c) /\ pc[c] = "done"
        /\ Goto(t, "call")
     \/ /\ \E c \in Kids(t, "digest") : Finished(c) /\ pc[c] = "failed"
        /\ Goto(t, "done")
  /\ UNCHANGED <<gpuVars, hit>>

Drained(t) ==
  /\ pc[t] = "drain"
  /\ \A c \in Kids(t, "chunk") \cup Kids(t, "digest") : pc[c] = "idle" \/ Finished(c)
  /\ Goto(t, "done")
  /\ UNCHANGED <<gpuVars, hit>>

(* The client of a streaming response goes away: the cancel scope around   *)
(* the body is cancelled, which strikes at every further await.            *)
InBody(t) ==
  \/ pc[t] \in {"turn", "fold", "foldHeld", "answer", "fanout", "gather",
                "consolidate", "drain"}
  \/ pc[t] = "call" /\ Parent[t] = t
Disconnect(t) ==
  /\ t \in Streamed
  /\ hit[t] = "no"
  /\ InBody(t)
  /\ hit' = [hit EXCEPT ![t] = "always"]
  /\ UNCHANGED <<gpuVars, pc>>

(* CancelledError is raised at the await the task is in.  A request waiting *)
(* for its fan-out cancels it, again at every delivery.                     *)
Struck(t) ==
  /\ hit[t] # "no"
  /\ ~Idle(t) \/ InBody(t) \/ pc[t] \in {"sem", "call"}
  /\ \/ \E b \in Buckets : CancelWait(t, b) \/ CancelLoses(t, b) \/ ExitCtx(t, b)
     \/ Idle(t) /\ UNCHANGED gpuVars
  /\ Goto(t, Unwind(t))
  /\ hit' = [u \in Tasks |->
       IF u = t THEN IF hit[t] = "once" THEN "no" ELSE "always"
       ELSE IF Unwind(t) = "drain" /\ Parent[u] = t /\ Kind[u] \in {"chunk", "digest"}
               /\ pc[u] # "idle" /\ ~Finished(u)
         THEN "always" ELSE hit[u]]

(* The server side of the queues, and the processes. *)
Redis(t, b) == Serve(t, b) /\ UNCHANGED tasks
PushLands(t, b) == Push(t, b) /\ UNCHANGED tasks
Server(p) ==
  \/ ProcStep(p) /\ ~Crash(p) /\ UNCHANGED tasks
  \/ /\ Crash(p)
     /\ pc' = [t \in Tasks |-> IF ProcOf[t] = p THEN "done" ELSE pc[t]]
     /\ UNCHANGED hit
-----------------------------------------------------------------------------
Proceed(t) ==
  \/ Arrive(t) \/ FanOut(t) \/ EnterSemaphore(t) \/ Ask(t) \/ Unmetered(t)
  \/ \E b \in Buckets : Reply(t, b) \/ Leave(t, b) \/ PushLands(t, b)
  \/ Turn(t) \/ HeldCallEnds(t) \/ Close(t)
  \/ Gathered(t) \/ MapFails(t) \/ Consolidated(t) \/ Drained(t)

LlmNext ==
  \/ \E p \in Procs : Server(p)
  \/ \E t \in Tasks :
       \/ Proceed(t) \/ NextRequest(t) \/ Disconnect(t) \/ Struck(t)
       \/ \E b \in Buckets : Redis(t, b) \/ GiveUp(t, b)

LlmSpec == LlmInit /\ [][LlmNext]_llmVars

(* The event loop runs every task that can proceed, the model backend      *)
(* answers every call and Redis serves its blocked clients.  Nobody has to *)
(* time out, disconnect or crash.                                          *)
FairLlmSpec ==
  /\ LlmSpec
  /\ \A t \in Tasks : WF_llmVars(Proceed(t))
  /\ \A b \in Buckets : WF_llmVars(\E t \in Tasks : Redis(t, b))
-----------------------------------------------------------------------------
LlmTypeOK ==
  /\ pc \in [Tasks -> Stages]
  /\ hit \in [Tasks -> {"no", "once", "always"}]

(* No set of requests can be waiting only for tokens, semaphore permits or  *)
(* sub-calls that its own members hold up.                                  *)
Wants(t) ==
  {b \in Buckets : /\ b = Target(t)
                   /\ \/ lease[b][t] = "waiting"
                      \/ Idle(t) /\ lease[b][t] \in {"none", "handle"}}
Awaited(t) ==
  LET kids == {c \in Tasks : Parent[c] = t /\ c # t /\ pc[c] # "idle"} IN
  IF \/ pc[t] = "drain"
     \/ pc[t] \in {"gather", "consolidate"} /\ \A c \in kids : ~Finished(c) \/ pc[c] = "done"
    THEN {c \in kids : ~Finished(c)} ELSE {}
Blockers(t) ==
  CASE \E b \in Wants(t) : queue[b] = 0 -> UNION {InUse(b) : b \in Wants(t)}
    [] pc[t] = "sem" -> IF Cardinality(InSemaphore(t)) >= Permits(t) THEN InSemaphore(t) ELSE {}
    [] OTHER -> Awaited(t)
NoCircularWait ==
  \A S \in SUBSET {t \in Tasks : Blockers(t) # {}} :
    S # {} => \E t \in S : ~(Blockers(t) \subseteq S)

(* The LLM calls that run on a pool's hardware at the same time, whichever  *)
(* token covers them, never exceed the slots the bucket was last filled     *)
(* with, unless a rebuild found tokens out.                                 *)
Calling(b) ==
  {t \in Tasks : \/ lease[b][t] = "ctx"
                 \/ pc[t] = "answer" /\ Idle(t) /\ ModelPool[t] = b
                 \/ pc[t] \in {"foldHeld", "summarize"} /\ UtilityPool = b}
BackendCap ==
  \A b \in Buckets : surplus[b] = 0 => Cardinality(Calling(b)) <= Filled(b)

(* Where a task's leases can be, seen from its pc: it waits for at most one  *)
(* thing at a time, the one its pc names, and has its handle from the turn   *)
(* until it closes.                                                          *)
Pending == {"waiting", "popped", "ctx"}
WaitsForOne(t) ==
  /\ \A b \in Buckets : lease[b][t] \in Pending => b = Target(t)
  /\ \A b \in Buckets : lease[b][t] = "ctx" => pc[t] # "acquire"
  /\ \A b, c \in Buckets :
       lease[b][t] \in Pending \cup {"ctxPush"} /\ lease[c][t] \in Pending \cup {"ctxPush"}
         => b = c
HasHandle(t) ==
  pc[t] \in {"turn", "fold", "foldHeld", "answer", "summarize"} =>
    \A b \in Buckets : b = HandlePool(t) => lease[b][t] = "handle"
FitsKind(t) ==
  /\ pc[t] \in {"turn", "fold", "foldHeld", "answer", "rewrite"} => Kind[t] \in Chats
  /\ pc[t] = "acquire" => Kind[t] \in Chats \cup {"compact"}
  /\ pc[t] = "summarize" => Kind[t] = "compact"
  /\ pc[t] = "fold" => UtilityPool # HandlePool(t)
  /\ pc[t] = "foldHeld" => UtilityPool \in {HandlePool(t), NoPool}
WellPlaced(t) == WaitsForOne(t) /\ HasHandle(t) /\ FitsKind(t)
EveryoneWellPlaced == \A t \in Tasks : WellPlaced(t)

(* Once every request is over and no push is under way, every bucket holds  *)
(* all of its tokens again, those it was filled with and those that were    *)
(* out at that moment: no answer, failure or disconnect cost one.           *)
TokensComeBack ==
  ((\A t \in Tasks : pc[t] = "idle" \/ Over(t)) /\ crashes = 0) =>
    \A b \in Buckets : queue[b] = Filled(b) + surplus[b]

(* With a reserved bucket in every process, no interactive call ever waits, directly or      *)
(* through others, for a background call.                                   *)
Background == {t \in Tasks : Kind[t] \in {"pass", "hyq"}}
BackgroundStaysApart ==
  (\A p \in Procs : Slots[p][Reserved] > 0) =>
    \A t \in Tasks \ Background : Blockers(t) \cap Background = {}

(* Every request that arrives is over some day, without a single timeout as *)
(* long as no token is lost.                                                *)
EveryRequestEnds ==
  \A t \in Tasks : (pc[t] # "idle") ~> Finished(t)
=============================================================================
