# Verification of PraixisEngine

PraixisEngine is a FastAPI service that puts chat, retrieval-augmented answers,
document summaries and comparisons in front of a few LLM backends. Its hard part
is shared state: a fixed number of GPU slots handed out through Redis, chat
histories that several requests rewrite as a whole, a vector store that uploads
and background jobs change at the same time, API keys that are rotated while
they are used, and a registry file that is saved while processes restart from
it. This directory holds TLA+ models of that state, TLC runs that check them on
small instances, and TLAPS proofs of the results for any size.

Paths below are relative to the repository; `concurrency.py` without a directory
is `src/src/utils/concurrency.py`, and so on.

## 1. Inventory

| Component | State | Operations | Interacts with |
|---|---|---|---|
| GPU slot queues (`concurrency.py`, `main.py`) | one Redis list of tokens and one sentinel key per bucket; per call a context manager or a `SlotHandle` | `init_gpu`, `reset_gpu_counter`, `_acquire` (BLPOP), `_release` (RPUSH), `gpu_slot`, `hq_gpu_slot`, `acquire_gpu_slot`, `SlotHandle.release`, `get_gpu_status` | every LLM call; all worker processes share the lists |
| Callers of the queues (`chat_controller.py`, `rag_controller.py`, `llm_runner.py`, `chat_service.py`, `rag_service.py`, `streaming.py`, `questions.py`) | coroutine positions, `_chunk_sem`, the semaphore of a question pass, the fan-out's task list | chat, ask, compact, file summary, RAG summary, comparison, question pass; failure, disconnect, buffered and streamed endings | slot queues, sessions |
| Chat sessions (`store/sessions.py`, `session_stream.py`, `compaction.py`) | per session a history, a model binding and usage counters in Redis, each with its own expiry | open a turn, answer, undo, compact, delete, wipe an app | slot queues (a compaction is an LLM call), usage |
| Hypothetical questions (`vectordb/questions.py`, `rag_controller.py`) | a pending marker per file in Redis, question rows in the store | a pass after an upload, regenerate, status | slot queues, both stores |
| pgvector store (`vectordb/pg/`) | chunks and questions in Postgres, questions cascade with chunks | add, replace, delete a file or a collection, store and purge questions, hybrid and question search, windows, whole documents | question passes, fusion |
| Chroma store (`vectordb/chroma/`) | a chunk collection and a question collection, no transactions | the same operations, a per-collection lock around an insert and its rollback | question passes, fusion |
| Rank fusion and windows (`fusion.py`) | none | `rrf_fuse`, `merge_windows`, `group_hits_by_source` | both stores' reads |
| API keys (`store/api_keys.py`, `security.py`, `admin_controller.py`) | one hash entry per key | issue, rotate, revoke, look up | registry, limiter, audit |
| Rate limiter, authentication failures (`limiter.py`, `security.py`) | a counter with an expiry per window | count, refuse | every request |
| Model registry and resolution (`models/registry.py`, `dependencies/models.py`) | the registry a process has loaded, and `models.yaml` | build, load, save the file, resolve the model of a request | keys, sessions |
| Audit log (`store/audit.py`) | a capped list for all events, one per app | append and trim, read a page | keys, registry, requests |
| Usage counters (`store/usage.py`, `ai_client.py`) | counters per app, day, model and session | record, read, reset | sessions |
| Chunking, source lists and stream markers (`chunking.py`, `streaming.py`) | none | functions of a text | uploads, streams |
| Embeddings, file parsing, logging, OpenAPI, routes, admin panel | none worth a model | calls into libraries, wiring | |

What makes them hard, and what makes them correct:

- **GPU slot queues.** Several processes fill, pop and push the same lists. A
  process can die between a pop and a push; a reset can rebuild a list while its
  tokens are out; a cancelled BLPOP can lose a token the server has popped.
  Each process builds the bucket sizes from its own environment, so a resize that
  rolls over the workers has old and new sizes side by side.
  Correct means: no step creates or destroys a token unaccounted for; the cap
  holds across processes; nobody serves from a list no running configuration
  asked for once a roll-out is over; the status does not overstate.
- **Callers.** Chats and compactions keep a slot while they ask for another pool's;
  fan-outs wait for sub-calls that wait for permits and slots. Correct means: no
  circle of waiting requests, every token back after any ending, the calls on one
  backend never above its slots, interactive work never behind background work.
- **Sessions.** A turn reads a history, works for minutes, and writes the whole list
  back; an undo, a compaction, a delete or another turn can come between. Correct
  means: whatever is stored is a conversation (each answer behind its question,
  one summary, nothing twice), a request that was alone loses nothing, a
  deletion in peace is final.
- **Questions and stores.** A pass works for minutes on chunks it read before, while
  the file is replaced or deleted. Chroma has no transactions, Postgres runs READ
  COMMITTED. Correct means: replacing a file never makes it unsearchable, on
  pgvector no question outlives its chunk, regenerates of a file take turns, and a
  request that ran alone leaves its file in order whatever races came before.
- **Reads.** A query ranks rows with some statements and fetches windows of text with
  later ones. Correct means: no text twice, no neighbour left out, what two search
  paths found first, never half a version of a file in a passage.
- **Keys.** A rotation is three commands. Correct means: an app keeps a valid key
  through any rotations, and one that met nobody leaves exactly the keys expected.
- **Registry and resolution.** The file is replaced by a rename, or in place where it is
  a mount point. Correct means: a process never finds a file it cannot boot with where
  it can be replaced, a save happens as a whole or, after one error, not at all, and no
  request is served with a model outside its key's scope or its process's registry.
- **Limiter and audit.** A window is computed before it is counted; a page is read
  with two commands. Correct means: no bucket lets more through than the limit, be they
  counted in time or late, and a page is a gapless stretch of the log.

`PROJECT.json` lists every hazard with its line under `hazards`.

## 2. Plan

The order was from the state that everything depends on outward:

1. `SlotPool`, `GpuSlots`, `LlmCalls` and their proofs.
2. `Sessions`, `SessionsProofs` and `HistoryProofs`.
3. `VectorDb`, `PgStore`, `ChromaStore`, `Questions` and `QuestionsProofs`; then
   `Fusion` and `Retrieval`, which reads what they write, and `RetrievalProofs`.
4. `Registry`, `AuditLog`, `RegistryFile`, `ApiKeys`, `Gate`, and `GateProofs`,
   `LedgerProofs`.

All of it is done. Open are the parts in section 6.

## 3. Modules

| Modules | Compose as |
|---|---|
| `SlotPool` | abstract; `GpuSlots` refines it |
| `GpuSlots` ← `LlmCalls` | the handlers are a special case of the queues' general callers |
| `Sessions` | on its own |
| `VectorDb` ← `PgStore`, `ChromaStore` ← `Questions` | the state of a store, its two backends, the passes over either |
| `Fusion` ← `Retrieval` | pure functions, and the reads that use them |
| `Registry` ← `AuditLog` ← `RegistryFile` ← `ApiKeys` ← `Gate` | values, then each state with its own handlers, then the way of a request through all of them |
| `GpuSlotsProofs`, `LlmCallsProofs`, `SessionsProofs`, `HistoryProofs`, `QuestionsProofs`, `GateProofs`, `LedgerProofs`, `RetrievalProofs` | theorems |
| `MC*` | the instances TLC checks |

Some definitions are followed or preceded by one with the comment "mutant", the same
code with a mistake in it: each property is known to fail for one of them
(`mutants` in `PROJECT.json`), so that none holds by accident.

### GpuSlots

Composes nothing; `LlmCalls` extends it. All tokens are the string `"1"`, so a
list is its length (`queue`). `sentinel` is the init key. Redis serves blocked
clients in arrival order: `ahead[b][t]` is the set of clients that blocked on
`b` before `t`. `lease[b][t]` follows one BLPOP from the wait, over the window
between the server's pop and the client's read (`popped`), the possession
(`ctx` in a context manager, `handle` in a `SlotHandle`), to the push back
(`ctxPush`, which a cancellation can interrupt, and `taskPush`, the shielded
task, which it cannot).

| Action | Code |
|---|---|
| `StartProc`, `InitRead`, `InitFill` | the lifespan hook and the two commands of each iteration of `init_gpu`, so two processes interleave between them |
| `ResetStart`, `ResetFill` | `reset_gpu_counter`, one MULTI per bucket |
| `Blpop`, `Serve`, `Timeout`, `Receive` | `_acquire`, its server side, `GPUBusyError`, its return |
| `ExitCtx`, `ReleaseHandle`, `Push` | the `finally` of the context managers, `SlotHandle.release` with its `_released` flag, RPUSH |
| `CancelWait`, `CancelLoses` | `CancelledError` at the awaits of `_acquire` and `_release` |
| `Crash` | a process that dies; its connections close, the lists stay |

`Slots[p]` are the sizes process `p` was configured with. A worker that is restarted with
another environment is another process of `Procs` in the place of the same `Worker`: it can only
start when none of that worker's other incarnations runs. Which buckets there are is the
same for all processes; an old and a new configuration differ in sizes only.
`PushFails` is an RPUSH that raises after `_released` is set.

`leaked` and `surplus` are ledgers of the model: tokens lost since the last fill, and
tokens out at the last fill. The callers are the most general ones, any task may
do anything in any order, so what is shown here holds of every caller.
`FirstSizes` names the sentinels a deployment can start from: none, those of an
older configuration, the current ones; the lists start full, because what the
previous deployment lost would only be a smaller starting number.

`SlotPool` is what the callers may rely on: a permit is granted only below the limit, may be
given up by anyone at any time, and only an explicit rebuild moves the limit. `PoolSpec` is
the refinement, with `inUse` the tasks whose lease holds a token and `limit`
the sentinel plus the tokens that were out when the list was filled. A rebuild may set any
of the sizes some process has.

### LlmCalls

One task per request and per LLM call it fans out to; `Kind` gives the
programme, `Parent` the request. `pc` is the await the task is in:

- chat, ask: `rewrite` (ask only, `reformulate_query` on the utility pool),
  `acquire`, `turn` (`open_user_turn`), `fold` or `foldHeld`
  (auto-compaction in its own slot, or in the caller's when the pools coincide),
  `answer`, `close`, and `closeAgain` when the buffered path releases twice;
- compact: `acquire` on the utility pool, `summarize`, `close`;
- summary, compare: `fanout`, `gather` over chunk tasks that pass `_chunk_sem`
  (`sem`) and take a slot each (`call`), for compare `consolidate` over the two
  digests, then `call` for the streamed reduction;
- pass: `fanout` and `gather` over `hyq` tasks that take background slots.

`hit` is the cancellation of a task: once (`task.cancel()` from
`map_calls_iter`), or always (the cancel scope of a streaming response, which
strikes at every further await). `Struck` raises it at the current await,
`Unwind` says which handler catches it. `Server` lets processes start and crash.
Every action either is a step of `GpuSlots` or leaves its variables alone, and the
property `Spec` of run `llm_pools`, proved as `CallersAreGeneral`, says so. One thing a general
caller may meet is left out here: Redis answers every push of the handlers
(`PushFails` is only in `GpuSlots`, whose ledger counts the token it costs). The
assumption on the constants says what the code's configuration guarantees: chunks
and digests belong to a summary or comparison, question calls to a pass, and the
reserved bucket serves nobody's model or utility role.

A pool of `none` is `NoPool`. `NextRequest` lets a client come back with fresh tasks.

### Sessions

A session is three keys: `history`, the model binding and the usage counters;
`due[k][s]` is when each expires. A request reads once (`seen`), works on `copy` and
writes the whole list back. One Redis command is one action, so everything else
can happen between two of them.

| Action | Code |
|---|---|
| `BeginTurn`, `Reformulate` | `handle_chat`, `handle_rag_question` up to `open_user_turn` |
| `Fetch`, `Refresh` | `get_or_create_session` (an id that expired is replaced by a new one), its EXPIRE |
| `Bind`, `Compose`, `Save` | the rest of `open_user_turn`: bind or touch the model, append the message, compact, persist |
| `Record`, `Finish` | `stream_assistant_turn`: usage of the last chunk; the shielded write, or none when nothing was streamed |
| `UndoRead`, `UndoWrite` | `handle_undo_last_exchange` |
| `CompactRead`, `CompactFold`, `CompactWrite` | `handle_compact_session` |
| `Delete`, `DropModel`, `DropUsage` | `delete_session` |
| `Scan`, `WipeHistory`, `Wipe` | `delete_all_app_sessions`: SCAN then DEL, for each kind of key |
| `Die` | a crash, a failed command, a cancellation, at any await |
| `Tick` | the clock, and keys that expire |

A message is its role and what it tells: which request said or heard it. A summary tells
everything it was made from. That is all the properties need: they ask where
messages are and whether they are lost, never what they say. `Cut`, `Compactable`,
`Compacted` and `Undone` are the list functions of `compaction.py` and the undo
handler, translated with their window alignment and their treatment of a prior summary.

Abstractions: whether a history is near the model's window
(`needs_compaction`) is a free choice wherever there is something to fold; the
model a binding names is left out, only its existence and expiry matter here;
SCAN is a snapshot; refused requests (404, 400) change nothing and have no
action; `history[s] = <<>>` is a missing key, since a stored history always has
its prompt.

### VectorDb, PgStore, ChromaStore, Questions

One collection of one app. The chunks of one upload are written and deleted together,
so they are one *copy* of the file, named by its upload; a question remembers its
file, the copy of its parent chunk, and the pass that wrote it. `company` records
which requests ever ran beside another one, `mixed` the files on which an upload's pass ran
or whose marker expired, `missed` the requests under which a lookup of the questions failed;
all three only serve properties.

| Action | Code |
|---|---|
| `Begin`, `Collect`, `Fail` | the handlers of `rag_controller.py`; `file_chunks` before a regenerate; any call that raises, at any point |
| `See`, `LockRows`, `Commit` (pg) | `add_file_to_rag_db`: the DELETE's snapshot, its row locks, the INSERT and COMMIT |
| `See`, `Erase` (pg) | `delete_file_from_collection`, `delete_collection` |
| `PgStoreQuestions` | `store_questions`: parents that exist and are locked, or `StaleChunksError` |
| `Open`, `Read`, `Count`, `Add`, `DeleteOld`, `Purge` (Chroma) | `add_file_to_rag_db`, one action per call, the lock from the count to the insert |
| `AddFails`, `Recheck`, `Drop`, `DropQuestions` | its rollback of a failed first insert, still under the lock |
| `Open`, `Read`, `DeleteChunks`, `Purge`, `CountLeft`, `Drop`, `DropQuestions` | `delete_file_from_collection`, `delete_collection`, without the lock |
| `CheckParents`, `Write` | `store_questions` on Chroma: the check, and then the write |
| `Schedule`, `AlreadyRunning` | `schedule_question_generation`, with NX for a regenerate |
| `Generate`, `PurgeOld`, `Abandon`, `Clear`, `Die` | `_run_generation` and `generate_and_store_questions`; a failed DEL of the marker, a process that ends |
| `Expire` | the marker's TTL |

READ COMMITTED is modelled by what it allows: a DELETE works on the rows that were
committed when it began, waits for those who locked one of them, and skips what
is gone by then. So two uploads of one name that overlap leave both copies; the model shows
it, and `LoneRequestsHeal` says the next upload alone repairs it. The Chroma lock is
a `threading.Lock` of one process, and one process is what the model has. The
`__hyq` collection is represented by its rows: code that looks it up does the same
whether it is missing or empty. `get_questions_collection` answers None to any exception, so
`Purge`, `PurgeOld` and `DropQuestions` may each leave the questions where they are and go
on as if they had deleted them (`Unask`); how many requests meet that is bounded by
`MissBound`.

### Fusion, Retrieval

`Fusion` has `rrf_fuse`, `merge_windows` and `group_hits_by_source` as operators; a
score is a whole number in units of 1/`Scale`, so nothing is rounded. `Retrieval`
runs a reader through `query_rag_db`, `search_collection` or the whole-document reads
(`AskHybrid`, `AskQuestions`, `Fuse`, `Fetch`, `ReadFile` on pgvector, with its two concurrent
statements and concurrent windows; `Open`, `CountMatching`, `Nearest`,
`CountQuestions`, `NearestQuestions`, `Fuse`, `Fetch`, `ReadFile`, `CallFails` on Chroma, one
after the other) while writers replace, delete and ask about files. How near a text
is to a question is left open: a search may answer any ranking of matching rows, and
fewer than it was asked for. That includes what fuses inside pgvector's `HYBRID_SEARCH`.

Writers are what a reader can see of those in `Questions`. A transaction on pgvector shows when it
commits, and its DELETE removed the copies its snapshot had (`seen`), which need not be all that
are stored by then: two uploads that overlap leave both copies, and `doubled` remembers
such files. Chroma's writers are one at a time, call by call, and their lookups of the question
index may fail in silence (`Unasked`). The questions of a copy are stored in one step,
with Chroma's check of the parents and its write together; `Questions` has them apart. Two
rows of one index, which only doubled files have, come in an order SQL leaves
open; the model takes the older copy first.

### Registry, AuditLog, RegistryFile, ApiKeys, Gate

`Registry` has `build_registry`, `resolve_model` and `resolve_model_or_400` as
operators on values, with the default and the two roles; whether an entry's own fields pass is
one bit of the entry, whether the pools and the top-level keys pass one bit of the
document. The state modules
are joined in `Gate`, where a request goes through the dependencies of a route.

| Action | Code |
|---|---|
| `AuditLength`, `AuditRange`; `LogEvent` in others | `get_audit_log` (LLEN, LRANGE), `log_event` (one pipeline) |
| `BeginSave`, `WriteTemp`, `Replace`, `SaveFails`, `LogSave` | the save handler and `write_registry_file` |
| `ReadBack`, `Truncate`, `WriteDoc`, `Restore` | `_overwrite_in_place`: what cannot be read is not restored, and a restore that fails is answered like one that worked |
| `Restart` | a process dies and loads the file (`load_registry`); its requests are over |
| `Issue`, `StoreIssued`, `RotateRead`, `StoreRotated`, `RemoveOld`, `Revoke`, `LogKey`, `KeyFails` | `generate_api_key`, `rotate_api_key`, `revoke_api_key` down to single Redis commands |
| `Authenticate`, `CountFailure`, `LogFailure` | `verify_api_key` and the counter of failures |
| `ComputeWindow`, `CountRequest`, `Tick` | `rate_limit`: the window, then INCR with EXPIRE; windows pass between them |
| `Resolve`, `Serve` | `resolve_request_model`; the handler, which may bind its session and log |

`root`, `issued`, `revoked`, `untidy`, `trail`, `found`, `met`, `errors` and `admitted` are ledgers of
the model; `admitted[k][w]` has every request of key `k` let through since the current window of
the clock began, by the bucket `w` it was counted in, late ones too. A counter expires a window's length
after its last increment, so `Tick` may drop any of them. There is one clock: that the workers
and replicas agree on the time is assumed. A key is named by the request that made it, an event by its request.
Whether `models.yaml` is a mount point of its own is `mounted`; only there can the
rename fail, and a removal has no fallback.

## 4. Runs

| Run | Question | Instance |
|---|---|---|
| `gpu` | do the lists keep count, respect the cap, report honestly and implement the semaphore | two workers, the first of which starts with a shared bucket of 2 before it is restarted with one of 1, the size the second has already; a reserved bucket of 1; a fresh Redis and one of the old sizes; one reset, one crash or restart; about 320,000 states |
| `gpu_race` | do the counts stay single when workers start together | three tasks, two processes, an empty Redis; **violated** |
| `llm_pools` | do requests wait in circles, end, and give tokens back | chat, ask, compact and a question pass on two pools of one slot with the utility role on the second; fairness |
| `llm_fanout` | the same for map-reduce, plus the backend cap and the separation of background work | a streamed comparison of two chunks and a digest, a chat without a slot, a question pass with a reserved slot, one crash; about 110,000 states |
| `llm_maploss` | does a failing map lose tokens | two chunks with room for both; **violated** |
| `sessions` | do histories stay conversations, and do quiet writes and deletes do what they say | two turns, an undo or compaction, a delete or wipe, expiry; about 890,000 states |
| `sessions_lost` | is nothing dropped on write | two turns; **violated** |
| `sessions_binding` | does the binding live as long as the history | one session, three ticks; **violated** |
| `stores` | are files searchable, questions rooted, passes exclusive and races repaired | three requests about a file of a collection that may hold another, on pgvector and on Chroma, from an empty store, a stored file and what a race left, with one lookup of the questions that fails; about 1.18 million states |
| `stores_dropped` | is only an empty collection dropped | an upload and a delete of different files on Chroma; **violated** |
| `gate` | do scopes, limits, keys, the file and the audit pages hold together | four requests, two processes, seven deployments over five plans, pages of two events; about 1.10 million states |
| `retrieval` | what can a reader see of a store that changes | one reader and two writes, which may overlap on pgvector, a file of two or five chunks and one of one; about 799,000 states |

**Why the bounds are enough.** In `gpu`, every race in this code is between two processes,
or between one process and what it left in Redis; a worker's restart with another size while
the other serves is the smallest roll-out, and the old incarnation can still refill behind the new
one; two buckets are the least that makes a rebuild or a reset partial; one task per process reaches
every lease in both buckets at once, since a task may hold both. `gpu_race` takes a third task so that the
extra token can be used. In `llm_pools` one slot per pool is
the hardest case for waiting, and the kinds cover every order in which a
request takes two pools. `llm_fanout` has one permit for two chunks, so that the
semaphore is contended. In `sessions`, `KeepPairs = 1` and a start of five messages
with a prior summary and an unanswered message put every branch of `_split_history` in
reach; with a time to live of one tick and a clock of two, a request that works across
a tick writes keys that outlive those it wrote before. In `stores`, a race is between two
requests and needs a third to meet what it left; the second file is needed for
collections that are empty of one file only. In `gate`, each of the five
plans mixes the operations that share state, with every interleaving of
up to three that matter: two rotations and a request, a save and a process that
restarts, two saves on a file that can be replaced and on a mount point, two requests at a limit of one
across two ends of a window (one counted late and one in time do both get through), a reader with
pages of two of a list capped at two while three events arrive. In `retrieval`, five chunks are the
least with which two windows of one file can overlap, touch or stand apart, and a copy of two beside one
of five shows a mixture; two writes are two overlapping uploads, or an upload and a delete; `RrfK = 1`
with a pool of two is the longest list for which the promise of `rrf_fuse` holds.

**Deadlock.** `CHECK_DEADLOCK FALSE` appears in the configurations of `Sessions`, `Questions`,
`Gate` and `Retrieval`: their requests are finite in number, and the model stops when
the last one is over. The queue and caller runs have no deadlock, since clients
always come back.

**Fairness.** `FairLlmSpec` assumes weak fairness of each task's own steps (the event
loop runs what is runnable and the backend answers or fails, which the client's
timeout ensures) and, per bucket, of Redis serving its line (BLPOP is served as soon as
the list has a token). Nothing is assumed of timeouts, cancellations, crashes
or new requests: in `llm_pools` `EveryRequestEnds` holds although nobody ever times out.
`TimedSpec` of `Questions` assumes only that Redis expires a marker that has a TTL;
`PendingEnds` then holds whichever processes die and whichever DEL fails.

### Disagreements between text and code

- `init_gpu` says that several workers do not multiply the counts; two that start
  together both rebuild, and the second one may refill a list whose tokens are
  out (`gpu_race`). `Conservation` bounds the damage: the excess is exactly the
  number of tokens that were out at the refill.
- `map_calls_iter` says cancelled tasks release their slots; a task cancelled
  between the server's pop and the client's read cannot (`llm_maploss`). The same
  window is open at a disconnect, and a second one in the bare `await _release` of
  the context managers. Without cancellations no ending of a request loses a token
  (`llm_pools`, where the only cancelled request holds a `SlotHandle`, whose push is shielded).
- `persist_history` says nothing is dropped on write; a turn that overlaps
  another one of its session overwrites what that one stored (`sessions_lost`).
  `QuietWritesKeepAll` is what is true: a write drops nothing if nobody else wrote
  since the read.
- `open_user_turn` says the binding lives exactly as long as the history; the
  final write of the answer renews only the history (`sessions_binding`): one turn that ends normally,
  a tick after it began, leaves a history that outlives its binding by that tick.
- `delete_file_from_collection` on Chroma counts and drops in two calls without the lock
  that uploads take; an upload of another file that was answered in between loses
  its chunks (`stores_dropped`).

Further limits the models show, and which the properties therefore leave out:

- `reset_gpu_counter` says the next acquire drains a surplus. Each acquire is
  followed by a release, so the surplus stays; `GlobalCap` excludes buckets with one.
- A turn that is streaming while its session is deleted stores its answer afterwards and
  the history exists again. `DeletedStaysDeleted` speaks of deletions no other
  request overlapped.
- On Chroma a pass can write questions for chunks that were replaced since it looked. A
  comment there calls them harmless because they resolve to nothing; they resolve by file and
  index, so by the new copy's chunks. `PgKeepsParents` is stated for pgvector, and
  the next lone upload or regenerate removes them.
- An upload's own pass sets the marker without NX, and every pass clears it by name, so one
  may clear the marker of another. `PassesTakeTurns` and `OneIndexPerFile` speak of files
  on which only regenerates ran (`mixed`).
- `get_questions_collection` says it answers None when the index was never created; it does so
  whenever the lookup fails. An upload, a delete or a regenerate on Chroma then leaves the old
  questions and still succeeds, and a regenerate stores its own beside them.
  `LoneRequestsHeal` claims the questions only of requests outside `missed` (the chunks and the
  collection of all), `OneIndexPerFile` only for passes outside it.
- A regenerate deletes the old questions before it stores the new ones; if the store fails
  the file has none until it is regenerated again.
- While a Chroma upload is under way both copies of a file are stored: a passage can mix
  them, and a ranked list can name a chunk twice. A count that is stale when the search
  asks for that many rows makes the call fail. `OneCopyEach` and `BothPathsOutrank` are
  stated for pgvector.
- On pgvector the same is true of a file that two overlapping uploads have stored twice, until the next
  lone upload: `OneCopyEach` then still says that of each copy nothing is missing in between, and that no other file
  is mixed; `BothPathsOutrank` leaves the chunks of such files out.
- `rrf_fuse` says a chunk that two paths found outranks one that a single path found. It holds
  for lists up to `_RRF_K + 1`, 61 entries; a request for 16 to 20 results makes longer ones.
- On a mount point, two saves that overlap, or a crash in one, can leave an empty or torn
  file. So can a save alone that meets two errors: a write that fails and then a restore that fails, or
  a previous content that could not be read, which is then not restored. It is answered with the same 500 as a
  save that was undone. `FileAlwaysBoots` is stated for files that can be replaced;
  `SavesAllOrNothing` for saves that met no other one, and what it says of a failed one for a single
  failed call on the file (`errors`).
- When logging fails after a key was stored, the admin sees an error and the key is live; so it is when
  the reply to the SET is lost. Such keys make the operation `untidy` for `KeysAddUp`.
- A request can increment the bucket of a window that is over, or a new one of that name when the old
  one has expired, and is let through in the window that runs. So one window can let through
  its limit and as many late requests of the window before. `WindowHolds` is per bucket: as
  long as no request waits a whole window between the clock and the count, a window lets through twice its
  limit at most.
- While a resize rolls over the workers, one that still has the old size can refill a bucket behind one
  that has the new size. `ServesSizedBuckets` therefore says, of that time, that a bucket has a size some
  process is configured with; when every worker serves, a size that one of them has.

## 5. Proofs

Eight modules hold theorems, checked by TLAPS for every value of the constants that satisfies the
modules' named assumptions (requests and tasks are finitely many, bucket sizes are naturals,
sentinels such as "no entry" are not values, the chunks a Chroma store starts with lie in a collection,
and so on; TLC evaluates them on each run).

**Queues** (`GpuSlotsProofs`).

- `TypeCorrect`, the type invariant; it includes that no list goes below zero.
- `TokensConserved`: by induction from `TypeOK` and `Conservation` itself, over
  lemmas on how one task's change of lease changes `Cardinality(InUse(b))`, and
  how a crash splits that set in the part of its process and the rest.
- `CapIsGlobal` and `StatusHonest` follow from conservation.
- `SizedWhenServing`: `ServesSizedBuckets` is not inductive, since a process in the middle of its start
  says nothing of its first buckets; the strengthening `BootProgress` says that
  each bucket some process is past in its loop has a size of somebody's, and that there is a worker whose running
  incarnation, once past the bucket, agrees with its size: the one that filled it last. Since at most one
  incarnation of a worker runs (`OneIncarnation`), no fill can leave a bucket with nobody to agree.
- `ImplementsPool`: initial states map to initial states, and each action to a grant, a
  giving up, a rebuild or a stutter. A grant needs `Conservation` (the list is not empty,
  so fewer are out than the limit); that an exact start has nothing outside needs
  `LeasesNeedProcs` (no lease belongs to a process that is not up).

**Callers** (`LlmCallsProofs`).

- `CallersAreGeneral`: every action of `LlmCalls` is a step of `GpuSlots` or leaves its
  variables alone, so all theorems above hold of the handlers.
- `LlmTypeCorrect`, and `CallersWellPlaced`, the strengthening that ties `pc` to the
  leases: a task waits for at most the bucket its stage names, and has its
  handle from the turn until it closes.
- `BackendNeverOversubscribed`: each call that runs on a backend's hardware can be charged to
  a token of that bucket held by the same task, including a compaction in its
  caller's slot; with `CapIsGlobal` the calls never outnumber the slots.
- `NobodyWaitsInCircles`, from `EveryoneFits`: which stage a task of each kind can be in, and
  which lease it can have there. Then whoever waits holds nothing, except a chat that compacts: it
  has a token of its own pool and waits for the utility pool, where nobody waits with a token
  in hand. So every set of waiting tasks has one that waits for somebody outside it.
- `BackgroundApart`: interactive tasks and question calls draw from disjoint buckets and
  semaphores when the reserved bucket has slots.
- `EveryTokenComesBack`, of `TokensComeBack`, under two hypotheses on the constants. They are not
  conveniences: without each of them the code does lose tokens. `SmallMaps` (no document is mapped in
  several chunks) leaves nobody for `map_calls_iter` to cancel, which is `llm_maploss`. `PlainStreams` (only chats
  whose compaction runs in their own slot are streamed) keeps a disconnect from striking a wait or a context manager,
  the same loss at another await. Under them `NothingLeaks` is inductive: without a crash
  a cancelled task is past its acquire and holds at most a `SlotHandle`, whose push is shielded (`Sheltered`), and
  `leaked` stays zero. With `Conservation` a bucket nobody uses then has the tokens it was filled with
  and those that were out at that moment. `llm_pools` is an
  instance of the hypotheses.

**Sessions** (`SessionsProofs`, `HistoryProofs`). `PeacefulDeletesStay`, from `AtPeace`: a turn that has not
fetched its history has made no session anyone could have seen (`Unmade`); nobody at work
on a deleted session is at a stage that writes, and each key left of it is one that
a delete or wipe under way, or one that died, was going to remove (`Quiet`).

`HistoryProofs` has the properties of the lists themselves, for any length of history.
`HistoriesStayWellFormed`, `UndosTakeOneExchange` and `FoldsSettle` follow from one invariant,
`AtPeace /\ Sound`. A conversation is not well-formed by itself for ever: a
reply may be stored only where the history has its question and nobody's reply to it yet. So
`Sound` says of each copy at work what its request has still to add to it, and that no stored history, and
no other copy, holds what a request has not said yet. `WellFormed` had to be strengthened to be kept by the
compaction: a fold cuts after the prelude (`Prelude`, the prompt and the summary) and at a user message, so
that no answer is torn from its question; and by the undo, which takes a suffix that begins with a user
message. The lemmas on `Lead`, `Cut`, `Compacted` and `Undone` state what those
functions keep of any well-formed list; `FoldsSettle` is arithmetic on their lengths. `QuietWritesKeep` is
an action property: a write is what was read, plus what was said, minus nothing, since a summary tells all it was made from.
`HistoriesTyped` is the type invariant.

**Stores** (`QuestionsProofs`).

- `TypeCorrect`; `PgParentsKept`, with `OnPg` (on pgvector no request is at a stage of Chroma's).
- `RegeneratesTakeTurns` and `IndexesStayPure`, with `Orderly`: at most one pass per unmixed
  file, covered by the marker, and past its purge no question of another pass is left unless
  its lookup failed.
- `ReplacingKeepsCopies`, with `Replacing`: on pgvector an upload deletes rows of its own file
  in the transaction that inserts its copy. On Chroma there is a rank of the copies by age
  (`NewestStays`): an upload deletes only copies older than its own, and each file that is stored
  has a copy no upload at that point is newer than; the collection an upload may drop is
  one that nobody can have added to under the lock.
- `LoneRequestsLeaveOrder` (`LoneRequestsHeal`), with `LoneInOrder`: whoever is outside
  `company` is the only one at work, so at each stage what it has read is still what is stored
  (`Uploading`, `Deleting`, `Regenerating`); nobody has a question of its pass before that pass
  stores one (`Unasked`), its copy is new (`Fresh`), and Chroma's chunks lie in a collection
  (`Shelved`). What these say of questions is only claimed while no lookup of them failed under
  the request; `MissedGrows` keeps that premise. On pgvector that no question of the file is left
  rests on `OnPg`, the cascade.

**Gate** (`GateProofs`, `LedgerProofs`).

- `GateTyped`, the type invariant of all that `Gate` composes.

- `LimitHolds`, from `Counted`: of the requests let through since the window of the clock began, those
  counted in a bucket are no more than the bucket's counter says. Whoever increments it beyond the limit is
  refused, and a counter that expires does so at the end of a window, when the reckoning starts again.
- `NobodyLockedOut`, from `KeysKept`: keys can be ranked so that rotations only go upwards, and
  the highest of all keys ever made is valid.
- `KeysBalance`, from `Counting`: until something overlaps or fails at most one key operation is under
  way, and valid and revoked keys number one more than those issued, plus the one a rotation has yet to remove.
- `FileNeverBreaks` and `SavesAtomic`, from `FileKept`: a save writes only documents that passed, and one that met
  no other (`Undisturbed`) finds in the file, up to its truncation, what was there when it began, and has
  that to put back unless a first call has failed it (`Knows`).
- `ScopeHolds`, from `Scoped`: the entry a request carries is the scope its key's root was
  given, through any chain of rotations; a registry never changes under a request,
  since a process that restarts ends its requests. `SessionsKeepModel` needs no invariant
  but the types of the registry.
- `PagesContiguous`, from `Logged`: a list is always the tail of all it ever got; what a reader
  was told stays within it while it grows and is trimmed; and
  reversing the cut of a tail gives a stretch of the whole.

**Reads** (`RetrievalProofs`). The three properties follow from one invariant, `ReadInv`
(`ReadsKeepInvariant`), and from lemmas about what the operators of `Fusion` compute.

- `ReadInv` says that on pgvector the rows of every copy are a whole copy, those of a file that is not
  `doubled` one copy, no copy has a number above that of the last write, a question's parent
  is stored, and no answer of a search names a chunk of a file that is not doubled twice or is longer than
  the pool; that what a reader has fused and what it is to fetch are what its answers fuse to; and that what
  it has fetched shows no copy half-way. It is inductive because a write removes whole copies and adds one,
  and a fetch is one statement.
- `NoFileHalfSeen`: of each copy the rows between two indices are there or end where the copy ends, and of
  one copy they are, in the order of the statement, gapless (`SliceOk`).
- `PassagesStayRuns` needs nothing of the store: `merge_windows` leaves runs that cover exactly
  the windows of the indices (`MergeIs`, by `JoinKeeps` for one more window), and the ranges of
  different files are put together in `WindowsIs`.
- `TwoPathsOutrankOne`: a score is the sum of its shares (`ScoreSums`), each an exact fraction of the unit
  (`ShareIs`), two of which, at ranks up to K + 1, outweigh any one (`TwoOutweighOne`); and `rrf_fuse` sorts by
  score (`FusedIs`). The hypothesis that the pool is no longer than K + 1 is the code's
  own boundary (section 4): `candidate_pool` is four times `n_results`, at least 40, so it holds for up to 15 results.

The folds these operators are made of are recursive functions, and induction over data is out
of the prover's reach as a library theorem, whose hypothesis is an operator. `FoldExists`, `FoldStaysIn`, `LeftFold`
and `Climb` do it once by hand, through the least set or number where a claim would fail, which
well-foundedness of the naturals rules out; the other lemmas use them. `SortedIs` does the same for a sort by rank.

**Only model-checked.** `EveryRequestEnds` and `PendingEnds` are liveness under fairness, out of the
prover's reach. Every other property of a passing run is a theorem.

## 6. Not modelled

- Chunking: functions of a text whose cuts depend on embeddings and on a
  library's splitter. Embeddings, file parsing, logging, OpenAPI, health, the routes and the
  admin panel's views: calls into libraries and wiring, with no state of their own.
- The lifetime and daily usage totals: increments and sums, never read back to decide
  anything. `Sessions` has the session counters as far as they exist and expire.
- The encoding of source lists and stream markers: string formatting. `guard_stream` and the
  response that gives its slot back are part of `LlmCalls`.
- In the stores: listings, the connection pool, Chroma's legacy collection names and
  their length limit, several processes on one Chroma directory, and what a distance or a
  text rank is.
- API key entries that do not parse, and how one field of a registry entry is validated.
- Redis, Postgres, Chroma and the file system are external: the models take from
  them that a command, a MULTI, a statement, a call or a system call is atomic, that
  blocked clients are served in order, that keys with a TTL expire, READ COMMITTED, and
  that a rename replaces a file as a whole.
