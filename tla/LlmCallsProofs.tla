--------------------------- MODULE LlmCallsProofs ---------------------------
(***************************************************************************)
(* The request handlers use the queues the way module GpuSlots allows, so  *)
(* its theorems hold of them.  Four things follow: no LLM call runs without *)
(* a token that covers it; nobody waits in a circle; interactive calls do  *)
(* not wait for background ones; and the tokens come back.                 *)
(***************************************************************************)
EXTENDS LlmCalls, GpuSlotsProofs

LEMMA TargetIsBucket ==
  ASSUME NEW t \in Tasks, Target(t) # NoPool
  PROVE  Target(t) \in Buckets
<1>1. HandlePool(t) \in Buckets \cup {NoPool} /\ ModelPool[t] \in Buckets \cup {NoPool}
  BY LlmCallsAssumption DEF HandlePool
<1>2. HyqBucket(t) \in Buckets \cup {NoPool}
  BY LlmCallsAssumption DEF HyqBucket
<1>3. UtilityPool \in Buckets \cup {NoPool}
  BY LlmCallsAssumption
<1> QED
  BY <1>1, <1>2, <1>3 DEF Target

(* Every step of a request handler is a step of the general callers, or    *)
(* touches no token.                                                       *)
LEMMA ProceedIsGeneral ==
  ASSUME NEW t \in Tasks, Proceed(t)
  PROVE  (\E b \in Buckets : TokenStep(t, b)) \/ UNCHANGED gpuVars
<1>1. CASE Ask(t)
  <2>1. Target(t) \in Buckets
    BY <1>1, TargetIsBucket DEF Ask
  <2> QED
    BY <1>1, <2>1 DEF Ask, TokenStep
<1>2. CASE \E b \in Buckets : Reply(t, b) \/ Leave(t, b) \/ PushLands(t, b)
  BY <1>2 DEF Reply, Leave, PushLands, TokenStep
<1>3. CASE Close(t)
  <2>1. HandlePool(t) \in Buckets \cup {NoPool}
    BY LlmCallsAssumption DEF HandlePool
  <2> QED
    BY <1>3, <2>1 DEF Close, TokenStep
<1>4. CASE Arrive(t) \/ FanOut(t) \/ EnterSemaphore(t) \/ Unmetered(t) \/ Turn(t)
           \/ HeldCallEnds(t) \/ Gathered(t) \/ MapFails(t) \/ Consolidated(t) \/ Drained(t)
  BY <1>4 DEF Arrive, FanOut, EnterSemaphore, Unmetered, Turn, HeldCallEnds, Gathered,
              MapFails, Consolidated, Drained
<1> QED
  BY <1>1, <1>2, <1>3, <1>4 DEF Proceed

LEMMA StepIsGeneral == [LlmNext]_llmVars => [Next]_gpuVars
<1> SUFFICES ASSUME [LlmNext]_llmVars
             PROVE  Next \/ UNCHANGED gpuVars
  OBVIOUS
<1>1. ASSUME NEW p \in Procs, Server(p) PROVE Next
  BY <1>1 DEF Server, Next, ProcStep
<1>2. ASSUME NEW t \in Tasks, Proceed(t) PROVE Next \/ UNCHANGED gpuVars
  BY <1>2, ProceedIsGeneral DEF Next
<1>3. ASSUME NEW t \in Tasks, NextRequest(t) \/ Disconnect(t) PROVE UNCHANGED gpuVars
  BY <1>3 DEF NextRequest, Disconnect
<1>4. ASSUME NEW t \in Tasks, Struck(t) PROVE Next \/ UNCHANGED gpuVars
  BY <1>4 DEF Struck, Next, TokenStep
<1>5. ASSUME NEW t \in Tasks, NEW b \in Buckets, Redis(t, b) \/ GiveUp(t, b) PROVE Next
  BY <1>5 DEF Redis, GiveUp, Next, TokenStep
<1>6. CASE UNCHANGED llmVars
  BY <1>6 DEF llmVars
<1> QED
  BY <1>1, <1>2, <1>3, <1>4, <1>5, <1>6 DEF LlmNext

(* The handlers are a special case of the general callers of GpuSlots.     *)
THEOREM CallersAreGeneral == LlmSpec => Spec
<1>1. LlmInit => Init
  BY DEF LlmInit
<1> QED
  BY <1>1, StepIsGeneral, PTL DEF LlmSpec, Spec

-----------------------------------------------------------------------------
LEMMA StagesReached ==
  ASSUME NEW t \in Tasks
  PROVE  /\ FoldAt(t) \in Stages /\ Busy(t) \in Stages /\ Unwind(t) \in Stages
         /\ pc[t] \in {"acquire", "rewrite", "fold", "foldHeld", "answer", "summarize", "call"}
              => After(t) \subseteq Stages
  BY DEF FoldAt, Busy, Unwind, After, Stages

LEMMA GotoTyped ==
  ASSUME pc \in [Tasks -> Stages], NEW t \in Tasks, NEW s \in Stages, Goto(t, s)
  PROVE  pc' \in [Tasks -> Stages]
  BY DEF Goto

LEMMA SpawnTyped ==
  ASSUME pc \in [Tasks -> Stages], NEW t \in Tasks, NEW s \in Stages, NEW K,
         NEW w \in Stages, Spawn(t, s, K, w)
  PROVE  pc' \in [Tasks -> Stages]
  BY DEF Spawn

(* Where a call that has a lease pending can be. *)
LEMMA PendingAt ==
  ASSUME NEW t \in Tasks, NEW b \in Buckets, b = Target(t)
  PROVE  pc[t] \in {"acquire", "rewrite", "fold", "call"}
  BY LlmCallsAssumption DEF Target

(* A step that moves one task leaves the others where they are. *)
LEMMA OthersStay ==
  ASSUME NEW u \in Tasks, WellPlaced(u), pc'[u] = pc[u],
         \A b \in Buckets : lease'[b][u] = lease[b][u]
  PROVE  WellPlaced(u)'
  BY DEF WellPlaced, WaitsForOne, HasHandle, FitsKind, Target

LEMMA GotoMoves ==
  ASSUME pc \in [Tasks -> Stages], NEW t \in Tasks, NEW s, Goto(t, s)
  PROVE  pc'[t] = s /\ \A u \in Tasks \ {t} : pc'[u] = pc[u]
  BY DEF Goto

LEMMA LeaseSets ==
  ASSUME TypeOK, NEW t \in Tasks, NEW b \in Buckets, NEW s, SetLease(t, b, s)
  PROVE  /\ lease'[b][t] = s
         /\ \A c \in Buckets \ {b} : lease'[c][t] = lease[c][t]
         /\ \A u \in Tasks \ {t}, c \in Buckets : lease'[c][u] = lease[c][u]
  BY DEF SetLease, TypeOK

(* A task that waits for nothing can go anywhere its kind and handle fit. *)
LEMMA FreeMove ==
  ASSUME EveryoneWellPlaced, NEW t \in Tasks,
         \A b \in Buckets : lease[b][t] \notin Pending,
         \A b \in Buckets : lease'[b][t] = lease[b][t],
         HasHandle(t)', FitsKind(t)'
  PROVE  WellPlaced(t)'
<1>1. \A b \in Buckets : lease'[b][t] \notin Pending
  OBVIOUS
<1>2. WaitsForOne(t)'
  BY <1>1 DEF EveryoneWellPlaced, WellPlaced, WaitsForOne, Pending
<1> QED
  BY <1>2 DEF WellPlaced

LEMMA NotWaiting ==
  ASSUME EveryoneWellPlaced, NEW t \in Tasks,
         Idle(t) \/ pc[t] \notin {"acquire", "rewrite", "fold", "call"}
  PROVE  \A b \in Buckets : lease[b][t] \notin Pending
<1>1. CASE Idle(t)
  BY <1>1 DEF Idle, Pending
<1>2. CASE pc[t] \notin {"acquire", "rewrite", "fold", "call"}
  BY <1>2, PendingAt DEF EveryoneWellPlaced, WellPlaced, WaitsForOne
<1> QED
  BY <1>1, <1>2

(* A task that gives up, leaves or loses what it was waiting for. *)
LEMMA GivingUp ==
  ASSUME TypeOK, EveryoneWellPlaced, NEW t \in Tasks, NEW b \in Buckets,
         lease[b][t] \in Pending \cup {"ctxPush"},
         NEW l \in {"none", "ctxPush"}, SetLease(t, b, l),
         NEW s \in {"acquire", "answer", "close", "drain", "done", "failed"}, pc'[t] = s,
         s = "acquire" => Kind[t] \in Chats,
         s = "answer" => pc[t] = "fold" /\ b = UtilityPool
  PROVE  WellPlaced(t)'
<1>1. /\ lease'[b][t] = l
      /\ \A c \in Buckets \ {b} : lease'[c][t] = lease[c][t]
  BY LeaseSets
<1>2. \A c \in Buckets \ {b} : lease[c][t] \notin Pending \cup {"ctxPush"}
  BY DEF EveryoneWellPlaced, WellPlaced, WaitsForOne
<1>3. \A c \in Buckets : /\ lease'[c][t] \notin Pending /\ lease'[c][t] # "ctx"
                         /\ lease'[c][t] = "ctxPush" => c = b
  BY <1>1, <1>2 DEF Pending
<1>4. WaitsForOne(t)'
  BY <1>3 DEF WaitsForOne
<1>5. HasHandle(t)' /\ FitsKind(t)'
  <2>1. CASE s = "answer"
    <3>1. Kind[t] \in Chats /\ UtilityPool # HandlePool(t)
      BY <2>1 DEF EveryoneWellPlaced, WellPlaced, FitsKind
    <3>2. \A c \in Buckets : c = HandlePool(t) => lease[c][t] = "handle"
      BY <2>1 DEF EveryoneWellPlaced, WellPlaced, HasHandle
    <3>3. \A c \in Buckets : c = HandlePool(t) => lease'[c][t] = "handle"
      BY <1>1, <2>1, <3>1, <3>2
    <3> QED
      BY <2>1, <3>1, <3>3 DEF HasHandle, FitsKind, HandlePool
  <2>2. CASE s # "answer"
    BY <2>2 DEF HasHandle, FitsKind
  <2> QED
    BY <2>1, <2>2
<1> QED
  BY <1>4, <1>5 DEF WellPlaced

CallerInv == pc \in [Tasks -> Stages] /\ EveryoneWellPlaced

(* One task moves, the others stay. *)
LEMMA OneMoves ==
  ASSUME CallerInv, NEW t \in Tasks, pc' \in [Tasks -> Stages], WellPlaced(t)',
         \A u \in Tasks \ {t} : pc'[u] = pc[u] /\ \A b \in Buckets : lease'[b][u] = lease[b][u]
  PROVE  CallerInv'
<1>1. ASSUME NEW u \in Tasks \ {t} PROVE WellPlaced(u)'
  BY <1>1, OthersStay DEF CallerInv, EveryoneWellPlaced
<1> QED
  BY <1>1 DEF CallerInv, EveryoneWellPlaced

(* A task that waits for nothing goes to s, no token moves. *)
LEMMA FreeGoto ==
  ASSUME CallerInv, NEW t \in Tasks, UNCHANGED lease, NEW s \in Stages, Goto(t, s),
         Idle(t) \/ pc[t] \notin {"acquire", "rewrite", "fold", "call"},
         HasHandle(t)', FitsKind(t)'
  PROVE  CallerInv'
<1>1. pc' \in [Tasks -> Stages]
  BY GotoTyped DEF CallerInv
<1>2. \A b \in Buckets : lease[b][t] \notin Pending
  BY NotWaiting DEF CallerInv
<1>3. WellPlaced(t)'
  BY <1>2, FreeMove DEF CallerInv
<1>4. \A u \in Tasks \ {t} : pc'[u] = pc[u]
  BY GotoMoves DEF CallerInv
<1> QED
  BY <1>1, <1>3, <1>4, OneMoves

(* Stages in which nothing is asked of the task. *)
Plain == {"idle", "fanout", "sem", "call", "gather", "consolidate", "drain", "close",
          "closeAgain", "done", "failed"}

LEMMA PlainFits ==
  ASSUME NEW t \in Tasks, pc'[t] \in Plain
  PROVE  HasHandle(t)' /\ FitsKind(t)'
  BY DEF HasHandle, FitsKind, Plain

LEMMA PlainGoto ==
  ASSUME CallerInv, NEW t \in Tasks, UNCHANGED lease, NEW s \in Plain, Goto(t, s),
         Idle(t) \/ pc[t] \notin {"acquire", "rewrite", "fold", "call"}
  PROVE  CallerInv'
<1>1. pc'[t] = s /\ s \in Stages
  BY GotoMoves DEF CallerInv, Plain, Stages
<1>2. HasHandle(t)' /\ FitsKind(t)'
  BY <1>1, PlainFits
<1> QED
  BY <1>1, <1>2, FreeGoto

LEMMA SpawnKeeps ==
  ASSUME CallerInv, NEW t \in Tasks, UNCHANGED lease, NEW s \in Plain, NEW K,
         NEW w \in {"sem", "call"}, Spawn(t, s, K, w),
         pc[t] \notin {"acquire", "rewrite", "fold", "call"}
  PROVE  CallerInv'
<1>1. pc' \in [Tasks -> Stages]
  BY SpawnTyped DEF CallerInv, Plain, Stages
<1>2. ASSUME NEW u \in Tasks PROVE WellPlaced(u)'
  <2>1. CASE pc'[u] = pc[u]
    BY <2>1, OthersStay DEF CallerInv, EveryoneWellPlaced
  <2>2. CASE pc'[u] # pc[u]
    <3>1. pc'[u] \in Plain /\ (u = t \/ pc[u] = "idle")
      BY <2>2 DEF Spawn, CallerInv, Plain
    <3>2. \A b \in Buckets : lease[b][u] \notin Pending
      BY <3>1, NotWaiting DEF CallerInv
    <3> QED
      BY <3>1, <3>2, PlainFits, FreeMove DEF CallerInv
  <2> QED
    BY <2>1, <2>2
<1> QED
  BY <1>1, <1>2 DEF CallerInv, EveryoneWellPlaced
-----------------------------------------------------------------------------
LEMMA ArriveKeeps ==
  ASSUME CallerInv, NEW t \in Tasks, Arrive(t) PROVE CallerInv'
<1>1. UNCHANGED lease /\ pc[t] = "idle"
  BY DEF Arrive, gpuVars
<1>2. PICK s \in {"acquire", "rewrite", "call", "fanout"} :
        /\ Goto(t, s)
        /\ s = "acquire" => Kind[t] \in Chats \cup {"compact"}
        /\ s = "rewrite" => Kind[t] \in Chats
  BY DEF Arrive, Chats
<1>3. pc'[t] = s /\ s \in Stages
  BY <1>2, GotoMoves DEF CallerInv, Stages
<1>4. HasHandle(t)' /\ FitsKind(t)'
  BY <1>2, <1>3 DEF HasHandle, FitsKind
<1> QED
  BY <1>1, <1>2, <1>3, <1>4, FreeGoto

LEMMA UnmeteredKeeps ==
  ASSUME CallerInv, NEW t \in Tasks, Unmetered(t) PROVE CallerInv'
<1>1. UNCHANGED lease /\ Idle(t) /\ Target(t) = NoPool
  BY DEF Unmetered, gpuVars
<1>2. PICK s \in After(t) : Goto(t, s)
  BY DEF Unmetered
<1>3. WellPlaced(t)
  BY DEF CallerInv, EveryoneWellPlaced
<1>4. CASE pc[t] \in {"rewrite", "call"}
  <2>1. s \in {"acquire", "done", "failed"} /\ (s = "acquire" => Kind[t] \in Chats)
    BY <1>2, <1>3, <1>4 DEF After, WellPlaced, FitsKind
  <2>2. pc'[t] = s /\ s \in Stages
    BY <1>2, <2>1, GotoMoves DEF CallerInv, Stages
  <2>3. HasHandle(t)' /\ FitsKind(t)'
    BY <2>1, <2>2 DEF HasHandle, FitsKind
  <2> QED
    BY <1>1, <1>2, <2>2, <2>3, FreeGoto
<1>5. CASE pc[t] = "acquire"
  <2>1. /\ s = IF Kind[t] = "compact" THEN "summarize" ELSE "turn"
        /\ Kind[t] \in Chats \cup {"compact"}
    BY <1>2, <1>3, <1>5 DEF After, WellPlaced, FitsKind
  <2>2. pc'[t] = s /\ s \in Stages
    BY <1>2, <2>1, GotoMoves DEF CallerInv, Stages
  <2>3. HandlePool(t) \notin Buckets
    BY <1>1, <1>5, LlmCallsAssumption DEF Target
  <2>4. HasHandle(t)' /\ FitsKind(t)'
    BY <2>1, <2>2, <2>3 DEF HasHandle, FitsKind, HandlePool, Chats
  <2> QED
    BY <1>1, <1>2, <2>2, <2>4, FreeGoto
<1> QED
  BY <1>4, <1>5 DEF Unmetered

LEMMA TurnKeeps ==
  ASSUME CallerInv, NEW t \in Tasks, Turn(t) PROVE CallerInv'
<1>1. UNCHANGED lease /\ pc[t] = "turn"
  BY DEF Turn, gpuVars
<1>2. PICK s \in {"answer", FoldAt(t), "close"} : Goto(t, s)
  BY DEF Turn
<1>3. /\ Kind[t] \in Chats
      /\ \A b \in Buckets : b = HandlePool(t) => lease[b][t] = "handle"
  BY <1>1 DEF CallerInv, EveryoneWellPlaced, WellPlaced, FitsKind, HasHandle
<1>4. s \in Stages /\ pc'[t] = s
  BY <1>2, GotoMoves, StagesReached DEF CallerInv, Stages
<1>5. HasHandle(t)' /\ FitsKind(t)'
  BY <1>1, <1>2, <1>3, <1>4 DEF HasHandle, FitsKind, FoldAt, HandlePool
<1> QED
  BY <1>1, <1>2, <1>4, <1>5, FreeGoto

LEMMA HeldCallEndsKeeps ==
  ASSUME CallerInv, NEW t \in Tasks, HeldCallEnds(t) PROVE CallerInv'
<1>1. UNCHANGED lease /\ Idle(t)
  BY DEF HeldCallEnds, gpuVars
<1>2. PICK s \in After(t) : Goto(t, s)
  BY DEF HeldCallEnds
<1>3. /\ s \in {"answer", "close"}
      /\ s = "answer" => pc[t] = "foldHeld"
  BY <1>2 DEF HeldCallEnds, After
<1>4. pc'[t] = s /\ s \in Stages
  BY <1>2, <1>3, GotoMoves DEF CallerInv, Stages
<1>5. HasHandle(t)' /\ FitsKind(t)'
  BY <1>1, <1>3, <1>4
     DEF CallerInv, EveryoneWellPlaced, WellPlaced, HasHandle, FitsKind, HandlePool
<1> QED
  BY <1>1, <1>2, <1>4, <1>5, FreeGoto
-----------------------------------------------------------------------------
(* The steps that move a token of bucket b, the pc staying or going on. *)
LEMMA TokenMoves ==
  ASSUME CallerInv, TypeOK, NEW t \in Tasks, NEW b \in Buckets, NEW l, SetLease(t, b, l),
         UNCHANGED pc \/ (\E s \in Stages : Goto(t, s)),
         WellPlaced(t)'
  PROVE  CallerInv'
<1>1. pc' \in [Tasks -> Stages] /\ \A u \in Tasks \ {t} : pc'[u] = pc[u]
  <2>1. CASE UNCHANGED pc
    BY <2>1 DEF CallerInv
  <2>2. CASE \E s \in Stages : Goto(t, s)
    BY <2>2, GotoTyped, GotoMoves DEF CallerInv
  <2> QED
    BY <2>1, <2>2
<1>2. \A u \in Tasks \ {t}, c \in Buckets : lease'[c][u] = lease[c][u]
  BY LeaseSets
<1> QED
  BY <1>1, <1>2, OneMoves

LEMMA AskKeeps ==
  ASSUME CallerInv, TypeOK, NEW t \in Tasks, Ask(t) PROVE CallerInv'
<1>1. Target(t) \in Buckets
  BY TargetIsBucket DEF Ask
<1>2. PICK b \in Buckets : b = Target(t)
  BY <1>1
<1>3. /\ Idle(t) /\ UNCHANGED pc /\ SetLease(t, b, "waiting") /\ lease[b][t] = "none"
  BY <1>2 DEF Ask, Blpop, tasks
<1>4. lease'[b][t] = "waiting" /\ \A c \in Buckets \ {b} : lease'[c][t] = lease[c][t]
  BY <1>3, LeaseSets
<1>5. \A c \in Buckets \ {b} : lease'[c][t] \notin Pending \cup {"ctxPush"}
  BY <1>3, <1>4 DEF Idle, Pending
<1>6. WaitsForOne(t)'
  BY <1>2, <1>3, <1>4, <1>5 DEF WaitsForOne, Target, Pending
<1>7. HasHandle(t)' /\ FitsKind(t)'
  <2>1. HasHandle(t) /\ FitsKind(t)
    BY DEF CallerInv, EveryoneWellPlaced, WellPlaced
  <2>2. FitsKind(t)'
    BY <1>3, <2>1 DEF FitsKind
  <2>3. pc[t] \in {"acquire", "rewrite", "fold", "call"}
    BY <1>2, PendingAt
  <2>4. pc[t] = "fold" => b # HandlePool(t)
    BY <1>2, <2>1 DEF FitsKind, Target
  <2>5. HasHandle(t)'
    BY <1>3, <1>4, <2>1, <2>3, <2>4 DEF HasHandle
  <2> QED
    BY <2>2, <2>5
<1> QED
  BY <1>3, <1>6, <1>7, TokenMoves DEF WellPlaced

LEMMA ReplyKeeps ==
  ASSUME CallerInv, TypeOK, NEW t \in Tasks, NEW b \in Buckets, Reply(t, b)
  PROVE CallerInv'
<1>1. /\ lease[b][t] = "popped" /\ b = Target(t)
      /\ \A c \in Buckets \ {b} : lease[c][t] \notin Pending \cup {"ctxPush"}
      /\ HasHandle(t) /\ FitsKind(t)
  BY DEF Reply, Receive, CallerInv, EveryoneWellPlaced, WellPlaced, WaitsForOne, Pending
<1>2. pc[t] \in {"acquire", "rewrite", "fold", "call"}
  BY <1>1, PendingAt
<1>3. CASE pc[t] = "acquire"
  <2>1. SetLease(t, b, "handle")
    BY <1>3 DEF Reply, Receive
  <2>2. PICK s \in After(t) : Goto(t, s)
    BY <1>3 DEF Reply
  <2>3. /\ s = IF Kind[t] = "compact" THEN "summarize" ELSE "turn"
        /\ s \in Stages /\ pc'[t] = s
    BY <1>3, <2>2, GotoMoves DEF After, Stages, CallerInv
  <2>4. lease'[b][t] = "handle" /\ \A c \in Buckets \ {b} : lease'[c][t] = lease[c][t]
    BY <2>1, LeaseSets
  <2>5. b = HandlePool(t)
    BY <1>1, <1>3 DEF Target
  <2>6. WaitsForOne(t)'
    BY <1>1, <2>4 DEF WaitsForOne, Pending
  <2>7. HasHandle(t)' /\ FitsKind(t)'
    BY <1>1, <1>3, <2>3, <2>4, <2>5 DEF HasHandle, FitsKind, HandlePool, Chats
  <2> QED
    BY <2>1, <2>2, <2>3, <2>6, <2>7, TokenMoves DEF WellPlaced
<1>4. CASE pc[t] # "acquire"
  <2>1. SetLease(t, b, "ctx") /\ UNCHANGED pc
    BY <1>4 DEF Reply, Receive, tasks
  <2>2. lease'[b][t] = "ctx" /\ \A c \in Buckets \ {b} : lease'[c][t] = lease[c][t]
    BY <2>1, LeaseSets
  <2>3. WaitsForOne(t)'
    BY <1>1, <1>4, <2>1, <2>2 DEF WaitsForOne, Pending, Target
  <2>4. pc[t] = "fold" => b # HandlePool(t)
    BY <1>1 DEF FitsKind, Target
  <2>5. HasHandle(t)' /\ FitsKind(t)'
    BY <1>1, <1>2, <1>4, <2>1, <2>2, <2>4 DEF HasHandle, FitsKind
  <2> QED
    BY <2>1, <2>3, <2>5, TokenMoves DEF WellPlaced
<1> QED
  BY <1>3, <1>4

LEMMA LeaveKeeps ==
  ASSUME CallerInv, TypeOK, NEW t \in Tasks, NEW b \in Buckets, Leave(t, b)
  PROVE CallerInv'
<1>1. /\ lease[b][t] = "ctx" /\ SetLease(t, b, "ctxPush")
      /\ b = Target(t) /\ pc[t] # "acquire" /\ FitsKind(t)
  BY DEF Leave, ExitCtx, CallerInv, EveryoneWellPlaced, WellPlaced, WaitsForOne, Pending
<1>2. PICK s \in After(t) : Goto(t, s)
  BY DEF Leave
<1>3. pc[t] \in {"rewrite", "fold", "call"}
  BY <1>1, PendingAt
<1>4. /\ s \in {"acquire", "answer", "done", "failed"}
      /\ s = "acquire" => Kind[t] \in Chats
      /\ s = "answer" => pc[t] = "fold" /\ b = UtilityPool
  BY <1>1, <1>2, <1>3 DEF After, FitsKind, Target
<1>5. pc'[t] = s /\ s \in Stages
  BY <1>2, <1>4, GotoMoves DEF CallerInv, Stages
<1>6. WellPlaced(t)'
  BY <1>1, <1>4, <1>5, GivingUp DEF CallerInv, Pending
<1> QED
  BY <1>1, <1>2, <1>5, <1>6, TokenMoves

LEMMA GiveUpKeeps ==
  ASSUME CallerInv, TypeOK, NEW t \in Tasks, NEW b \in Buckets, GiveUp(t, b)
  PROVE CallerInv'
<1>1. /\ lease[b][t] = "waiting" /\ SetLease(t, b, "none") /\ Goto(t, Busy(t))
      /\ b = Target(t)
  BY DEF GiveUp, Timeout, CallerInv, EveryoneWellPlaced, WellPlaced, WaitsForOne, Pending
<1>2. /\ Busy(t) \in {"answer", "done", "failed"}
      /\ Busy(t) = "answer" => pc[t] = "fold" /\ b = UtilityPool
  BY <1>1 DEF Busy, Target
<1>3. pc'[t] = Busy(t) /\ Busy(t) \in Stages
  BY <1>1, GotoMoves, StagesReached DEF CallerInv
<1>4. WellPlaced(t)'
  BY <1>1, <1>2, <1>3, GivingUp DEF CallerInv, Pending
<1> QED
  BY <1>1, <1>3, <1>4, TokenMoves

LEMMA PushLandsKeeps ==
  ASSUME CallerInv, TypeOK, NEW t \in Tasks, NEW b \in Buckets, PushLands(t, b)
  PROVE CallerInv'
<1>1. /\ lease[b][t] \in {"ctxPush", "taskPush"} /\ SetLease(t, b, "none") /\ UNCHANGED pc
      /\ WellPlaced(t)
  BY DEF PushLands, Push, tasks, CallerInv, EveryoneWellPlaced
<1>2. lease'[b][t] = "none" /\ \A c \in Buckets \ {b} : lease'[c][t] = lease[c][t]
  BY <1>1, LeaseSets
<1>3. WaitsForOne(t)'
  BY <1>1, <1>2 DEF WellPlaced, WaitsForOne, Target, Pending
<1>4. HasHandle(t)' /\ FitsKind(t)'
  BY <1>1, <1>2 DEF WellPlaced, HasHandle, FitsKind
<1> QED
  BY <1>1, <1>3, <1>4, TokenMoves DEF WellPlaced

LEMMA RedisKeeps ==
  ASSUME CallerInv, TypeOK, NEW t \in Tasks, NEW b \in Buckets, Redis(t, b)
  PROVE CallerInv'
<1>1. /\ lease[b][t] = "waiting" /\ SetLease(t, b, "popped") /\ UNCHANGED pc
      /\ WellPlaced(t)
  BY DEF Redis, Serve, tasks, CallerInv, EveryoneWellPlaced
<1>2. lease'[b][t] = "popped" /\ \A c \in Buckets \ {b} : lease'[c][t] = lease[c][t]
  BY <1>1, LeaseSets
<1>3. WaitsForOne(t)'
  BY <1>1, <1>2 DEF WellPlaced, WaitsForOne, Target, Pending
<1>4. HasHandle(t)' /\ FitsKind(t)'
  BY <1>1, <1>2 DEF WellPlaced, HasHandle, FitsKind
<1> QED
  BY <1>1, <1>3, <1>4, TokenMoves DEF WellPlaced

(* A release takes a handle, or does nothing; no call of t uses it any more. *)
LEMMA CloseKeeps ==
  ASSUME CallerInv, TypeOK, NEW t \in Tasks, Close(t) PROVE CallerInv'
<1>1. Idle(t) /\ WellPlaced(t)
  BY DEF Close, CallerInv, EveryoneWellPlaced
<1>2. PICK s \in {"done", "closeAgain"} : Goto(t, s)
  BY DEF Close
<1>3. pc'[t] = s /\ s \in Stages /\ s \in Plain
  BY <1>2, GotoMoves DEF CallerInv, Stages, Plain
<1>4. CASE UNCHANGED lease
  BY <1>1, <1>2, <1>3, <1>4, PlainGoto
<1>5. CASE \E b \in Buckets : SetLease(t, b, "taskPush")
  <2>1. PICK b \in Buckets : SetLease(t, b, "taskPush")
    BY <1>5
  <2>2. lease'[b][t] = "taskPush" /\ \A c \in Buckets \ {b} : lease'[c][t] = lease[c][t]
    BY <2>1, LeaseSets
  <2>3. \A c \in Buckets : lease'[c][t] \notin Pending \cup {"ctxPush"}
    BY <1>1, <2>2 DEF Idle, Pending
  <2>4. WaitsForOne(t)'
    BY <2>3 DEF WaitsForOne, Pending
  <2>5. WellPlaced(t)'
    BY <1>3, <2>4, PlainFits DEF WellPlaced
  <2> QED
    BY <1>2, <1>3, <2>1, <2>5, TokenMoves
<1>6. UNCHANGED lease \/ \E b \in Buckets : SetLease(t, b, "taskPush")
  <2>1. HandlePool(t) \in Buckets \cup {NoPool}
    BY LlmCallsAssumption DEF HandlePool
  <2> QED
    BY <2>1 DEF Close, ReleaseHandle, gpuVars
<1> QED
  BY <1>4, <1>5, <1>6
-----------------------------------------------------------------------------
LEMMA FanKeeps ==
  ASSUME CallerInv, NEW t \in Tasks,
         FanOut(t) \/ Gathered(t) \/ Drained(t) \/ Consolidated(t) \/ MapFails(t)
  PROVE  CallerInv'
<1>1. UNCHANGED lease /\ pc[t] \in {"fanout", "drain", "consolidate", "gather"}
  BY DEF FanOut, Gathered, Drained, Consolidated, MapFails, gpuVars
<1>2. \/ \E s \in {"done", "call", "drain"} : Goto(t, s)
      \/ Spawn(t, "gather", Kids(t, "chunk") \cup Kids(t, "hyq"), "sem")
      \/ Spawn(t, "consolidate", Kids(t, "digest"), "call")
  BY DEF FanOut, Gathered, Drained, Consolidated, MapFails
<1>3. CASE \E s \in {"done", "call", "drain"} : Goto(t, s)
  BY <1>1, <1>3, PlainGoto DEF Plain
<1>4. CASE Spawn(t, "gather", Kids(t, "chunk") \cup Kids(t, "hyq"), "sem")
  BY <1>1, <1>4, SpawnKeeps DEF Plain
<1>5. CASE Spawn(t, "consolidate", Kids(t, "digest"), "call")
  BY <1>1, <1>5, SpawnKeeps DEF Plain
<1> QED
  BY <1>2, <1>3, <1>4, <1>5

LEMMA EnterSemaphoreKeeps ==
  ASSUME CallerInv, NEW t \in Tasks, EnterSemaphore(t) PROVE CallerInv'
<1>1. UNCHANGED lease /\ pc[t] = "sem" /\ Goto(t, "call")
  BY DEF EnterSemaphore, gpuVars
<1> QED
  BY <1>1, PlainGoto DEF Plain

LEMMA NextRequestKeeps ==
  ASSUME CallerInv, NEW t \in Tasks, NextRequest(t) PROVE CallerInv'
<1>1. UNCHANGED lease
  BY DEF NextRequest, gpuVars
<1>2. PICK family \in SUBSET Tasks :
        /\ \A u \in family : pc[u] = "idle" \/ Over(u)
        /\ pc' = [u \in Tasks |-> IF u \in family THEN "idle" ELSE pc[u]]
  <2> DEFINE family == {u \in Tasks : u = t \/ Parent[u] = t}
  <2> QED
    BY DEF NextRequest
<1>3. pc' \in [Tasks -> Stages]
  BY <1>2 DEF CallerInv, Stages
<1>4. ASSUME NEW u \in Tasks PROVE WellPlaced(u)'
  <2>1. CASE u \in family
    <3>1. pc'[u] = "idle" /\ pc'[u] \in Plain /\ pc[u] \in {"idle", "done", "failed"}
      BY <1>2, <2>1 DEF Over, Finished, Plain
    <3> QED
      BY <1>1, <3>1, NotWaiting, PlainFits, FreeMove DEF CallerInv
  <2>2. CASE u \notin family
    BY <1>1, <1>2, <2>2, OthersStay DEF CallerInv, EveryoneWellPlaced
  <2> QED
    BY <2>1, <2>2
<1> QED
  BY <1>3, <1>4 DEF CallerInv, EveryoneWellPlaced

LEMMA StruckKeeps ==
  ASSUME CallerInv, TypeOK, NEW t \in Tasks, Struck(t) PROVE CallerInv'
<1>1. /\ Goto(t, Unwind(t)) /\ Unwind(t) \in {"close", "failed", "drain", "done"}
      /\ Unwind(t) \in Stages /\ Unwind(t) \in Plain
  BY DEF Struck, Unwind, Plain, Stages
<1>2. pc'[t] = Unwind(t)
  BY <1>1, GotoMoves DEF CallerInv
<1>3. CASE Idle(t) /\ UNCHANGED gpuVars
  BY <1>1, <1>3, PlainGoto DEF gpuVars
<1>4. ASSUME NEW b \in Buckets, CancelWait(t, b) \/ CancelLoses(t, b) \/ ExitCtx(t, b)
      PROVE  CallerInv'
  <2>1. PICK l \in {"none", "ctxPush"} :
          lease[b][t] \in Pending \cup {"ctxPush"} /\ SetLease(t, b, l)
    BY <1>4 DEF CancelWait, CancelLoses, ExitCtx, Pending
  <2>2. WellPlaced(t)'
    BY <1>1, <1>2, <2>1, GivingUp DEF CallerInv
  <2> QED
    BY <1>1, <2>1, <2>2, TokenMoves
<1> QED
  BY <1>3, <1>4 DEF Struck

LEMMA ServerKeeps ==
  ASSUME CallerInv, TypeOK, NEW p \in Procs, Server(p) PROVE CallerInv'
<1>1. CASE UNCHANGED <<pc, lease>>
  BY <1>1, OthersStay DEF CallerInv, EveryoneWellPlaced
<1>2. CASE Crash(p) /\ pc' = [t \in Tasks |-> IF ProcOf[t] = p THEN "done" ELSE pc[t]]
  <2>1. pc' \in [Tasks -> Stages]
    BY <1>2 DEF CallerInv, Stages
  <2>2. ASSUME NEW u \in Tasks, ProcOf[u] = p PROVE WellPlaced(u)'
    <3>1. pc'[u] = "done" /\ pc'[u] \in Plain
      BY <1>2, <2>2 DEF Plain
    <3>2. \A b \in Buckets : lease'[b][u] = "none"
      BY <1>2, <2>2 DEF Crash
    <3>3. WaitsForOne(u)'
      BY <3>2 DEF WaitsForOne, Pending
    <3> QED
      BY <3>1, <3>3, PlainFits DEF WellPlaced
  <2>3. ASSUME NEW u \in Tasks, ProcOf[u] # p PROVE WellPlaced(u)'
    <3>1. pc'[u] = pc[u] /\ \A b \in Buckets : lease'[b][u] = lease[b][u]
      BY <1>2, <2>3 DEF Crash
    <3> QED
      BY <3>1, OthersStay DEF CallerInv, EveryoneWellPlaced
  <2> QED
    BY <2>1, <2>2, <2>3 DEF CallerInv, EveryoneWellPlaced
<1>3. UNCHANGED <<pc, lease>>
        \/ (Crash(p) /\ pc' = [t \in Tasks |-> IF ProcOf[t] = p THEN "done" ELSE pc[t]])
  BY DEF Server, ProcStep, tasks, StartProc, InitRead, InitFill, ResetStart, ResetFill, Fill
<1> QED
  BY <1>1, <1>2, <1>3
-----------------------------------------------------------------------------
LEMMA CallerInvHolds == LlmSpec => []CallerInv
<1>1. LlmInit => CallerInv
  <2> SUFFICES ASSUME LlmInit PROVE CallerInv
    OBVIOUS
  <2>1. pc = [t \in Tasks |-> "idle"] /\ \A t \in Tasks, b \in Buckets : lease[b][t] = "none"
    BY DEF LlmInit, Init
  <2> QED
    BY <2>1 DEF CallerInv, EveryoneWellPlaced, WellPlaced, WaitsForOne, HasHandle, FitsKind,
                Pending, Stages
<1>2. CallerInv /\ TypeOK /\ [LlmNext]_llmVars => CallerInv'
  <2> SUFFICES ASSUME CallerInv, TypeOK, [LlmNext]_llmVars PROVE CallerInv'
    OBVIOUS
  <2>1. ASSUME NEW p \in Procs, Server(p) PROVE CallerInv'
    BY <2>1, ServerKeeps
  <2>2. ASSUME NEW t \in Tasks, Proceed(t) PROVE CallerInv'
    <3>1. ASSUME NEW b \in Buckets, Reply(t, b) \/ Leave(t, b) \/ PushLands(t, b)
          PROVE  CallerInv'
      BY <3>1, ReplyKeeps, LeaveKeeps, PushLandsKeeps
    <3>2. CASE Arrive(t) \/ EnterSemaphore(t) \/ Ask(t) \/ Unmetered(t) \/ Turn(t)
               \/ HeldCallEnds(t) \/ Close(t)
      BY <3>2, ArriveKeeps, EnterSemaphoreKeeps, AskKeeps, UnmeteredKeeps, TurnKeeps,
         HeldCallEndsKeeps, CloseKeeps
    <3>3. CASE FanOut(t) \/ Gathered(t) \/ MapFails(t) \/ Consolidated(t) \/ Drained(t)
      BY <3>3, FanKeeps
    <3> QED
      BY <2>2, <3>1, <3>2, <3>3 DEF Proceed
  <2>3. ASSUME NEW t \in Tasks, NextRequest(t) \/ Struck(t) PROVE CallerInv'
    BY <2>3, NextRequestKeeps, StruckKeeps
  <2>4. ASSUME NEW t \in Tasks, NEW b \in Buckets, Redis(t, b) \/ GiveUp(t, b)
        PROVE  CallerInv'
    BY <2>4, RedisKeeps, GiveUpKeeps
  <2>5. CASE UNCHANGED <<pc, lease>>
    BY <2>5, OthersStay DEF CallerInv, EveryoneWellPlaced
  <2>6. ASSUME NEW t \in Tasks, Disconnect(t) PROVE UNCHANGED <<pc, lease>>
    BY <2>6 DEF Disconnect, gpuVars
  <2>7. UNCHANGED llmVars => UNCHANGED <<pc, lease>>
    BY DEF llmVars, gpuVars
  <2> QED
    BY <2>1, <2>2, <2>3, <2>4, <2>5, <2>6, <2>7 DEF LlmNext
<1> QED
  BY <1>1, <1>2, CallersAreGeneral, TypeCorrect, PTL DEF LlmSpec

(* Every task is where its leases say: it waits for at most the bucket its *)
(* pc names, and an LLM call under a handle has that handle.               *)
THEOREM CallersWellPlaced == LlmSpec => []EveryoneWellPlaced
<1>1. CallerInv => EveryoneWellPlaced
  BY DEF CallerInv
<1> QED
  BY <1>1, CallerInvHolds, PTL

Hits == [Tasks -> {"no", "once", "always"}]

(* The handlers go through the stages of their programme only, and a       *)
(* cancellation is delivered once or at every await.                       *)
THEOREM LlmTypeCorrect == LlmSpec => []LlmTypeOK
<1>1. LlmInit => hit \in Hits
  BY DEF LlmInit, Hits
<1>2. hit \in Hits /\ [LlmNext]_llmVars => (hit \in Hits)'
  <2> SUFFICES ASSUME hit \in Hits, [LlmNext]_llmVars PROVE hit' \in Hits
    BY DEF Hits
  <2>1. CASE UNCHANGED hit
    BY <2>1
  <2>2. ASSUME NEW t \in Tasks, NextRequest(t) PROVE hit' \in Hits
    BY <2>2 DEF NextRequest, Hits
  <2>3. ASSUME NEW t \in Tasks, MapFails(t) PROVE hit' \in Hits
    BY <2>3 DEF MapFails, Hits
  <2>4. ASSUME NEW t \in Tasks, Disconnect(t) PROVE hit' \in Hits
    BY <2>4 DEF Disconnect, Hits
  <2>5. ASSUME NEW t \in Tasks, Struck(t) PROVE hit' \in Hits
    BY <2>5 DEF Struck, Hits
  <2>6. ASSUME NEW t \in Tasks, Proceed(t) PROVE MapFails(t) \/ UNCHANGED hit
    BY <2>6 DEF Proceed, Arrive, FanOut, EnterSemaphore, Ask, Unmetered, Reply, Leave,
         PushLands, Turn, HeldCallEnds, Close, Gathered, Consolidated, Drained, tasks
  <2>7. ASSUME NEW t \in Tasks, NEW b \in Buckets, Redis(t, b) \/ GiveUp(t, b)
        PROVE  UNCHANGED hit
    BY <2>7 DEF Redis, GiveUp, tasks
  <2>8. ASSUME NEW p \in Procs, Server(p) PROVE UNCHANGED hit
    BY <2>8 DEF Server, tasks
  <2> QED
    BY <2>1, <2>2, <2>3, <2>4, <2>5, <2>6, <2>7, <2>8 DEF LlmNext, llmVars
<1>3. CallerInv /\ hit \in Hits => LlmTypeOK
  BY DEF CallerInv, LlmTypeOK, Hits
<1> QED
  BY <1>1, <1>2, <1>3, CallerInvHolds, PTL DEF LlmSpec

(* An LLM call never runs on a pool's hardware without one of its tokens. *)
LEMMA CallsAreCovered ==
  ASSUME EveryoneWellPlaced, NEW b \in Buckets
  PROVE  Calling(b) \subseteq InUse(b)
<1> SUFFICES ASSUME NEW t \in Calling(b) PROVE t \in InUse(b)
  OBVIOUS
<1>1. t \in Tasks /\ HasHandle(t) /\ FitsKind(t)
  BY DEF Calling, EveryoneWellPlaced, WellPlaced
<1>2. CASE lease[b][t] = "ctx"
  BY <1>1, <1>2 DEF InUse, HoldsToken
<1>3. CASE pc[t] = "answer" /\ ModelPool[t] = b
  <2>1. HandlePool(t) = b
    BY <1>1, <1>3 DEF FitsKind, HandlePool, Chats
  <2> QED
    BY <1>1, <1>3, <2>1 DEF HasHandle, InUse, HoldsToken
<1>4. CASE pc[t] \in {"foldHeld", "summarize"} /\ UtilityPool = b
  <2>1. HandlePool(t) = b
    BY <1>1, <1>4, LlmCallsAssumption DEF FitsKind, HandlePool
  <2> QED
    BY <1>1, <1>4, <2>1 DEF HasHandle, InUse, HoldsToken
<1> QED
  BY <1>2, <1>3, <1>4 DEF Calling

(* However many requests, question passes and processes run, the model     *)
(* behind a pool never serves more calls at a time than its bucket was last *)
(* filled for, unless that fill found tokens out.                           *)
THEOREM BackendNeverOversubscribed == LlmSpec => []BackendCap
<1>1. TypeOK /\ GlobalCap /\ EveryoneWellPlaced => BackendCap
  <2> SUFFICES ASSUME TypeOK, GlobalCap, EveryoneWellPlaced, NEW b \in Buckets, surplus[b] = 0
               PROVE  Cardinality(Calling(b)) <= Filled(b)
    BY DEF BackendCap
  <2>1. Calling(b) \subseteq InUse(b) /\ InUse(b) \subseteq Tasks
    BY CallsAreCovered DEF InUse
  <2>2. IsFiniteSet(InUse(b))
    BY <2>1, FS_Subset, GpuSlotsAssumption
  <2>3. /\ Cardinality(Calling(b)) <= Cardinality(InUse(b))
        /\ Cardinality(InUse(b)) \in Nat /\ Cardinality(Calling(b)) \in Nat
    BY <2>1, <2>2, FS_Subset, FS_CardinalityType
  <2>4. Cardinality(InUse(b)) + queue[b] <= Filled(b) /\ queue[b] \in Nat /\ Filled(b) \in Nat
    BY DEF GlobalCap, TypeOK, Filled
  <2> QED
    BY ONLY <2>3, <2>4
<1> QED
  BY <1>1, CallersAreGeneral, CallersWellPlaced, TypeCorrect, CapIsGlobal, PTL
-----------------------------------------------------------------------------
(* Requests never wait in a circle, and interactive ones never wait for    *)
(* background ones, for every assignment of models to pools and any load.  *)
(* The argument is an order: whoever waits for tokens, permits or sub-     *)
(* calls holds nothing, except a chat that compacts, which holds a token   *)
(* of its own pool and waits for the utility pool, where nobody waits      *)
(* holding a token.                                                        *)

(* What the stages say of the kind of a task. *)
StageFits(t) ==
  /\ pc[t] = "call" => Kind[t] \in {"summary", "compare", "chunk", "digest", "hyq"}
  /\ pc[t] \in {"fanout", "gather", "drain"} => Kind[t] \in Mappers
  /\ pc[t] = "consolidate" => Kind[t] = "compare"
  /\ pc[t] = "sem" => Kind[t] \in {"chunk", "hyq"}
  /\ pc[t] \in {"close", "closeAgain", "summarize"} => Kind[t] \in Chats \cup {"compact"}

(* What the leases say of the stage: where a handle and a push can be. *)
WithHandle == {"turn", "fold", "foldHeld", "answer", "summarize", "close"}
AfterCall  == {"acquire", "answer", "close", "done", "failed"}
LeaseFits(t, b) ==
  /\ lease[b][t] \in {"handle", "taskPush"} =>
       b = HandlePool(t) /\ Kind[t] \in Chats \cup {"compact"}
  /\ lease[b][t] = "handle" => pc[t] \in WithHandle
  /\ lease[b][t] = "taskPush" => pc[t] \in {"closeAgain", "done"} /\ Idle(t)
  /\ lease[b][t] = "ctxPush" => pc[t] \in AfterCall /\ Kind[t] # "compact"
  /\ lease[b][t] # "none" /\ Kind[t] \in {"pass", "hyq"} => b = HyqBucket(t)
Fits(t) == StageFits(t) /\ \A b \in Buckets : LeaseFits(t, b)
EveryoneFits == \A t \in Tasks : Fits(t)

LEMMA FitsStays ==
  ASSUME NEW t \in Tasks, Fits(t), pc'[t] = pc[t], \A b \in Buckets : lease'[b][t] = lease[b][t]
  PROVE  Fits(t)'
<1>1. Idle(t) => Idle(t)'
  BY DEF Idle
<1> QED
  BY <1>1 DEF Fits, StageFits, LeaseFits

(* A task moves while its leases stay. *)
LEMMA FitsMove ==
  ASSUME EveryoneFits, NEW t \in Tasks, \A b \in Buckets : lease'[b][t] = lease[b][t],
         StageFits(t)',
         \A b \in Buckets :
           /\ lease[b][t] = "handle" => pc'[t] \in WithHandle
           /\ lease[b][t] = "taskPush" => pc'[t] \in {"closeAgain", "done"}
           /\ lease[b][t] = "ctxPush" => pc'[t] \in AfterCall
  PROVE  Fits(t)'
<1>1. Idle(t) => Idle(t)'
  BY DEF Idle
<1>2. \A b \in Buckets : LeaseFits(t, b)
  BY DEF EveryoneFits, Fits
<1>3. \A b \in Buckets : LeaseFits(t, b)'
  BY <1>1, <1>2 DEF LeaseFits, HandlePool
<1> QED
  BY <1>3 DEF Fits

(* One lease of a task changes, while nothing is pushed in its name. *)
LEMMA FitsToken ==
  ASSUME EveryoneFits, TypeOK, NEW t \in Tasks, NEW b \in Buckets, NEW s, SetLease(t, b, s),
         StageFits(t)',
         \A c \in Buckets \ {b} :
           /\ lease[c][t] = "handle" => pc'[t] \in WithHandle
           /\ lease[c][t] # "taskPush"
           /\ lease[c][t] = "ctxPush" => pc'[t] \in AfterCall,
         LeaseFits(t, b)'
  PROVE  Fits(t)'
<1>1. \A c \in Buckets \ {b} : lease'[c][t] = lease[c][t]
  BY LeaseSets
<1>2. \A c \in Buckets : LeaseFits(t, c)
  BY DEF EveryoneFits, Fits
<1>3. \A c \in Buckets \ {b} : LeaseFits(t, c)'
  BY <1>1, <1>2 DEF LeaseFits, HandlePool
<1> QED
  BY <1>3 DEF Fits

(* What is known of a task that a step moves. *)
LEMMA Known ==
  ASSUME EveryoneFits, EveryoneWellPlaced, NEW t \in Tasks
  PROVE  /\ StageFits(t) /\ FitsKind(t) /\ WaitsForOne(t)
         /\ \A b \in Buckets : LeaseFits(t, b)
         /\ Kind[t] \in Kinds
  BY LlmCallsAssumption DEF EveryoneFits, Fits, EveryoneWellPlaced, WellPlaced

LEMMA BusyIsNotPushing ==
  ASSUME EveryoneFits, NEW t \in Tasks, NEW b \in Buckets,
         lease[b][t] \in {"waiting", "popped", "ctx", "ctxPush"}
  PROVE  ~Idle(t) /\ \A c \in Buckets : lease[c][t] # "taskPush"
  BY DEF EveryoneFits, Fits, LeaseFits, Idle
-----------------------------------------------------------------------------
(* Only task t moves. *)
LEMMA FitsOne ==
  ASSUME EveryoneFits, NEW t \in Tasks, Fits(t)',
         \A u \in Tasks \ {t} : pc'[u] = pc[u] /\ \A b \in Buckets : lease'[b][u] = lease[b][u]
  PROVE  EveryoneFits'
<1>1. ASSUME NEW u \in Tasks \ {t} PROVE Fits(u)'
  BY <1>1, FitsStays DEF EveryoneFits
<1> QED
  BY <1>1 DEF EveryoneFits

(* The steps of one task that move no token. *)
LEMMA QuietFits ==
  ASSUME EveryoneFits, CallerInv, NEW t \in Tasks,
         \/ Arrive(t) \/ EnterSemaphore(t) \/ Unmetered(t) \/ Turn(t) \/ HeldCallEnds(t)
         \/ MapFails(t) \/ Drained(t)
  PROVE  EveryoneFits'
<1>k. /\ StageFits(t) /\ FitsKind(t) /\ WaitsForOne(t)
      /\ \A b \in Buckets : LeaseFits(t, b)
      /\ Kind[t] \in Kinds
  BY Known DEF CallerInv
<1>g. ASSUME NEW s, Goto(t, s) PROVE pc'[t] = s /\ \A u \in Tasks \ {t} : pc'[u] = pc[u]
  BY <1>g, GotoMoves DEF CallerInv
<1>0. UNCHANGED lease
  BY DEF Arrive, EnterSemaphore, Unmetered, Turn, HeldCallEnds, MapFails, Drained, gpuVars
<1>1. ASSUME NEW s, Goto(t, s), StageFits(t)',
             \A b \in Buckets :
               /\ lease[b][t] = "handle" => s \in WithHandle
               /\ lease[b][t] = "taskPush" => s \in {"closeAgain", "done"}
               /\ lease[b][t] = "ctxPush" => s \in AfterCall
      PROVE  EveryoneFits'
  BY <1>0, <1>1, <1>g, FitsMove, FitsOne
<1>2. CASE Arrive(t)
  <2>1. pc[t] = "idle"
    BY <1>2 DEF Arrive
  <2>2. PICK s \in {"acquire", "rewrite", "call", "fanout"} :
          /\ Goto(t, s)
          /\ s = "call" => Kind[t] \in {"summary", "compare"}
          /\ s = "fanout" => Kind[t] \in Mappers
    BY <1>2 DEF Arrive
  <2>3. StageFits(t)'
    BY <2>2, <1>g DEF StageFits
  <2> QED
    BY <2>1, <2>2, <2>3, <1>k, <1>1 DEF LeaseFits, WithHandle, AfterCall
<1>3. CASE EnterSemaphore(t)
  <2>1. pc[t] = "sem" /\ Goto(t, "call")
    BY <1>3 DEF EnterSemaphore
  <2>2. StageFits(t)'
    BY <2>1, <1>g, <1>k DEF StageFits
  <2> QED
    BY <2>1, <2>2, <1>k, <1>1 DEF LeaseFits, WithHandle, AfterCall
<1>4. CASE Unmetered(t)
  <2>1. Idle(t) /\ pc[t] \in {"acquire", "rewrite", "call"}
    BY <1>4 DEF Unmetered
  <2>2. PICK s \in After(t) : Goto(t, s)
    BY <1>4 DEF Unmetered
  <2>3. /\ s \in {"summarize", "turn", "acquire", "done", "failed"}
        /\ s = "summarize" => Kind[t] = "compact"
    BY <2>1, <2>2 DEF After
  <2>4. StageFits(t)'
    BY <2>2, <2>3, <1>g DEF StageFits
  <2> QED
    BY <2>1, <2>2, <2>4, <1>k, <1>1 DEF LeaseFits, Idle, WithHandle
<1>5. CASE Turn(t)
  <2>1. pc[t] = "turn"
    BY <1>5 DEF Turn
  <2>2. PICK s \in {"answer", "fold", "foldHeld", "close"} : Goto(t, s)
    BY <1>5 DEF Turn, FoldAt
  <2>3. StageFits(t)'
    BY <2>1, <2>2, <1>g, <1>k DEF StageFits, FitsKind
  <2> QED
    BY <2>1, <2>2, <2>3, <1>k, <1>1 DEF LeaseFits, WithHandle, AfterCall
<1>6. CASE HeldCallEnds(t)
  <2>1. Idle(t) /\ pc[t] \in {"foldHeld", "answer", "summarize"}
    BY <1>6 DEF HeldCallEnds
  <2>2. PICK s \in After(t) : Goto(t, s)
    BY <1>6 DEF HeldCallEnds
  <2>3. s \in {"answer", "close"}
    BY <2>1, <2>2 DEF After
  <2>4. StageFits(t)'
    BY <2>1, <2>2, <2>3, <1>g, <1>k DEF StageFits, FitsKind
  <2> QED
    BY <2>1, <2>2, <2>3, <2>4, <1>k, <1>1 DEF LeaseFits, Idle, WithHandle
<1>7. CASE MapFails(t) \/ Drained(t)
  <2>1. PICK s \in {"drain", "done"} : Goto(t, s)
    BY <1>7 DEF MapFails, Drained
  <2>2. pc[t] \in {"gather", "drain"}
    BY <1>7 DEF MapFails, Drained
  <2>3. StageFits(t)'
    BY <2>1, <2>2, <1>g, <1>k DEF StageFits
  <2> QED
    BY <2>1, <2>2, <2>3, <1>k, <1>1 DEF LeaseFits, WithHandle, AfterCall
<1> QED
  BY <1>2, <1>3, <1>4, <1>5, <1>6, <1>7

(* The steps that start a fan-out or end one. *)
LEMMA FanFits ==
  ASSUME EveryoneFits, CallerInv, NEW t \in Tasks, FanOut(t) \/ Gathered(t) \/ Consolidated(t)
  PROVE  EveryoneFits'
<1>0. UNCHANGED lease /\ pc[t] \in {"fanout", "gather", "consolidate"}
  BY DEF FanOut, Gathered, Consolidated, gpuVars
<1>k. StageFits(t) /\ \A b \in Buckets : LeaseFits(t, b)
  BY Known DEF CallerInv
<1>1. \A b \in Buckets : lease[b][t] \notin {"handle", "taskPush", "ctxPush"}
  BY <1>0, <1>k DEF LeaseFits, WithHandle, AfterCall
<1>2. ASSUME NEW s \in {"done", "call"}, Goto(t, s), s = "call" => Kind[t] \in {"summary", "compare"}
      PROVE  EveryoneFits'
  <2>1. pc'[t] = s /\ \A u \in Tasks \ {t} : pc'[u] = pc[u]
    BY <1>2, GotoMoves DEF CallerInv
  <2>2. StageFits(t)'
    BY <2>1, <1>2 DEF StageFits
  <2>3. Fits(t)'
    BY <2>2, <1>0, <1>1, FitsMove
  <2> QED
    BY <2>1, <2>3, <1>0, FitsOne
<1>3. ASSUME NEW s \in {"gather", "consolidate"}, NEW K \in SUBSET Tasks, NEW w \in {"sem", "call"},
             Spawn(t, s, K, w),
             s = "gather" => Kind[t] \in Mappers,
             s = "consolidate" => Kind[t] = "compare",
             \A u \in K : Kind[u] \in IF w = "sem" THEN {"chunk", "hyq"} ELSE {"digest"}
      PROVE  EveryoneFits'
  <2>1. \A u \in Tasks : pc'[u] = IF u = t THEN s ELSE IF u \in K /\ pc[u] = "idle" THEN w ELSE pc[u]
    BY <1>3 DEF Spawn
  <2>2. Fits(t)'
    <3>1. StageFits(t)'
      BY <2>1, <1>3 DEF StageFits
    <3> QED
      BY <3>1, <1>0, <1>1, FitsMove
  <2>3. ASSUME NEW u \in Tasks \ {t}, pc'[u] = pc[u] PROVE Fits(u)'
    BY <2>3, <1>0, FitsStays DEF EveryoneFits
  <2>4. ASSUME NEW u \in Tasks \ {t}, u \in K, pc[u] = "idle" PROVE Fits(u)'
    <3>1. pc'[u] = w
      BY <2>1, <2>4
    <3>2. StageFits(u)'
      BY <3>1, <2>4, <1>3 DEF StageFits
    <3>3. \A b \in Buckets : lease[b][u] \notin {"handle", "taskPush", "ctxPush"}
      BY <2>4 DEF EveryoneFits, Fits, LeaseFits, WithHandle, AfterCall
    <3> QED
      BY <3>2, <3>3, <1>0, FitsMove
  <2> QED
    BY <2>1, <2>2, <2>3, <2>4 DEF EveryoneFits
<1>4. CASE FanOut(t)
  <2>1. Spawn(t, "gather", Kids(t, "chunk") \cup Kids(t, "hyq"), "sem") /\ Kind[t] \in Mappers
    BY <1>4, <1>k DEF FanOut, StageFits
  <2>2. /\ Kids(t, "chunk") \cup Kids(t, "hyq") \in SUBSET Tasks
        /\ \A u \in Kids(t, "chunk") \cup Kids(t, "hyq") : Kind[u] \in {"chunk", "hyq"}
    BY DEF Kids
  <2> QED
    BY <2>1, <2>2, <1>3
<1>5. CASE Gathered(t)
  <2>1. \/ \E s \in {"done", "call"} : Goto(t, s) /\ (s = "call" => Kind[t] \in {"summary", "compare"})
        \/ Spawn(t, "consolidate", Kids(t, "digest"), "call") /\ Kind[t] = "compare"
    BY <1>5 DEF Gathered
  <2>2. Kids(t, "digest") \in SUBSET Tasks /\ \A u \in Kids(t, "digest") : Kind[u] \in {"digest"}
    BY DEF Kids
  <2> QED
    BY <2>1, <2>2, <1>2, <1>3
<1>6. CASE Consolidated(t)
  <2>1. Kind[t] = "compare" /\ \E s \in {"done", "call"} : Goto(t, s)
    BY <1>6, <1>k DEF Consolidated, StageFits
  <2> QED
    BY <2>1, <1>2
<1> QED
  BY <1>4, <1>5, <1>6

(* The steps that move one token. *)
LEMMA TokenFits ==
  ASSUME EveryoneFits, CallerInv, TypeOK, NEW t \in Tasks, NEW b \in Buckets,
         \/ Reply(t, b) \/ Leave(t, b) \/ GiveUp(t, b) \/ Redis(t, b)
         \/ Ask(t) /\ b = Target(t)
  PROVE  EveryoneFits'
<1>k. /\ StageFits(t) /\ FitsKind(t) /\ WaitsForOne(t)
      /\ \A c \in Buckets : LeaseFits(t, c)
      /\ Kind[t] \in Kinds
  BY Known DEF CallerInv
<1>g. ASSUME NEW s, Goto(t, s) PROVE pc'[t] = s /\ \A u \in Tasks \ {t} : pc'[u] = pc[u]
  BY <1>g, GotoMoves DEF CallerInv
<1>0. PICK s : SetLease(t, b, s)
  BY DEF Reply, Leave, GiveUp, Redis, Ask, Receive, ExitCtx, Timeout, Serve, Blpop
<1>s. lease'[b][t] = s /\ \A u \in Tasks \ {t}, c \in Buckets : lease'[c][u] = lease[c][u]
  BY <1>0, LeaseSets
(* Of all the leases of t only the handle of a chat that compacts can be    *)
(* left beside the one that moves.                                          *)
<1>1. ASSUME \A u \in Tasks \ {t} : pc'[u] = pc[u], StageFits(t)', LeaseFits(t, b)',
             \A c \in Buckets \ {b} : /\ lease[c][t] = "handle" => pc'[t] \in WithHandle
                                      /\ lease[c][t] \notin {"taskPush", "ctxPush"}
      PROVE  EveryoneFits'
  BY <1>1, <1>0, <1>s, FitsToken, FitsOne
<1>2. ASSUME lease[b][t] \in {"waiting", "popped", "ctx"}
      PROVE  /\ b = Target(t) /\ pc[t] \in {"acquire", "rewrite", "fold", "call"}
             /\ \A c \in Buckets \ {b} : /\ lease[c][t] \notin {"taskPush", "ctxPush"}
                                         /\ lease[c][t] = "handle" => pc[t] = "fold"
  <2>1. b = Target(t)
    BY <1>2, <1>k DEF WaitsForOne, Pending
  <2>2. pc[t] \in {"acquire", "rewrite", "fold", "call"}
    BY <2>1, PendingAt
  <2>3. \A c \in Buckets \ {b} : lease[c][t] # "ctxPush"
    BY <1>2, <1>k DEF WaitsForOne, Pending
  <2>4. \A c \in Buckets : lease[c][t] # "taskPush"
    BY <1>2, BusyIsNotPushing
  <2> QED
    BY <2>1, <2>2, <2>3, <2>4, <1>k DEF LeaseFits, WithHandle
<1>3. CASE Reply(t, b)
  <2>1. lease[b][t] = "popped"
    BY <1>3 DEF Reply, Receive
  <2>2. CASE pc[t] = "acquire" /\ SetLease(t, b, "handle") /\ \E x \in After(t) : Goto(t, x)
    <3>1. PICK x \in After(t) : Goto(t, x)
      BY <2>2
    <3>2. x = IF Kind[t] = "compact" THEN "summarize" ELSE "turn"
      BY <2>2, <3>1 DEF After
    <3>3. pc'[t] = x /\ lease'[b][t] = "handle"
      BY <2>2, <3>1, <1>g, LeaseSets
    <3>4. StageFits(t)'
      BY <3>2, <3>3 DEF StageFits
    <3>5. b = HandlePool(t) /\ Kind[t] \in Chats \cup {"compact"}
      BY <2>1, <2>2, <1>2, <1>k DEF Target, FitsKind
    <3>6. LeaseFits(t, b)'
      BY <3>2, <3>3, <3>5 DEF LeaseFits, HandlePool, WithHandle, Chats, HyqBucket
    <3>7. \A c \in Buckets \ {b} : /\ lease[c][t] = "handle" => pc'[t] \in WithHandle
                                   /\ lease[c][t] \notin {"taskPush", "ctxPush"}
      BY <2>1, <2>2, <1>2 DEF WithHandle
    <3> QED
      BY <3>1, <3>4, <3>6, <1>g, <3>7, <1>1
  <2>3. CASE pc[t] # "acquire" /\ SetLease(t, b, "ctx") /\ UNCHANGED pc
    <3>1. lease'[b][t] = "ctx"
      BY <2>3, LeaseSets
    <3>2. StageFits(t)'
      BY <2>3, <1>k DEF StageFits
    <3>3. LeaseFits(t, b)'
      BY <2>1, <3>1, <1>k DEF LeaseFits, HyqBucket
    <3>4. \A c \in Buckets \ {b} : /\ lease[c][t] = "handle" => pc'[t] \in WithHandle
                                   /\ lease[c][t] \notin {"taskPush", "ctxPush"}
      BY <2>1, <2>3, <1>2 DEF WithHandle
    <3> QED
      BY <2>3, <3>2, <3>3, <3>4, <1>1
  <2> QED
    BY <1>3, <2>2, <2>3 DEF Reply, Receive, tasks
<1>4. CASE Leave(t, b)
  <2>1. lease[b][t] = "ctx" /\ SetLease(t, b, "ctxPush")
    BY <1>4 DEF Leave, ExitCtx
  <2>2. PICK x \in After(t) : Goto(t, x)
    BY <1>4 DEF Leave
  <2>3. pc[t] \in {"rewrite", "fold", "call"}
    BY <2>1, <1>2, <1>k DEF WaitsForOne
  <2>4. x \in {"acquire", "done", "answer", "failed"} /\ (pc[t] = "fold" => x = "answer")
    BY <2>2, <2>3 DEF After
  <2>5. pc'[t] = x /\ lease'[b][t] = "ctxPush"
    BY <2>1, <2>2, <1>g, LeaseSets
  <2>6. StageFits(t)'
    BY <2>4, <2>5 DEF StageFits
  <2>7. Kind[t] # "compact"
    BY <2>3, <1>k DEF StageFits, FitsKind, Chats
  <2>8. LeaseFits(t, b)'
    BY <2>1, <2>4, <2>5, <2>7, <1>k DEF LeaseFits, AfterCall, HyqBucket
  <2>9. \A c \in Buckets \ {b} : /\ lease[c][t] = "handle" => pc'[t] \in WithHandle
                                 /\ lease[c][t] \notin {"taskPush", "ctxPush"}
    BY <2>1, <2>4, <2>5, <1>2 DEF WithHandle
  <2> QED
    BY <2>2, <2>6, <2>8, <1>g, <2>9, <1>1
<1>5. CASE GiveUp(t, b)
  <2>1. lease[b][t] = "waiting" /\ SetLease(t, b, "none") /\ Goto(t, Busy(t))
    BY <1>5 DEF GiveUp, Timeout
  <2>2. Busy(t) \in {"answer", "done", "failed"} /\ (pc[t] = "fold" => Busy(t) = "answer")
    BY DEF Busy
  <2>3. pc'[t] = Busy(t) /\ lease'[b][t] = "none"
    BY <2>1, <1>g, LeaseSets
  <2>4. StageFits(t)'
    BY <2>2, <2>3 DEF StageFits
  <2>5. LeaseFits(t, b)'
    BY <2>3 DEF LeaseFits
  <2>6. \A c \in Buckets \ {b} : /\ lease[c][t] = "handle" => pc'[t] \in WithHandle
                                 /\ lease[c][t] \notin {"taskPush", "ctxPush"}
    BY <2>1, <2>2, <2>3, <1>2 DEF WithHandle
  <2> QED
    BY <2>1, <2>4, <2>5, <1>g, <2>6, <1>1
<1>6. CASE Redis(t, b)
  <2>1. lease[b][t] = "waiting" /\ SetLease(t, b, "popped") /\ UNCHANGED pc
    BY <1>6 DEF Redis, Serve, tasks
  <2>2. lease'[b][t] = "popped"
    BY <2>1, LeaseSets
  <2>3. StageFits(t)'
    BY <2>1, <1>k DEF StageFits
  <2>4. LeaseFits(t, b)'
    BY <2>1, <2>2, <1>k DEF LeaseFits, HyqBucket
  <2>5. \A c \in Buckets \ {b} : /\ lease[c][t] = "handle" => pc'[t] \in WithHandle
                                 /\ lease[c][t] \notin {"taskPush", "ctxPush"}
    BY <2>1, <1>2 DEF WithHandle
  <2> QED
    BY <2>1, <2>3, <2>4, <2>5, <1>1
<1>7. CASE Ask(t) /\ b = Target(t)
  <2>1. SetLease(t, b, "waiting") /\ UNCHANGED pc /\ Idle(t)
    BY <1>7 DEF Ask, Blpop, tasks
  <2>2. pc[t] \in {"acquire", "rewrite", "fold", "call"} /\ lease'[b][t] = "waiting"
    BY <1>7, <2>1, PendingAt, LeaseSets
  <2>3. StageFits(t)'
    BY <2>1, <1>k DEF StageFits
  <2>4. Kind[t] \in {"pass", "hyq"} => b = HyqBucket(t)
    BY <1>7, <2>2, <1>k DEF StageFits, FitsKind, Target, Chats
  <2>5. LeaseFits(t, b)'
    BY <2>2, <2>4 DEF LeaseFits, HyqBucket
  <2>6. \A c \in Buckets \ {b} : /\ lease[c][t] = "handle" => pc'[t] \in WithHandle
                                 /\ lease[c][t] \notin {"taskPush", "ctxPush"}
    BY <2>1, <2>2, <1>k DEF LeaseFits, Idle
  <2> QED
    BY <2>1, <2>3, <2>5, <2>6, <1>1
<1> QED
  BY <1>3, <1>4, <1>5, <1>6, <1>7

LEMMA PushFits ==
  ASSUME EveryoneFits, CallerInv, TypeOK, NEW t \in Tasks, NEW b \in Buckets, PushLands(t, b)
  PROVE  EveryoneFits'
<1>1. lease[b][t] \in {"ctxPush", "taskPush"} /\ SetLease(t, b, "none") /\ UNCHANGED pc
  BY DEF PushLands, Push, tasks
<1>2. /\ lease'[b][t] = "none" /\ \A c \in Buckets \ {b} : lease'[c][t] = lease[c][t]
      /\ \A u \in Tasks \ {t}, c \in Buckets : lease'[c][u] = lease[c][u]
  BY <1>1, LeaseSets
<1>3. Idle(t) => Idle(t)'
  BY <1>2 DEF Idle
<1>4. Fits(t)
  BY DEF EveryoneFits
<1>5. Fits(t)'
  BY <1>1, <1>2, <1>3, <1>4 DEF Fits, StageFits, LeaseFits, HandlePool, HyqBucket
<1> QED
  BY <1>1, <1>2, <1>5, FitsOne

(* A release is the end of the handle, and nothing else is pending then. *)
LEMMA CloseFits ==
  ASSUME EveryoneFits, CallerInv, TypeOK, NEW t \in Tasks, Close(t)
  PROVE  EveryoneFits'
<1>k. StageFits(t) /\ \A b \in Buckets : LeaseFits(t, b)
  BY Known DEF CallerInv
<1>0. pc[t] \in {"close", "closeAgain"} /\ Idle(t)
  BY DEF Close
<1>1. PICK s \in {"done", "closeAgain"} : Goto(t, s)
  BY DEF Close
<1>2. pc'[t] = s /\ \A u \in Tasks \ {t} : pc'[u] = pc[u]
  BY <1>1, GotoMoves DEF CallerInv
<1>3. StageFits(t)'
  BY <1>0, <1>2, <1>k DEF StageFits
<1>4. CASE UNCHANGED lease /\ \A b \in Buckets : lease[b][t] # "handle"
  <2>1. Fits(t)'
    BY <1>0, <1>2, <1>3, <1>4, FitsMove DEF Idle
  <2> QED
    BY <1>2, <1>4, <2>1, FitsOne
<1>5. CASE /\ HandlePool(t) \in Buckets /\ lease[HandlePool(t)][t] = "handle"
           /\ SetLease(t, HandlePool(t), "taskPush")
  <2>1. /\ lease'[HandlePool(t)][t] = "taskPush"
        /\ \A c \in Buckets \ {HandlePool(t)} : lease'[c][t] = lease[c][t]
        /\ \A u \in Tasks \ {t}, c \in Buckets : lease'[c][u] = lease[c][u]
    BY <1>5, LeaseSets
  <2>2. Idle(t)'
    BY <1>0, <2>1 DEF Idle
  <2>3. \A c \in Buckets \ {HandlePool(t)} : lease'[c][t] = "none"
    BY <1>0, <1>k, <2>1 DEF LeaseFits, Idle
  <2>4. ASSUME NEW c \in Buckets PROVE LeaseFits(t, c)'
    <3>1. CASE c = HandlePool(t)
      BY <1>2, <1>5, <1>k, <2>1, <2>2, <3>1 DEF LeaseFits, HandlePool, HyqBucket
    <3>2. CASE c # HandlePool(t)
      BY <2>3, <3>2 DEF LeaseFits
    <3> QED
      BY <3>1, <3>2
  <2>5. Fits(t)'
    BY <1>3, <2>4 DEF Fits
  <2> QED
    BY <1>2, <2>1, <2>5, FitsOne
<1>6. CASE HandlePool(t) = NoPool /\ UNCHANGED lease
  <2>1. \A b \in Buckets : lease[b][t] # "handle"
    BY <1>6, <1>k, LlmCallsAssumption DEF LeaseFits
  <2> QED
    BY <2>1, <1>4, <1>6
<1>7. CASE /\ HandlePool(t) \in Buckets /\ lease[HandlePool(t)][t] # "handle" /\ UNCHANGED lease
  <2>1. \A b \in Buckets : lease[b][t] # "handle"
    BY <1>7, <1>k DEF LeaseFits
  <2> QED
    BY <2>1, <1>4, <1>7
<1>8. HandlePool(t) \in Buckets \cup {NoPool}
  BY LlmCallsAssumption DEF HandlePool
<1> QED
  BY <1>5, <1>6, <1>7, <1>8, LlmCallsAssumption DEF Close, ReleaseHandle, gpuVars

(* A cancellation: a chat closes what it holds, everyone else holds nothing *)
(* but the lease that the cancellation ends.                                *)
LEMMA StruckFits ==
  ASSUME EveryoneFits, CallerInv, TypeOK, NEW t \in Tasks, Struck(t)
  PROVE  EveryoneFits'
<1>k. /\ StageFits(t) /\ FitsKind(t) /\ WaitsForOne(t)
      /\ \A b \in Buckets : LeaseFits(t, b)
      /\ Kind[t] \in Kinds
  BY Known DEF CallerInv
<1>0. ~Idle(t) \/ InBody(t) \/ pc[t] \in {"sem", "call"}
  BY DEF Struck
<1>1. pc'[t] = Unwind(t) /\ \A u \in Tasks \ {t} : pc'[u] = pc[u]
  BY GotoMoves DEF Struck, CallerInv
<1>2. StageFits(t)'
  <2>1. CASE Unwind(t) = "drain"
    BY <1>1, <1>k, <2>1 DEF Unwind, StageFits, Mappers
  <2>2. CASE Unwind(t) # "drain"
    BY <1>1, <2>2 DEF Unwind, StageFits
  <2> QED
    BY <2>1, <2>2
(* No push of a handle is under way: it would have left the task idle. *)
<1>3. ASSUME NEW b \in Buckets PROVE lease[b][t] # "taskPush"
  BY <1>0, <1>k DEF LeaseFits, InBody
<1>4. ASSUME NEW b \in Buckets, lease[b][t] = "handle" PROVE Unwind(t) = "close"
  <2>1. CASE Kind[t] \in Chats
    BY <2>1 DEF Unwind, Chats
  <2>2. CASE Kind[t] = "compact"
    <3>1. pc[t] \in {"summarize", "close"}
      BY <1>4, <1>k, <2>2 DEF LeaseFits, WithHandle, FitsKind, Chats
    <3>2. ASSUME NEW c \in Buckets PROVE lease[c][t] \in {"none", "handle", "taskPush"}
      <4>1. lease[c][t] # "ctxPush"
        BY <1>k, <2>2 DEF LeaseFits
      <4>2. lease[c][t] \notin Pending
        BY <1>k, <3>1, PendingAt DEF WaitsForOne
      <4> QED
        BY <4>1, <4>2 DEF Pending, TypeOK, LeaseState
    <3>3. Idle(t)
      BY <3>2 DEF Idle
    <3> QED
      BY <1>0, <3>1, <3>3 DEF InBody
  <2> QED
    BY <1>4, <1>k, <2>1, <2>2 DEF LeaseFits
<1>5. CASE Idle(t) /\ UNCHANGED gpuVars
  <2>1. \A b \in Buckets : lease[b][t] # "ctxPush"
    BY <1>5 DEF Idle
  <2>2. UNCHANGED lease
    BY <1>5 DEF gpuVars
  <2>3. Fits(t)'
    BY <1>1, <1>2, <1>3, <1>4, <2>1, <2>2, FitsMove DEF WithHandle
  <2> QED
    BY <1>1, <2>2, <2>3, FitsOne
<1>6. ASSUME NEW b \in Buckets, CancelWait(t, b) \/ CancelLoses(t, b) \/ ExitCtx(t, b)
      PROVE  EveryoneFits'
  <2>1. PICK s \in {"none", "ctxPush"} :
          /\ SetLease(t, b, s) /\ lease[b][t] \in Pending \cup {"ctxPush"}
          /\ s = "ctxPush" => lease[b][t] = "ctx"
    BY <1>6 DEF CancelWait, CancelLoses, ExitCtx, Pending
  <2>2. /\ lease'[b][t] = s
        /\ \A u \in Tasks \ {t}, c \in Buckets : lease'[c][u] = lease[c][u]
    BY <2>1, LeaseSets
  <2>3. \A c \in Buckets \ {b} : lease[c][t] # "ctxPush"
    BY <2>1, <1>k DEF WaitsForOne
  <2>4. s = "ctxPush" => Unwind(t) \in AfterCall /\ Kind[t] # "compact"
    <3>1. ASSUME s = "ctxPush" PROVE pc[t] \in {"rewrite", "fold", "call"}
      BY <2>1, <3>1, <1>k, PendingAt DEF WaitsForOne, Pending
    <3> QED
      BY <3>1, <1>k DEF Unwind, AfterCall, StageFits, FitsKind, Chats
  <2>5. LeaseFits(t, b)'
    BY <1>1, <1>k, <2>1, <2>2, <2>4 DEF LeaseFits, HyqBucket
  <2>6. Fits(t)'
    BY <1>1, <1>2, <1>3, <1>4, <2>1, <2>3, <2>5, FitsToken DEF WithHandle
  <2> QED
    BY <1>1, <2>2, <2>6, FitsOne
<1> QED
  BY <1>5, <1>6 DEF Struck

LEMMA NextRequestFits ==
  ASSUME EveryoneFits, CallerInv, TypeOK, NEW t \in Tasks, NextRequest(t)
  PROVE  EveryoneFits'
<1>0. UNCHANGED lease
  BY DEF NextRequest, gpuVars
<1>1. PICK family \in SUBSET Tasks :
        /\ \A u \in family : pc[u] = "idle" \/ Over(u)
        /\ pc' = [u \in Tasks |-> IF u \in family THEN "idle" ELSE pc[u]]
  <2> DEFINE family == {u \in Tasks : u = t \/ Parent[u] = t}
  <2> QED
    BY DEF NextRequest
<1>2. ASSUME NEW u \in family PROVE Fits(u)'
  <2>1. pc'[u] = "idle"
    BY <1>1, <1>2
  <2>2. StageFits(u)'
    BY <2>1 DEF StageFits
  <2>3. \A b \in Buckets : LeaseFits(u, b)
    BY DEF EveryoneFits, Fits
  <2>4. CASE pc[u] = "idle"
    <3>1. \A b \in Buckets : lease[b][u] \notin {"handle", "taskPush", "ctxPush"}
      BY <2>3, <2>4 DEF LeaseFits, WithHandle, AfterCall
    <3> QED
      BY <1>0, <2>2, <3>1, FitsMove
  <2>5. CASE Over(u)
    <3>1. pc[u] \in {"done", "failed"} /\ Idle(u) /\ \A b \in Buckets : lease[b][u] # "taskPush"
      BY <2>5 DEF Over, Finished
    <3>2. \A b \in Buckets : lease[b][u] \notin {"handle", "taskPush", "ctxPush"}
      BY <2>3, <3>1 DEF LeaseFits, WithHandle, Idle
    <3> QED
      BY <1>0, <2>2, <3>2, FitsMove
  <2> QED
    BY <1>1, <2>4, <2>5
<1>3. ASSUME NEW u \in Tasks \ family PROVE Fits(u)'
  <2>1. pc'[u] = pc[u]
    BY <1>1, <1>3
  <2> QED
    BY <1>0, <2>1, FitsStays DEF EveryoneFits
<1> QED
  BY <1>2, <1>3 DEF EveryoneFits

LEMMA ServerFits ==
  ASSUME EveryoneFits, CallerInv, TypeOK, NEW p \in Procs, Server(p)
  PROVE  EveryoneFits'
<1>1. CASE UNCHANGED <<pc, lease>>
  BY <1>1, FitsStays DEF EveryoneFits
<1>2. CASE Crash(p) /\ pc' = [t \in Tasks |-> IF ProcOf[t] = p THEN "done" ELSE pc[t]]
  <2>1. ASSUME NEW u \in Tasks, ProcOf[u] = p PROVE Fits(u)'
    <3>1. pc'[u] = "done" /\ \A b \in Buckets : lease'[b][u] = "none"
      BY <1>2, <2>1 DEF Crash
    <3> QED
      BY <3>1 DEF Fits, StageFits, LeaseFits
  <2>2. ASSUME NEW u \in Tasks, ProcOf[u] # p PROVE Fits(u)'
    <3>1. pc'[u] = pc[u] /\ \A b \in Buckets : lease'[b][u] = lease[b][u]
      BY <1>2, <2>2 DEF Crash
    <3> QED
      BY <3>1, FitsStays DEF EveryoneFits
  <2> QED
    BY <2>1, <2>2 DEF EveryoneFits
<1>3. UNCHANGED <<pc, lease>>
        \/ (Crash(p) /\ pc' = [t \in Tasks |-> IF ProcOf[t] = p THEN "done" ELSE pc[t]])
  BY DEF Server, ProcStep, tasks, StartProc, InitRead, InitFill, ResetStart, ResetFill, Fill
<1> QED
  BY <1>1, <1>2, <1>3

LEMMA EveryoneFitsHolds == LlmSpec => []EveryoneFits
<1>1. LlmInit => EveryoneFits
  <2> SUFFICES ASSUME LlmInit PROVE EveryoneFits
    OBVIOUS
  <2>1. \A t \in Tasks : pc[t] = "idle" /\ \A b \in Buckets : lease[b][t] = "none"
    BY DEF LlmInit, Init
  <2> QED
    BY <2>1 DEF EveryoneFits, Fits, StageFits, LeaseFits
<1>2. EveryoneFits /\ CallerInv /\ TypeOK /\ [LlmNext]_llmVars => EveryoneFits'
  <2> SUFFICES ASSUME EveryoneFits, CallerInv, TypeOK, [LlmNext]_llmVars PROVE EveryoneFits'
    OBVIOUS
  <2>1. ASSUME NEW t \in Tasks, Ask(t) PROVE EveryoneFits'
    <3>1. Target(t) \in Buckets
      BY <2>1, TargetIsBucket DEF Ask
    <3> QED
      BY <2>1, <3>1, TokenFits
  <2>2. ASSUME NEW t \in Tasks, Proceed(t) PROVE EveryoneFits'
    BY <2>1, <2>2, QuietFits, FanFits, TokenFits, PushFits, CloseFits DEF Proceed
  <2>3. ASSUME NEW t \in Tasks, NEW b \in Buckets, Redis(t, b) \/ GiveUp(t, b) PROVE EveryoneFits'
    BY <2>3, TokenFits
  <2>4. CASE UNCHANGED <<pc, lease>>
    BY <2>4, FitsStays DEF EveryoneFits
  <2>5. ASSUME NEW t \in Tasks, Disconnect(t) PROVE UNCHANGED <<pc, lease>>
    BY <2>5 DEF Disconnect, gpuVars
  <2>6. UNCHANGED llmVars => UNCHANGED <<pc, lease>>
    BY DEF llmVars, gpuVars
  <2> QED
    BY <2>2, <2>3, <2>4, <2>5, <2>6, NextRequestFits, StruckFits, ServerFits DEF LlmNext
<1> QED
  BY <1>1, <1>2, CallersAreGeneral, CallerInvHolds, TypeCorrect, PTL DEF LlmSpec
-----------------------------------------------------------------------------
(* What a task that waits can hold. *)
AwaitsCalls(t) == pc[t] \in {"gather", "consolidate", "drain"}
AwaitsToken(t) == pc[t] \in {"acquire", "rewrite", "fold", "call"} /\ Target(t) \in Buckets
                  /\ Blockers(t) = InUse(Target(t))
                  /\ (lease[Target(t)][t] = "waiting" \/ Idle(t))

LEMMA WaitsFor ==
  ASSUME NEW t \in Tasks, Blockers(t) # {}
  PROVE  \/ AwaitsToken(t)
         \/ pc[t] = "sem" /\ Blockers(t) = InSemaphore(t)
         \/ AwaitsCalls(t) /\ Blockers(t) = Awaited(t)
<1>1. CASE \E b \in Wants(t) : queue[b] = 0
  <2>1. PICK b \in Buckets : b = Target(t) /\ Wants(t) = {b}
                              /\ (lease[b][t] = "waiting" \/ Idle(t))
    BY <1>1 DEF Wants
  <2>2. pc[t] \in {"acquire", "rewrite", "fold", "call"}
    BY <2>1, PendingAt
  <2>3. Blockers(t) = UNION {InUse(c) : c \in {b}}
    BY <1>1, <2>1, <2>2 DEF Blockers
  <2>4. Blockers(t) = InUse(b)
    BY <2>3
  <2> QED
    BY <2>1, <2>2, <2>4 DEF AwaitsToken
<1>2. CASE ~(\E b \in Wants(t) : queue[b] = 0) /\ pc[t] = "sem"
  BY <1>2 DEF Blockers
<1>3. CASE ~(\E b \in Wants(t) : queue[b] = 0) /\ pc[t] # "sem"
  <2>1. Blockers(t) = Awaited(t)
    BY <1>3 DEF Blockers
  <2>2. AwaitsCalls(t)
    BY <2>1 DEF Awaited, AwaitsCalls
  <2> QED
    BY <2>1, <2>2
<1> QED
  BY <1>1, <1>2, <1>3

(* Only a chat that compacts waits with a token in its hand, and not one of *)
(* the utility pool.                                                        *)
LEMMA WaitersHoldLittle ==
  ASSUME EveryoneFits, CallerInv, TypeOK, NEW t \in Tasks, Blockers(t) # {},
         NEW b \in Buckets, lease[b][t] \in HoldsToken
  PROVE  pc[t] = "fold" /\ b = HandlePool(t) /\ b # UtilityPool
<1>k. FitsKind(t) /\ WaitsForOne(t) /\ \A c \in Buckets : LeaseFits(t, c)
  BY Known DEF CallerInv
<1>1. CASE AwaitsToken(t)
  <2>1. /\ pc[t] \in {"acquire", "rewrite", "fold", "call"}
        /\ Target(t) \in Buckets /\ (lease[Target(t)][t] = "waiting" \/ Idle(t))
    BY <1>1 DEF AwaitsToken
  <2>2. lease[b][t] \notin {"popped", "ctx", "ctxPush"}
    BY <2>1, <1>k DEF WaitsForOne, Pending, Idle
  <2>3. lease[b][t] = "handle"
    BY <2>1, <2>2, <1>k DEF LeaseFits, HoldsToken
  <2> QED
    BY <2>1, <2>3, <1>k DEF LeaseFits, WithHandle, FitsKind
<1>2. CASE pc[t] \in {"sem", "gather", "consolidate", "drain"}
  <2>1. lease[b][t] \notin Pending
    BY <1>2, <1>k, PendingAt DEF WaitsForOne
  <2> QED
    BY <1>2, <2>1, <1>k DEF LeaseFits, Pending, HoldsToken, WithHandle, AfterCall
<1> QED
  BY <1>1, <1>2, WaitsFor DEF AwaitsCalls

(* No set of requests waits only for tokens, permits and sub-calls of its   *)
(* own members: compact_history and generate_comparison take a second slot  *)
(* while the request holds one or awaits others, in no circle.              *)
THEOREM NobodyWaitsInCircles == LlmSpec => []NoCircularWait
<1>1. EveryoneFits /\ CallerInv /\ TypeOK => NoCircularWait
  <2> SUFFICES ASSUME EveryoneFits, CallerInv, TypeOK,
                      NEW S \in SUBSET {t \in Tasks : Blockers(t) # {}},
                      \A t \in S : Blockers(t) \subseteq S
               PROVE  S = {}
    BY DEF NoCircularWait
  <2>k. \A t \in Tasks : /\ StageFits(t) /\ FitsKind(t) /\ WaitsForOne(t)
                         /\ \A b \in Buckets : LeaseFits(t, b)
    BY Known DEF CallerInv
  <2>1. ASSUME NEW t \in S, AwaitsToken(t)
        PROVE  \E u \in S : pc[u] = "fold" /\ Target(t) = HandlePool(u) /\ Target(t) # UtilityPool
    <3>1. PICK u \in S : lease[Target(t)][u] \in HoldsToken
      BY <2>1 DEF AwaitsToken, InUse
    <3> QED
      BY <2>1, <3>1, WaitersHoldLittle DEF AwaitsToken
  <2>2. ASSUME NEW t \in S, pc[t] = "fold" PROVE FALSE
    <3>1. AwaitsToken(t) /\ Target(t) = UtilityPool
      BY <2>2, WaitsFor DEF AwaitsCalls, Target
    <3> QED
      BY <2>1, <3>1
  <2>3. ASSUME NEW t \in S PROVE ~AwaitsToken(t)
    BY <2>1, <2>2, <2>3
  <2>4. ASSUME NEW t \in S PROVE pc[t] # "sem"
    <3> SUFFICES ASSUME pc[t] = "sem" PROVE FALSE
      OBVIOUS
    <3>1. Blockers(t) = InSemaphore(t) /\ Blockers(t) # {}
      BY <2>3, WaitsFor DEF AwaitsCalls
    <3>2. PICK u \in S : pc[u] = "call" \/ ~Idle(u)
      BY <3>1 DEF InSemaphore
    <3>3. pc[u] \in {"sem", "gather", "consolidate", "drain"}
      BY <2>3, WaitsFor DEF AwaitsCalls
    <3>4. ASSUME NEW b \in Buckets PROVE lease[b][u] \in {"none", "handle", "taskPush"}
      <4>1. lease[b][u] \notin Pending
        BY <2>k, <3>3, PendingAt DEF WaitsForOne
      <4>2. lease[b][u] # "ctxPush"
        BY <2>k, <3>3 DEF LeaseFits, AfterCall
      <4> QED
        BY <4>1, <4>2 DEF Pending, TypeOK, LeaseState
    <3>5. Idle(u)
      BY <3>4 DEF Idle
    <3> QED
      BY <3>2, <3>3, <3>5
  <2>5. ASSUME NEW t \in S PROVE FALSE
    <3>1. Blockers(t) = Awaited(t) /\ Blockers(t) # {}
      BY <2>3, <2>4, WaitsFor
    <3>2. PICK u \in S : u # t /\ Parent[u] = t
      BY <3>1 DEF Awaited
    <3>3. AwaitsCalls(u)
      BY <2>3, <2>4, WaitsFor
    <3>4. Kind[u] \in Mappers
      BY <2>k, <3>3 DEF AwaitsCalls, StageFits, Mappers
    <3> QED
      BY <3>2, <3>4, LlmCallsAssumption DEF Mappers
  <2> QED
    BY <2>5
<1> QED
  BY <1>1, EveryoneFitsHolds, CallerInvHolds, CallersAreGeneral, TypeCorrect, PTL

(* With a reserved bucket no interactive call waits for a background one,   *)
(* directly or for a permit or a sub-call (hq_gpu_slot).                    *)
THEOREM BackgroundApart == LlmSpec => []BackgroundStaysApart
<1>1. EveryoneFits /\ CallerInv => BackgroundStaysApart
  <2> SUFFICES ASSUME EveryoneFits, CallerInv, \A p \in Procs : Slots[p][Reserved] > 0,
                      NEW t \in Tasks \ Background,
                      NEW u \in Background, u \in Blockers(t)
               PROVE  FALSE
    BY DEF BackgroundStaysApart
  <2>1. /\ u \in Tasks /\ Kind[u] \in {"pass", "hyq"} /\ Kind[t] \notin {"pass", "hyq"}
        /\ Kind[t] \in Kinds /\ StageFits(t) /\ FitsKind(t)
    BY Known DEF Background, CallerInv
  <2>2. CASE AwaitsToken(t)
    <3>1. Target(t) \in Buckets /\ lease[Target(t)][u] # "none"
      BY <2>2 DEF AwaitsToken, InUse, HoldsToken
    <3>2. Target(t) = HyqBucket(u)
      BY <2>1, <3>1 DEF EveryoneFits, Fits, LeaseFits
    <3>3. Target(t) = Reserved
      BY <2>1, <3>1, <3>2, LlmCallsAssumption, GpuSlotsAssumption DEF HyqBucket
    <3>4. Target(t) \in {UtilityPool, ModelPool[t]}
      BY <2>1, <3>1, LlmCallsAssumption DEF Target, HandlePool
    <3> QED
      BY <3>3, <3>4, LlmCallsAssumption
  <2>3. CASE pc[t] = "sem" /\ Blockers(t) = InSemaphore(t)
    BY <2>1, <2>3 DEF InSemaphore, Sharers
  <2>4. CASE Blockers(t) = Awaited(t)
    <3>1. u # t /\ Parent[u] = t
      BY <2>4 DEF Awaited
    <3> QED
      BY <2>1, <3>1, LlmCallsAssumption
  <2> QED
    BY <2>2, <2>3, <2>4, WaitsFor
<1> QED
  BY <1>1, EveryoneFitsHolds, CallerInvHolds, PTL
-----------------------------------------------------------------------------
(* The requests in which nothing can cost a token. *)
SmallMaps ==
  \A c, d \in Tasks : Kind[c] = "chunk" /\ Kind[d] = "chunk" /\ Parent[c] = Parent[d] => c = d
PlainStreams == \A t \in Streamed : Kind[t] \in Chats /\ FoldAt(t) = "foldHeld"
-----------------------------------------------------------------------------
(* A streamed chat that compacts under its own handle has nothing pending   *)
(* from its turn on, so the disconnect finds no token between two hands.    *)
Held == {"turn", "foldHeld", "answer", "close", "closeAgain"}
Sheltered(t) ==
  /\ t \in Streamed => pc[t] # "fold" /\ (pc[t] \in Held => Idle(t))
  /\ hit[t] # "no" => t \in Streamed /\ pc[t] \in Held \cup {"done"} /\ Idle(t)
EveryoneSheltered == \A t \in Tasks : Sheltered(t)

LEMMA ShelterStays ==
  ASSUME EveryoneSheltered, NEW t \in Tasks,
         hit'[t] = hit[t], Idle(t) => Idle(t)',
         pc'[t] = pc[t] \/ (hit[t] # "no" => pc'[t] \in Held \cup {"done"}),
         pc'[t] = pc[t] \/ (t \in Streamed => pc'[t] # "fold" /\ (pc'[t] \in Held => Idle(t)'))
  PROVE  Sheltered(t)'
<1>1. Sheltered(t)
  BY DEF EveryoneSheltered
<1>2. hit'[t] # "no" => t \in Streamed /\ pc'[t] \in Held \cup {"done"} /\ Idle(t)'
  BY <1>1 DEF Sheltered
<1>3. t \in Streamed => pc'[t] # "fold" /\ (pc'[t] \in Held => Idle(t)')
  BY <1>1 DEF Sheltered
<1> QED
  BY <1>2, <1>3 DEF Sheltered

LEMMA ShelterUnmoved ==
  ASSUME EveryoneSheltered, NEW t \in Tasks, hit'[t] = hit[t], pc'[t] = pc[t],
         \A b \in Buckets : lease'[b][t] = lease[b][t]
  PROVE  Sheltered(t)'
<1>1. Idle(t) => Idle(t)'
  BY DEF Idle
<1> QED
  BY <1>1, ShelterStays

LEMMA ShelterOne ==
  ASSUME EveryoneSheltered, NEW t \in Tasks, Sheltered(t)', UNCHANGED hit,
         \A u \in Tasks \ {t} : pc'[u] = pc[u] /\ \A b \in Buckets : lease'[b][u] = lease[b][u]
  PROVE  EveryoneSheltered'
<1>1. ASSUME NEW u \in Tasks \ {t} PROVE Sheltered(u)'
  BY <1>1, ShelterUnmoved
<1> QED
  BY <1>1 DEF EveryoneSheltered

(* The steps of one task that move no token. *)
LEMMA QuietShelter ==
  ASSUME PlainStreams, EveryoneSheltered, EveryoneFits, CallerInv, NEW t \in Tasks,
         \/ Arrive(t) \/ EnterSemaphore(t) \/ Unmetered(t) \/ Turn(t) \/ HeldCallEnds(t)
         \/ Drained(t)
  PROVE  EveryoneSheltered'
<1>k. StageFits(t) /\ FitsKind(t) /\ Sheltered(t)
  BY Known DEF CallerInv, EveryoneSheltered
<1>0. UNCHANGED <<lease, hit>>
  BY DEF Arrive, EnterSemaphore, Unmetered, Turn, HeldCallEnds, Drained, gpuVars
<1>i. Idle(t) => Idle(t)'
  BY <1>0 DEF Idle
<1>1. ASSUME NEW s, Goto(t, s), hit[t] # "no" => s \in Held \cup {"done"},
             t \in Streamed => s # "fold" /\ (s \in Held => Idle(t))
      PROVE  EveryoneSheltered'
  <2>1. pc'[t] = s /\ \A u \in Tasks \ {t} : pc'[u] = pc[u]
    BY <1>1, GotoMoves DEF CallerInv
  <2>2. Sheltered(t)'
    BY <1>0, <1>1, <1>i, <2>1, ShelterStays
  <2> QED
    BY <1>0, <2>1, <2>2, ShelterOne
<1>2. CASE Arrive(t)
  <2>1. pc[t] = "idle" /\ \E s \in {"acquire", "rewrite", "call", "fanout"} : Goto(t, s)
    BY <1>2 DEF Arrive
  <2> QED
    BY <2>1, <1>k, <1>1 DEF Sheltered, Held
<1>3. CASE EnterSemaphore(t) \/ Drained(t)
  <2>1. pc[t] \in {"sem", "drain"} /\ \E s \in {"call", "done"} : Goto(t, s)
    BY <1>3 DEF EnterSemaphore, Drained
  <2> QED
    BY <2>1, <1>k, <1>1 DEF Sheltered, Held
<1>4. CASE Unmetered(t)
  <2>1. Idle(t) /\ pc[t] \in {"acquire", "rewrite", "call"}
    BY <1>4 DEF Unmetered
  <2>2. PICK s \in After(t) : Goto(t, s)
    BY <1>4 DEF Unmetered
  <2>3. s # "fold"
    BY <2>1, <2>2 DEF After
  <2> QED
    BY <2>1, <2>2, <2>3, <1>k, <1>1 DEF Sheltered, Held
<1>5. CASE Turn(t)
  <2>1. pc[t] = "turn"
    BY <1>5 DEF Turn
  <2>2. PICK s \in {"answer", FoldAt(t), "close"} : Goto(t, s)
    BY <1>5 DEF Turn
  <2>3. t \in Streamed => s \in {"answer", "foldHeld", "close"} /\ Idle(t)
    BY <2>1, <2>2, <1>k DEF PlainStreams, Sheltered, Held
  <2> QED
    BY <2>1, <2>2, <2>3, <1>k, <1>1 DEF Sheltered, Held
<1>6. CASE HeldCallEnds(t)
  <2>1. Idle(t) /\ pc[t] \in {"foldHeld", "answer", "summarize"}
    BY <1>6 DEF HeldCallEnds
  <2>2. PICK s \in After(t) : Goto(t, s)
    BY <1>6 DEF HeldCallEnds
  <2>3. s \in {"answer", "close"}
    BY <2>1, <2>2 DEF After
  <2> QED
    BY <2>1, <2>2, <2>3, <1>1 DEF Held
<1> QED
  BY <1>2, <1>3, <1>4, <1>5, <1>6

(* A fan-out starts or ends: no chat moves. *)
LEMMA FanShelter ==
  ASSUME PlainStreams, EveryoneSheltered, EveryoneFits, CallerInv, NEW t \in Tasks,
         FanOut(t) \/ Gathered(t) \/ Consolidated(t)
  PROVE  EveryoneSheltered'
<1>0. UNCHANGED <<lease, hit>> /\ pc[t] \in {"fanout", "gather", "consolidate"}
  BY DEF FanOut, Gathered, Consolidated, gpuVars
<1>1. ASSUME NEW u \in Tasks
      PROVE  \/ pc'[u] = pc[u]
             \/ /\ pc[u] \in {"idle", "fanout", "gather", "consolidate"}
                /\ pc'[u] \in {"sem", "call", "gather", "consolidate", "done"}
  <2>1. CASE \E s \in {"call", "done"} : Goto(t, s)
    BY <1>0, <2>1, GotoMoves DEF CallerInv
  <2>2. ASSUME NEW s \in {"gather", "consolidate"}, NEW K, NEW w \in {"sem", "call"}, Spawn(t, s, K, w)
        PROVE  \/ pc'[u] = pc[u]
               \/ /\ pc[u] \in {"idle", "fanout", "gather", "consolidate"}
                  /\ pc'[u] \in {"sem", "call", "gather", "consolidate"}
    <3>1. pc'[u] = IF u = t THEN s ELSE IF u \in K /\ pc[u] = "idle" THEN w ELSE pc[u]
      BY <2>2 DEF Spawn
    <3> QED
      BY <1>0, <3>1
  <2>3. CASE FanOut(t)
    BY <2>2, <2>3 DEF FanOut
  <2>4. CASE Gathered(t)
    BY <2>1, <2>2, <2>4 DEF Gathered
  <2>5. CASE Consolidated(t)
    BY <2>1, <2>5 DEF Consolidated
  <2> QED
    BY <2>3, <2>4, <2>5
<1>2. ASSUME NEW u \in Tasks PROVE Sheltered(u)'
  <2>1. Idle(u) => Idle(u)'
    BY <1>0 DEF Idle
  <2>2. Sheltered(u)
    BY DEF EveryoneSheltered
  <2> QED
    BY <1>0, <1>1, <2>1, <2>2, ShelterStays DEF Sheltered, Held
<1> QED
  BY <1>2 DEF EveryoneSheltered

(* The steps that move one token.  A task that has one pending is not hit. *)
LEMMA TokenShelter ==
  ASSUME PlainStreams, EveryoneSheltered, EveryoneFits, CallerInv, TypeOK,
         NEW t \in Tasks, NEW b \in Buckets,
         \/ Reply(t, b) \/ Leave(t, b) \/ GiveUp(t, b) \/ Redis(t, b)
         \/ Ask(t) /\ b = Target(t)
  PROVE  EveryoneSheltered'
<1>k. /\ StageFits(t) /\ FitsKind(t) /\ WaitsForOne(t) /\ Sheltered(t)
      /\ \A c \in Buckets : LeaseFits(t, c)
  BY Known DEF CallerInv, EveryoneSheltered
<1>g. ASSUME NEW s, Goto(t, s) PROVE pc'[t] = s /\ \A u \in Tasks \ {t} : pc'[u] = pc[u]
  BY <1>g, GotoMoves DEF CallerInv
<1>h. UNCHANGED hit
  BY DEF Reply, Leave, GiveUp, Redis, Ask, tasks
<1>0. PICK s : SetLease(t, b, s)
  BY DEF Reply, Leave, GiveUp, Redis, Ask, Receive, ExitCtx, Timeout, Serve, Blpop
<1>s. /\ lease'[b][t] = s /\ \A c \in Buckets \ {b} : lease'[c][t] = lease[c][t]
      /\ \A u \in Tasks \ {t}, c \in Buckets : lease'[c][u] = lease[c][u]
  BY <1>0, LeaseSets
<1>1. ASSUME \A u \in Tasks \ {t} : pc'[u] = pc[u], hit[t] = "no",
             t \in Streamed => pc'[t] # "fold" /\ (pc'[t] \in Held => Idle(t)')
      PROVE  EveryoneSheltered'
  <2>1. Sheltered(t)'
    BY <1>1, <1>h DEF Sheltered
  <2> QED
    BY <1>1, <1>s, <1>h, <2>1, ShelterOne
<1>2. ASSUME lease[b][t] \in {"waiting", "popped", "ctx"}
      PROVE  /\ pc[t] \in {"acquire", "rewrite", "fold", "call"} /\ hit[t] = "no"
             /\ t \in Streamed => pc[t] \in {"acquire", "rewrite"}
             /\ \A c \in Buckets \ {b} : lease[c][t] \in {"none", "handle", "taskPush"}
  <2>1. b = Target(t)
    BY <1>2, <1>k DEF WaitsForOne, Pending
  <2>2. pc[t] \in {"acquire", "rewrite", "fold", "call"}
    BY <2>1, PendingAt
  <2>3. ~Idle(t)
    BY <1>2 DEF Idle
  <2>4. t \in Streamed => pc[t] \notin {"fold", "call"}
    BY <1>k DEF Sheltered, StageFits, PlainStreams, Chats
  <2>5. \A c \in Buckets \ {b} : lease[c][t] \notin Pending \cup {"ctxPush"}
    BY <1>2, <1>k DEF WaitsForOne, Pending
  <2>6. \A c \in Buckets \ {b} : lease[c][t] \in {"none", "handle", "taskPush"}
    BY <2>5 DEF Pending, TypeOK, LeaseState
  <2> QED
    BY <2>2, <2>3, <2>4, <2>6, <1>k DEF Sheltered
<1>3. CASE Reply(t, b)
  <2>1. lease[b][t] = "popped"
    BY <1>3 DEF Reply, Receive
  <2>2. CASE pc[t] = "acquire" /\ SetLease(t, b, "handle") /\ \E x \in After(t) : Goto(t, x)
    <3>1. PICK x \in After(t) : Goto(t, x)
      BY <2>2
    <3>2. x \in {"summarize", "turn"}
      BY <2>2, <3>1 DEF After
    <3>3. lease'[b][t] = "handle"
      BY <2>2, LeaseSets
    <3>4. Idle(t)'
      BY <1>2, <1>s, <2>1, <3>3 DEF Idle
    <3> QED
      BY <1>1, <1>2, <1>g, <2>1, <3>1, <3>2, <3>4
  <2>3. CASE pc[t] # "acquire" /\ UNCHANGED pc
    BY <1>1, <1>2, <2>1, <2>3 DEF Held
  <2> QED
    BY <1>3, <2>2, <2>3 DEF Reply, Receive, tasks
<1>4. CASE Leave(t, b)
  <2>1. lease[b][t] = "ctx"
    BY <1>4 DEF Leave, ExitCtx
  <2>2. PICK x \in After(t) : Goto(t, x)
    BY <1>4 DEF Leave
  <2>3. pc[t] # "acquire"
    BY <2>1, <1>k DEF WaitsForOne
  <2>4. t \in Streamed => x \in {"acquire", "done"}
    BY <1>2, <2>1, <2>2, <2>3 DEF After
  <2> QED
    BY <1>1, <1>2, <1>g, <2>1, <2>2, <2>4 DEF Held
<1>5. CASE GiveUp(t, b)
  <2>1. lease[b][t] = "waiting" /\ Goto(t, Busy(t))
    BY <1>5 DEF GiveUp, Timeout
  <2>2. t \in Streamed => Busy(t) = "done"
    BY <1>2, <2>1 DEF Busy
  <2> QED
    BY <1>1, <1>2, <1>g, <2>1, <2>2 DEF Held
<1>6. CASE Redis(t, b)
  <2>1. lease[b][t] = "waiting" /\ UNCHANGED pc
    BY <1>6 DEF Redis, Serve, tasks
  <2> QED
    BY <1>1, <1>2, <2>1 DEF Held
<1>7. CASE Ask(t) /\ b = Target(t)
  <2>1. UNCHANGED pc /\ pc[t] \in {"acquire", "rewrite", "fold", "call"}
    BY <1>7, PendingAt DEF Ask, tasks
  <2>2. hit[t] = "no"
    BY <2>1, <1>k DEF Sheltered, Held
  <2> QED
    BY <1>1, <1>k, <2>1, <2>2 DEF Sheltered, Held
<1> QED
  BY <1>3, <1>4, <1>5, <1>6, <1>7

LEMMA PushShelter ==
  ASSUME EveryoneSheltered, CallerInv, TypeOK, NEW t \in Tasks, NEW b \in Buckets, PushLands(t, b)
  PROVE  EveryoneSheltered'
<1>1. SetLease(t, b, "none") /\ UNCHANGED <<pc, hit>>
  BY DEF PushLands, Push, tasks
<1>2. /\ lease'[b][t] = "none" /\ \A c \in Buckets \ {b} : lease'[c][t] = lease[c][t]
      /\ \A u \in Tasks \ {t}, c \in Buckets : lease'[c][u] = lease[c][u]
  BY <1>1, LeaseSets
<1>3. Idle(t) => Idle(t)'
  BY <1>2 DEF Idle
<1>4. Sheltered(t)'
  BY <1>1, <1>3, ShelterStays
<1> QED
  BY <1>1, <1>2, <1>4, ShelterOne

LEMMA CloseShelter ==
  ASSUME PlainStreams, EveryoneSheltered, EveryoneFits, CallerInv, TypeOK, NEW t \in Tasks, Close(t)
  PROVE  EveryoneSheltered'
<1>0. pc[t] \in {"close", "closeAgain"} /\ Idle(t) /\ UNCHANGED hit
  BY DEF Close
<1>1. PICK s \in {"done", "closeAgain"} : Goto(t, s)
  BY DEF Close
<1>2. pc'[t] = s /\ \A u \in Tasks \ {t} : pc'[u] = pc[u]
  BY <1>1, GotoMoves DEF CallerInv
<1>3. HandlePool(t) \in Buckets \cup {NoPool}
  BY LlmCallsAssumption DEF HandlePool
<1>4. UNCHANGED lease \/ (HandlePool(t) \in Buckets /\ SetLease(t, HandlePool(t), "taskPush"))
  BY <1>3, LlmCallsAssumption DEF Close, ReleaseHandle, gpuVars
<1>5. Idle(t)' /\ \A u \in Tasks \ {t}, b \in Buckets : lease'[b][u] = lease[b][u]
  <2>1. CASE UNCHANGED lease
    BY <1>0, <2>1 DEF Idle
  <2>2. CASE HandlePool(t) \in Buckets /\ SetLease(t, HandlePool(t), "taskPush")
    <3>1. /\ lease'[HandlePool(t)][t] = "taskPush"
          /\ \A c \in Buckets \ {HandlePool(t)} : lease'[c][t] = lease[c][t]
          /\ \A u \in Tasks \ {t}, c \in Buckets : lease'[c][u] = lease[c][u]
      BY <2>2, LeaseSets
    <3> QED
      BY <1>0, <3>1 DEF Idle
  <2> QED
    BY <1>4, <2>1, <2>2
<1>6. Sheltered(t)'
  BY <1>0, <1>2, <1>5, ShelterStays DEF Held
<1> QED
  BY <1>0, <1>2, <1>5, <1>6, ShelterOne

(* A map of one chunk has nobody to cancel. *)
LEMMA MapShelter ==
  ASSUME SmallMaps, EveryoneSheltered, CallerInv, NEW t \in Tasks, MapFails(t)
  PROVE  EveryoneSheltered'
<1>1. pc[t] = "gather" /\ Goto(t, "drain") /\ UNCHANGED lease
  BY DEF MapFails, gpuVars
<1>2. PICK c \in Kids(t, "chunk") : Finished(c)
  BY DEF MapFails
<1>3. Kids(t, "chunk") = {c}
  BY <1>2 DEF Kids, SmallMaps
<1>4. \A u \in Tasks : hit'[u] = hit[u]
  BY <1>2, <1>3 DEF MapFails
<1>5. pc'[t] = "drain" /\ \A u \in Tasks \ {t} : pc'[u] = pc[u]
  BY <1>1, GotoMoves DEF CallerInv
<1>6. \A u \in Tasks \ {t} : Sheltered(u)'
  BY <1>1, <1>4, <1>5, ShelterUnmoved
<1>7. Sheltered(t)'
  <2>1. Sheltered(t)
    BY DEF EveryoneSheltered
  <2>2. Idle(t) => Idle(t)'
    BY <1>1 DEF Idle
  <2> QED
    BY <1>1, <1>4, <1>5, <2>1, <2>2, ShelterStays DEF Sheltered, Held
<1> QED
  BY <1>6, <1>7 DEF EveryoneSheltered

(* The cancellation of a sheltered chat takes it straight to its release. *)
LEMMA StruckShelter ==
  ASSUME PlainStreams, EveryoneSheltered, CallerInv, NEW t \in Tasks, Struck(t)
  PROVE  UNCHANGED gpuVars /\ EveryoneSheltered'
<1>1. /\ hit[t] # "no" /\ t \in Streamed /\ Idle(t)
      /\ pc[t] \in Held \cup {"done"} /\ Kind[t] \in Chats
  BY DEF Struck, EveryoneSheltered, Sheltered, PlainStreams
<1>2. Unwind(t) = "close"
  BY <1>1 DEF Unwind, Chats
<1>3. UNCHANGED gpuVars
  BY <1>1 DEF Struck, CancelWait, CancelLoses, ExitCtx, Idle
<1>4. pc'[t] = "close" /\ \A u \in Tasks \ {t} : pc'[u] = pc[u]
  BY <1>2, GotoMoves DEF Struck, CallerInv
<1>5. \A u \in Tasks \ {t} : hit'[u] = hit[u]
  BY <1>2 DEF Struck
<1>6. Sheltered(t)'
  <2>1. Idle(t)'
    BY <1>1, <1>3 DEF Idle, gpuVars
  <2> QED
    BY <1>1, <1>4, <2>1 DEF Sheltered, Held
<1>7. \A u \in Tasks \ {t} : Sheltered(u)'
  BY <1>3, <1>4, <1>5, ShelterUnmoved DEF gpuVars
<1> QED
  BY <1>3, <1>6, <1>7 DEF EveryoneSheltered

LEMMA DisconnectShelter ==
  ASSUME PlainStreams, EveryoneSheltered, EveryoneFits, CallerInv, LlmTypeOK,
         NEW t \in Tasks, Disconnect(t)
  PROVE  EveryoneSheltered'
<1>1. UNCHANGED <<pc, lease>> /\ t \in Streamed /\ \A u \in Tasks \ {t} : hit'[u] = hit[u]
  BY DEF Disconnect, gpuVars, LlmTypeOK
<1>2. Kind[t] \in Chats /\ Sheltered(t) /\ StageFits(t)
  BY <1>1, Known DEF PlainStreams, EveryoneSheltered, CallerInv
<1>3. pc[t] \in {"turn", "foldHeld", "answer"}
  BY <1>1, <1>2 DEF Disconnect, InBody, StageFits, Sheltered, Chats, Mappers
<1>4. Idle(t)
  BY <1>1, <1>2, <1>3 DEF Sheltered, Held
<1>5. Sheltered(t)'
  BY <1>1, <1>2, <1>3, <1>4 DEF Sheltered, Held, Idle
<1>6. \A u \in Tasks \ {t} : Sheltered(u)'
  BY <1>1, ShelterUnmoved
<1> QED
  BY <1>5, <1>6 DEF EveryoneSheltered

LEMMA NextRequestShelter ==
  ASSUME EveryoneSheltered, NEW t \in Tasks, NextRequest(t)
  PROVE  EveryoneSheltered'
<1>1. UNCHANGED lease
  BY DEF NextRequest, gpuVars
<1>2. PICK family \in SUBSET Tasks :
        /\ pc' = [u \in Tasks |-> IF u \in family THEN "idle" ELSE pc[u]]
        /\ hit' = [u \in Tasks |-> IF u \in family THEN "no" ELSE hit[u]]
  <2> DEFINE family == {u \in Tasks : u = t \/ Parent[u] = t}
  <2> QED
    BY DEF NextRequest
<1>3. ASSUME NEW u \in family PROVE Sheltered(u)'
  BY <1>2, <1>3 DEF Sheltered, Held
<1>4. ASSUME NEW u \in Tasks \ family PROVE Sheltered(u)'
  BY <1>1, <1>2, <1>4, ShelterUnmoved
<1> QED
  BY <1>3, <1>4 DEF EveryoneSheltered

LEMMA ServerShelter ==
  ASSUME EveryoneSheltered, NEW p \in Procs, Server(p)
  PROVE  EveryoneSheltered'
<1>1. CASE UNCHANGED <<pc, lease, hit>>
  BY <1>1, ShelterUnmoved DEF EveryoneSheltered
<1>2. CASE /\ Crash(p) /\ UNCHANGED hit
           /\ pc' = [t \in Tasks |-> IF ProcOf[t] = p THEN "done" ELSE pc[t]]
  <2>1. ASSUME NEW u \in Tasks, ProcOf[u] = p PROVE Sheltered(u)'
    <3>1. pc'[u] = "done" /\ \A b \in Buckets : lease'[b][u] = "none"
      BY <1>2, <2>1 DEF Crash
    <3>2. Idle(u)'
      BY <3>1 DEF Idle
    <3> QED
      BY <1>2, <3>1, <3>2, ShelterStays DEF Held
  <2>2. ASSUME NEW u \in Tasks, ProcOf[u] # p PROVE Sheltered(u)'
    <3>1. pc'[u] = pc[u] /\ \A b \in Buckets : lease'[b][u] = lease[b][u]
      BY <1>2, <2>2 DEF Crash
    <3> QED
      BY <1>2, <3>1, ShelterUnmoved
  <2> QED
    BY <2>1, <2>2 DEF EveryoneSheltered
<1>3. UNCHANGED <<pc, lease, hit>>
        \/ /\ Crash(p) /\ UNCHANGED hit
           /\ pc' = [t \in Tasks |-> IF ProcOf[t] = p THEN "done" ELSE pc[t]]
  BY DEF Server, ProcStep, tasks, StartProc, InitRead, InitFill, ResetStart, ResetFill, Fill
<1> QED
  BY <1>1, <1>2, <1>3
-----------------------------------------------------------------------------
(* No token is ever lost without a crash. *)
NothingLeaks == crashes = 0 => \A b \in Buckets : leaked[b] = 0

(* Of all the steps only a cancellation or a crash can lose a token. *)
LEMMA OnlyCancelsLeak ==
  ASSUME TypeOK, NothingLeaks, [LlmNext]_llmVars, \A t \in Tasks : Struck(t) => UNCHANGED gpuVars
  PROVE  NothingLeaks'
<1>0. SUFFICES ASSUME crashes' = 0, NEW c \in Buckets PROVE leaked'[c] = 0
  BY DEF NothingLeaks
<1>1. ASSUME UNCHANGED crashes,
             UNCHANGED leaked \/ \E b \in Buckets : leaked' = [leaked EXCEPT ![b] = 0]
      PROVE  leaked'[c] = 0
  BY <1>0, <1>1 DEF NothingLeaks, TypeOK
<1>2. ASSUME UNCHANGED gpuVars PROVE leaked'[c] = 0
  BY <1>1, <1>2 DEF gpuVars
<1>3. ASSUME NEW p \in Procs, Server(p) PROVE leaked'[c] = 0
  <2>1. ~Crash(p)
    BY <1>0 DEF Crash, TypeOK
  <2>2. CASE StartProc(p) \/ InitRead(p) \/ ResetStart(p)
    BY <1>1, <2>2 DEF StartProc, InitRead, ResetStart
  <2>3. CASE InitFill(p) \/ ResetFill(p)
    BY <1>1, <2>3, BucketAt DEF InitFill, ResetFill, Fill
  <2> QED
    BY <1>3, <2>1, <2>2, <2>3 DEF Server, ProcStep
<1>4. ASSUME NEW t \in Tasks, NEW b \in Buckets,
             Reply(t, b) \/ Leave(t, b) \/ PushLands(t, b) \/ Redis(t, b) \/ GiveUp(t, b)
      PROVE  leaked'[c] = 0
  BY <1>1, <1>4 DEF Reply, Leave, PushLands, Redis, GiveUp, Receive, ExitCtx, Push, Serve,
                    Timeout, boots
<1>5. ASSUME NEW t \in Tasks, Ask(t) \/ Close(t) PROVE leaked'[c] = 0
  <2>1. UNCHANGED <<crashes, leaked>>
    BY <1>5 DEF Ask, Close, Blpop, ReleaseHandle, gpuVars, boots
  <2> QED
    BY <1>1, <2>1
<1>6. ASSUME NEW t \in Tasks, Proceed(t) PROVE leaked'[c] = 0
  BY <1>2, <1>4, <1>5, <1>6 DEF Proceed, Arrive, FanOut, EnterSemaphore, Unmetered, Turn,
     HeldCallEnds, Gathered, MapFails, Consolidated, Drained
<1>7. ASSUME NEW t \in Tasks, NextRequest(t) \/ Disconnect(t) PROVE UNCHANGED gpuVars
  BY <1>7 DEF NextRequest, Disconnect
<1>8. UNCHANGED llmVars => UNCHANGED gpuVars
  BY DEF llmVars
<1> QED
  BY <1>2, <1>3, <1>4, <1>6, <1>7, <1>8 DEF LlmNext

LEMMA NothingLeaksHolds ==
  ASSUME SmallMaps, PlainStreams PROVE LlmSpec => [](EveryoneSheltered /\ NothingLeaks)
<1>1. LlmInit => EveryoneSheltered /\ NothingLeaks
  <2> SUFFICES ASSUME LlmInit PROVE EveryoneSheltered /\ NothingLeaks
    OBVIOUS
  <2>1. \A b \in Buckets : leaked[b] = 0
    BY DEF LlmInit, Init
  <2>2. \A t \in Tasks : pc[t] = "idle" /\ hit[t] = "no"
    BY DEF LlmInit
  <2> QED
    BY <2>1, <2>2 DEF EveryoneSheltered, Sheltered, NothingLeaks, Held
<1>2. /\ EveryoneSheltered /\ NothingLeaks /\ EveryoneFits /\ CallerInv /\ TypeOK /\ LlmTypeOK
      /\ [LlmNext]_llmVars
      => (EveryoneSheltered /\ NothingLeaks)'
  <2> SUFFICES ASSUME EveryoneSheltered, NothingLeaks, EveryoneFits, CallerInv, TypeOK, LlmTypeOK,
                      [LlmNext]_llmVars
               PROVE  EveryoneSheltered' /\ NothingLeaks'
    OBVIOUS
  <2>1. ASSUME NEW t \in Tasks, Struck(t) PROVE UNCHANGED gpuVars /\ EveryoneSheltered'
    BY <2>1, StruckShelter
  <2>2. NothingLeaks'
    BY <2>1, OnlyCancelsLeak
  <2>3. ASSUME NEW t \in Tasks, Ask(t) PROVE EveryoneSheltered'
    <3>1. Target(t) \in Buckets
      BY <2>3, TargetIsBucket DEF Ask
    <3> QED
      BY <2>3, <3>1, TokenShelter
  <2>4. ASSUME NEW t \in Tasks, Proceed(t) PROVE EveryoneSheltered'
    BY <2>3, <2>4, QuietShelter, FanShelter, TokenShelter, PushShelter, CloseShelter, MapShelter
       DEF Proceed
  <2>5. ASSUME NEW t \in Tasks, NEW b \in Buckets, Redis(t, b) \/ GiveUp(t, b)
        PROVE  EveryoneSheltered'
    BY <2>5, TokenShelter
  <2>6. CASE UNCHANGED llmVars
    <3>1. UNCHANGED <<pc, hit, lease>>
      BY <2>6 DEF llmVars, gpuVars
    <3>2. ASSUME NEW t \in Tasks PROVE Sheltered(t)'
      BY <3>1, ShelterUnmoved
    <3> QED
      BY <2>2, <3>2 DEF EveryoneSheltered
  <2> QED
    BY <2>1, <2>2, <2>4, <2>5, <2>6, DisconnectShelter, NextRequestShelter, ServerShelter
       DEF LlmNext
<1> QED
  BY <1>1, <1>2, CallersAreGeneral, CallerInvHolds, EveryoneFitsHolds, LlmTypeCorrect, TypeCorrect,
     PTL DEF LlmSpec

(* Where every task is idle or over, no token is out. *)
LEMMA OverHoldsNothing ==
  ASSUME TypeOK, EveryoneFits, CallerInv,
         \A t \in Tasks : pc[t] = "idle" \/ Over(t), NEW b \in Buckets
  PROVE  InUse(b) = {}
<1> SUFFICES ASSUME NEW t \in InUse(b) PROVE FALSE
  OBVIOUS
<1>1. t \in Tasks /\ lease[b][t] \in HoldsToken
  BY DEF InUse
<1>2. LeaseFits(t, b)
  BY <1>1 DEF EveryoneFits, Fits
<1>3. CASE Over(t)
  BY <1>1, <1>2, <1>3 DEF Over, Finished, Idle, LeaseFits, HoldsToken, WithHandle
<1>4. CASE pc[t] = "idle"
  <2>1. lease[b][t] \notin Pending
    BY <1>1, <1>4, NotWaiting DEF CallerInv
  <2> QED
    BY <1>1, <1>2, <1>4, <2>1 DEF LeaseFits, HoldsToken, Pending, WithHandle, AfterCall
<1> QED
  BY <1>1, <1>3, <1>4

(* The tokens come back whatever the requests do, fail or abandon, and     *)
(* whatever the processes and resets do short of a crash, where nothing     *)
(* leaves a call halfway: no document is mapped in several chunks and only  *)
(* chats that compact under their own slot are streamed.                    *)
THEOREM EveryTokenComesBack ==
  SmallMaps /\ PlainStreams => (LlmSpec => []TokensComeBack)
<1> SUFFICES ASSUME SmallMaps, PlainStreams PROVE LlmSpec => []TokensComeBack
  OBVIOUS
<1>1. TypeOK /\ EveryoneFits /\ CallerInv /\ NothingLeaks /\ Conservation => TokensComeBack
  <2> SUFFICES ASSUME TypeOK, EveryoneFits, CallerInv, NothingLeaks, Conservation,
                      \A t \in Tasks : pc[t] = "idle" \/ Over(t), crashes = 0,
                      NEW b \in Buckets
               PROVE  queue[b] = Filled(b) + surplus[b]
    BY DEF TokensComeBack
  <2>1. Cardinality(InUse(b)) = 0
    BY OverHoldsNothing, FS_EmptySet
  <2>2. leaked[b] = 0
    BY DEF NothingLeaks
  <2>3. queue[b] \in Nat
    BY DEF TypeOK
  <2>4. queue[b] + Cardinality(InUse(b)) + leaked[b] = Filled(b) + surplus[b]
    BY DEF Conservation
  <2> QED
    BY <2>1, <2>2, <2>3, <2>4
<1> QED
  BY <1>1, NothingLeaksHolds, CallersAreGeneral, CallerInvHolds, EveryoneFitsHolds,
     TokensConserved, TypeCorrect, PTL
=============================================================================
