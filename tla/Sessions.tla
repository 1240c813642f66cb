------------------------------ MODULE Sessions ------------------------------
(***************************************************************************)
(* Chat sessions: utils/store/sessions.py, and the handlers that read a    *)
(* history, work on their copy for as long as an LLM call takes, and write *)
(* the whole list back (services/session_stream.py, services/compaction.py *)
(* and the session endpoints of the chat and admin controllers).           *)
(*                                                                         *)
(* A session has three Redis keys: the history, the sidecar key of the     *)
(* model it is bound to, and its usage counters.  Each expires SessionTTL  *)
(* after it was last written or touched.  One Redis command is one action. *)
(***************************************************************************)
EXTENDS Naturals, Sequences, FiniteSets, FiniteSetsExt

CONSTANTS
  Ops,         \* requests: a turn, an undo, a compaction, a delete or a wipe
  May,         \* May[t]: which of those request t can be
  Past,        \* turns that were over before the model starts
  Known,       \* a session clients know of
  Starts,      \* the histories it may have in the beginning, <<>> if expired
  KeepPairs,   \* _KEEP_RECENT_PAIRS
  SessionTTL,  \* SESSION_TTL, in ticks
  MaxClock     \* bound: ticks of the clock

Kinds    == {"turn", "undo", "compact", "delete", "wipe"}
Sessions == Ops \cup {Known}       \* a new session is named by the turn that makes it
Speakers == Ops \cup Past

(* What a message tells, a summary tells what it was made from. *)
Roles    == {"system", "summary", "user", "assistant"}
Messages == [role : Roles, tells : SUBSET (Speakers \X {"said", "heard"})]
Prompt   == [role |-> "system", tells |-> {}]
Says(t)  == [role |-> "user", tells |-> {<<t, "said">>}]
Reply(t) == [role |-> "assistant", tells |-> {<<t, "heard">>}]
Told(h)  == UNION {h[i].tells : i \in DOMAIN h}

ASSUME SessionsAssumption ==
  /\ IsFiniteSet(Ops)
  /\ May \in [Ops -> SUBSET Kinds]
  /\ Known \notin Ops
  /\ Ops \cap Past = {}
  /\ Starts \subseteq Seq(Messages)
  /\ KeepPairs \in Nat \ {0}
  /\ SessionTTL \in Nat \ {0}
  /\ MaxClock \in Nat

VARIABLES
  history,   \* history[s]: the stored list, <<>> when the key does not exist
  due,       \* due[k][s]: when key k of session s expires, 0 if it does not exist
  clock,
  pc,        \* pc[t]: the Redis command the request is about to send
  sid,       \* sid[t]: the session it works on
  copy,      \* copy[t]: its copy of the history
  seen,      \* seen[t]: the history as the request last read or wrote it
  marked,    \* marked[t]: the sessions a wipe's SCAN found
  gone       \* the sessions deleted while no other request was on them

sessionVars == <<history, due, clock, pc, sid, copy, seen, marked, gone>>

Keys   == {"history", "model", "usage"}
Stages == {"idle", "rewrite", "fetch", "refresh", "bind", "compose", "save", "answer", "answered",
           "undo", "fold", "folded", "dropModel", "dropUsage", "wipeHistory",
           "findModels", "wipeModels", "findUsage", "wipeUsage", "done", "dead"}
-----------------------------------------------------------------------------
(* _split_history: the leading system messages, and where the recent part   *)
(* starts: KeepPairs exchanges back, further back to a user message.        *)
IsSystem(m) == m.role \in {"system", "summary"}
Lead(h) == Max({n \in 0..Len(h) : \A i \in 1..n : IsSystem(h[i])})

(* The leading messages without a prior summary: the prompt. *)
Prelude(h) ==
  LET kept == {i \in 1..Lead(h) : h[i].role = "system"}
      At(n) == CHOOSE i \in kept : Cardinality({j \in kept : j < i}) = n - 1
  IN [n \in 1..Cardinality(kept) |-> h[At(n)]]

CutAnywhere(h) ==      \* mutant: not aligned to a user message
  IF Lead(h) + 2 * KeepPairs <= Len(h) THEN Len(h) - 2 * KeepPairs ELSE Lead(h)
Cut(h) ==
  Max({c \in Lead(h)..Len(h) :
         c = Lead(h) \/ (c + 2 * KeepPairs <= Len(h) /\ h[c + 1].role = "user")})

CompactableByLength(h) == Len(h) > Lead(h) + 2 * KeepPairs    \* mutant: not by the cut
Compactable(h) == Cut(h) > Lead(h)

(* Mutants: the summary has another role, or the prior one is dropped. *)
CompactedAsNote(h) ==
  Prelude(h)
    \o <<[role |-> "note", tells |-> Told(SubSeq(h, 1, Cut(h)))]>>
    \o SubSeq(h, Cut(h) + 1, Len(h))
CompactedAfresh(h) ==
  <<h[1]>> \o <<[role |-> "summary", tells |-> Told(SubSeq(h, Lead(h) + 1, Cut(h)))]>>
           \o SubSeq(h, Cut(h) + 1, Len(h))

(* compact_history: the prompt stays, a prior summary is folded with the    *)
(* older exchanges into the new one, the recent ones stay verbatim.         *)
Compacted(h) ==
  Prelude(h)
    \o <<[role |-> "summary", tells |-> Told(SubSeq(h, 1, Cut(h)))]>>
    \o SubSeq(h, Cut(h) + 1, Len(h))

(* The exchanges before the last user message. *)
UserTurns(h) == {i \in DOMAIN h : h[i].role = "user"}
WithoutLast(h) == SubSeq(h, 1, Len(h) - 1)      \* mutant: drops one message
Undone(h) == SubSeq(h, 1, Max(UserTurns(h)) - 1)
-----------------------------------------------------------------------------
Alive(k, s) == due[k][s] > clock
Touch(k, s) == [due EXCEPT ![k][s] = clock + SessionTTL]
Drop(k, S) == [due EXCEPT ![k] = [s \in Sessions |-> IF s \in S THEN 0 ELSE @[s]]]
Goto(t, stage) == pc' = [pc EXCEPT ![t] = stage]
Over == {"done", "dead"}
Busy(s) == {t \in Ops : pc[t] \notin Over \cup {"idle"} /\ sid[t] = s}

Init ==
  /\ \E h \in Starts :
       /\ history = [s \in Sessions |-> IF s = Known THEN h ELSE <<>>]
       /\ due = [k \in Keys |-> [s \in Sessions |->
                   IF s = Known /\ h # <<>> THEN SessionTTL ELSE 0]]
  /\ clock = 0
  /\ pc = [t \in Ops |-> "idle"]
  /\ sid = [t \in Ops |-> Known]
  /\ copy = [t \in Ops |-> <<>>]
  /\ seen = [t \in Ops |-> <<>>]
  /\ marked = [t \in Ops |-> {}]
  /\ gone = {}

Locals == <<sid, copy, seen, marked>>

(* SETEX of a whole history. *)
Store(t, h) ==
  /\ history' = [history EXCEPT ![sid[t]] = h]
  /\ due' = Touch("history", sid[t])
  /\ UNCHANGED <<clock, gone>>

(* The request is over, its variables with it. *)
Return(t, stage) ==
  /\ Goto(t, stage)
  /\ sid' = [sid EXCEPT ![t] = Known]
  /\ copy' = [copy EXCEPT ![t] = <<>>]
  /\ seen' = [seen EXCEPT ![t] = <<>>]
  /\ marked' = [marked EXCEPT ![t] = {}]

(* A chat or a question for session s arrives, s may have expired or never  *)
(* existed.  A question about a history is rewritten first.                 *)
BeginTurn(t, s) ==
  /\ pc[t] = "idle" /\ "turn" \in May[t]
  /\ sid' = [sid EXCEPT ![t] = s]
  /\ \/ Goto(t, "fetch")
     \/ Len(history[s]) > 1 /\ Goto(t, "rewrite")
  /\ UNCHANGED <<history, due, clock, copy, seen, marked, gone>>

(* reformulate_query counts its tokens on the session. *)
Reformulate(t) ==
  /\ pc[t] = "rewrite"
  /\ due' = Touch("usage", sid[t])
  /\ Goto(t, "fetch")
  /\ UNCHANGED <<history, clock, gone, Locals>>

(* get_or_create_session: GET, or SETEX of a new one. *)
Fetch(t) ==
  /\ pc[t] = "fetch"
  /\ IF history[sid[t]] # <<>>
       THEN /\ copy' = [copy EXCEPT ![t] = history[sid[t]]]
            /\ seen' = [seen EXCEPT ![t] = history[sid[t]]]
            /\ Goto(t, "refresh")
            /\ UNCHANGED <<history, due, sid>>
       ELSE /\ sid' = [sid EXCEPT ![t] = t]
            /\ history' = [history EXCEPT ![t] = <<Prompt>>]
            /\ due' = Touch("history", t)
            /\ copy' = [copy EXCEPT ![t] = <<Prompt>>]
            /\ seen' = [seen EXCEPT ![t] = <<Prompt>>]
            /\ Goto(t, "bind")
  /\ UNCHANGED <<clock, marked, gone>>

(* EXPIRE of a key that is gone does nothing. *)
Refresh(t) ==
  /\ pc[t] = "refresh"
  /\ due' = IF history[sid[t]] # <<>> THEN Touch("history", sid[t]) ELSE due
  /\ Goto(t, "bind")
  /\ UNCHANGED <<history, clock, gone, Locals>>

(* bind_session_model for a new session or an explicit model, otherwise     *)
(* touch_session_model; then the user's message joins the copy.             *)
Bind(t) ==
  /\ pc[t] = "bind"
  /\ \/ due' = Touch("model", sid[t])
     \/ sid[t] # t /\ ~Alive("model", sid[t]) /\ UNCHANGED due
  /\ copy' = [copy EXCEPT ![t] = Append(@, Says(t))]
  /\ Goto(t, "compose")
  /\ UNCHANGED <<history, clock, sid, seen, marked, gone>>

(* A history near the model's window is folded first; when the LLM call     *)
(* fails, or its answer is empty, the turn goes on with the whole one.      *)
Compose(t) ==
  /\ pc[t] = "compose"
  /\ Goto(t, "save")
  /\ \/ UNCHANGED <<due, copy>>
     \/ /\ Compactable(copy[t])
        /\ due' = Touch("usage", sid[t])
        /\ copy' \in {copy, [copy EXCEPT ![t] = Compacted(@)]}
  /\ UNCHANGED <<history, clock, sid, seen, marked, gone>>

(* The user's message is stored before the answer is asked for. *)
Save(t) ==
  /\ pc[t] = "save"
  /\ Store(t, copy[t])
  /\ seen' = [seen EXCEPT ![t] = copy[t]]
  /\ Goto(t, "answer")
  /\ UNCHANGED <<sid, copy, marked>>

(* The usage of the streamed answer, when its last chunk carries it. *)
Record(t) ==
  /\ pc[t] = "answer"
  /\ due' = Touch("usage", sid[t])
  /\ Goto(t, "answered")
  /\ UNCHANGED <<history, clock, gone, Locals>>

(* The stream ends, fails or its client leaves: what was streamed is        *)
(* persisted in a shielded task, nothing if there is nothing.               *)
Finish(t) ==
  /\ pc[t] \in {"answer", "answered"}
  /\ \/ Store(t, Append(copy[t], Reply(t)))
     \/ UNCHANGED <<history, due, clock, gone>>
  /\ Return(t, "done")
-----------------------------------------------------------------------------
(* handle_undo_last_exchange; without a user message it is a 400. *)
UndoRead(t, s) ==
  /\ pc[t] = "idle" /\ "undo" \in May[t]
  /\ UserTurns(history[s]) # {}
  /\ sid' = [sid EXCEPT ![t] = s]
  /\ seen' = [seen EXCEPT ![t] = history[s]]
  /\ copy' = [copy EXCEPT ![t] = Undone(history[s])]
  /\ Goto(t, "undo")
  /\ UNCHANGED <<history, due, clock, marked, gone>>

UndoWrite(t) ==
  /\ pc[t] = "undo"
  /\ Store(t, copy[t])
  /\ Return(t, "done")

(* handle_compact_session; with nothing to fold it is a 400. *)
CompactRead(t, s) ==
  /\ pc[t] = "idle" /\ "compact" \in May[t]
  /\ history[s] # <<>> /\ Compactable(history[s])
  /\ sid' = [sid EXCEPT ![t] = s]
  /\ seen' = [seen EXCEPT ![t] = history[s]]
  /\ copy' = [copy EXCEPT ![t] = history[s]]
  /\ Goto(t, "fold")
  /\ UNCHANGED <<history, due, clock, marked, gone>>

CompactFold(t) ==
  /\ pc[t] = "fold"
  /\ due' = Touch("usage", sid[t])
  /\ copy' = [copy EXCEPT ![t] = Compacted(@)]
  /\ Goto(t, "folded")
  /\ UNCHANGED <<history, clock, sid, seen, marked, gone>>

CompactWrite(t) ==
  /\ pc[t] = "folded"
  /\ Store(t, copy[t])
  /\ Return(t, "done")
-----------------------------------------------------------------------------
(* delete_session: nothing else is deleted unless the history was. *)
Delete(t, s) ==
  /\ pc[t] = "idle" /\ "delete" \in May[t]
  /\ history[s] # <<>>
  /\ sid' = [sid EXCEPT ![t] = s]
  /\ history' = [history EXCEPT ![s] = <<>>]
  /\ due' = Drop("history", {s})
  /\ gone' = IF Busy(s) = {} THEN gone \cup {s} ELSE gone
  /\ Goto(t, "dropModel")
  /\ UNCHANGED <<clock, copy, seen, marked>>

DropModelOnly(t) ==      \* mutant: the usage counters are left behind
  /\ pc[t] = "dropModel"
  /\ due' = Drop("model", {sid[t]})
  /\ Return(t, "done")
  /\ UNCHANGED <<history, clock, gone>>

DropModel(t) ==
  /\ pc[t] = "dropModel"
  /\ due' = Drop("model", {sid[t]})
  /\ Goto(t, "dropUsage")
  /\ UNCHANGED <<history, clock, gone, Locals>>

DropUsage(t) ==
  /\ pc[t] = "dropUsage"
  /\ due' = Drop("usage", {sid[t]})
  /\ Return(t, "done")
  /\ UNCHANGED <<history, clock, gone>>

(* delete_all_app_sessions: for the histories, the bindings and the usage   *)
(* counters in turn, a SCAN and then one DEL of what it found.              *)
Scan(t) ==
  /\ \/ pc[t] = "idle" /\ "wipe" \in May[t] /\ Goto(t, "wipeHistory")
        /\ marked' = [marked EXCEPT ![t] = {s \in Sessions : Alive("history", s)}]
     \/ pc[t] = "findModels" /\ Goto(t, "wipeModels")
        /\ marked' = [marked EXCEPT ![t] = {s \in Sessions : Alive("model", s)}]
     \/ pc[t] = "findUsage" /\ Goto(t, "wipeUsage")
        /\ marked' = [marked EXCEPT ![t] = {s \in Sessions : Alive("usage", s)}]
  /\ UNCHANGED <<history, due, clock, sid, copy, seen, gone>>

WipeHistory(t) ==
  /\ pc[t] = "wipeHistory"
  /\ history' = [s \in Sessions |-> IF s \in marked[t] THEN <<>> ELSE history[s]]
  /\ due' = Drop("history", marked[t])
  /\ gone' = gone \cup {s \in marked[t] : Busy(s) \ {t} = {}}
  /\ Goto(t, "findModels")
  /\ UNCHANGED <<clock, Locals>>

Wipe(t) ==
  /\ \/ /\ pc[t] = "wipeModels"
        /\ due' = Drop("model", marked[t])
        /\ Goto(t, "findUsage")
        /\ UNCHANGED Locals
     \/ /\ pc[t] = "wipeUsage"
        /\ due' = Drop("usage", marked[t])
        /\ Return(t, "done")
  /\ UNCHANGED <<history, clock, gone>>

(* The request ends here: its process crashes, a command fails, or a client *)
(* that leaves cancels it before the shielded write.                        *)
Die(t) ==
  /\ pc[t] \notin Over \cup {"idle"}
  /\ Return(t, "dead")
  /\ UNCHANGED <<history, due, clock, gone>>

(* Redis drops the keys whose time is over. *)
Tick ==
  /\ clock < MaxClock
  /\ clock' = clock + 1
  /\ history' = [s \in Sessions |-> IF due["history"][s] <= clock + 1 THEN <<>> ELSE history[s]]
  /\ due' = [k \in Keys |-> [s \in Sessions |-> IF due[k][s] <= clock + 1 THEN 0 ELSE due[k][s]]]
  /\ UNCHANGED <<pc, gone, Locals>>

Step(t) ==
  \/ \E s \in Sessions : BeginTurn(t, s) \/ UndoRead(t, s) \/ CompactRead(t, s) \/ Delete(t, s)
  \/ Reformulate(t) \/ Fetch(t) \/ Refresh(t) \/ Bind(t) \/ Compose(t) \/ Save(t)
  \/ Record(t) \/ Finish(t) \/ UndoWrite(t) \/ CompactFold(t) \/ CompactWrite(t)
  \/ DropModel(t) \/ DropUsage(t) \/ Scan(t) \/ WipeHistory(t) \/ Wipe(t) \/ Die(t)

Next == Tick \/ \E t \in Ops : Step(t)

Spec == Init /\ [][Next]_sessionVars
-----------------------------------------------------------------------------
TypeOK ==
  /\ history \in [Sessions -> Seq(Messages)]
  /\ due \in [Keys -> [Sessions -> Nat]]
  /\ clock \in Nat
  /\ pc \in [Ops -> Stages]
  /\ sid \in [Ops -> Sessions]
  /\ copy \in [Ops -> Seq(Messages)] /\ seen \in [Ops -> Seq(Messages)]
  /\ marked \in [Ops -> SUBSET Sessions]
  /\ gone \subseteq Sessions

(* A history is the prompt, at most one summary, and then exchanges: every  *)
(* answer stands right behind the message it answers, or is in the summary  *)
(* together with it, and nothing is told twice.  No order of turns, undos   *)
(* and compactions breaks an exchange apart.                                *)
WellFormed(h) ==
  /\ h # <<>> => h[1] = Prompt
  /\ \A i \in DOMAIN h :
       /\ h[i].role = "system" => i = 1
       /\ h[i].role = "summary" =>
            i = 2 /\ \A t \in Speakers : <<t, "heard">> \in h[i].tells => <<t, "said">> \in h[i].tells
       /\ h[i].role = "user" => \E t \in Speakers : h[i] = Says(t)
       /\ h[i].role = "assistant" =>
            i > 1 /\ \E t \in Speakers : h[i] = Reply(t) /\ h[i - 1] = Says(t)
  /\ \A i, j \in DOMAIN h : i # j => h[i].tells \cap h[j].tells = {}

(* The turns that were over before wrote what is there in the beginning. *)
ASSUME StartsAssumption ==
  \A h \in Starts : WellFormed(h) /\ Told(h) \subseteq Past \X {"said", "heard"}

HistoriesWellFormed ==
  /\ \A s \in Sessions : WellFormed(history[s])
  /\ \A t \in Ops : WellFormed(copy[t])

(* An undo takes the last user message, its answer if it has one, and       *)
(* nothing else: never a summary, the prompt or a part of another exchange. *)
UndoTakesOneExchange ==
  \A t \in Ops : pc[t] = "undo" =>
    /\ copy[t] # <<>>
    /\ \E u \in Speakers :
         /\ <<u, "said">> \in Told(seen[t])
         /\ Told(seen[t]) \ Told(copy[t]) = Told(seen[t]) \cap ({u} \X {"said", "heard"})

(* Folding settles: what was just compacted has nothing left to fold.       *)
FoldSettles ==
  \A t \in Ops : pc[t] = "folded" => ~Compactable(copy[t])

(* A turn or a compaction whose history nobody else wrote in the meantime   *)
(* stores everything that was stored, in full or in the summary.            *)
WritesTurn(t) ==
  pc[t] \in {"save", "answer", "answered", "folded"} /\ pc'[t] # pc[t] /\ history' # history
KeepsAll(t) == Told(history[sid[t]]) \subseteq Told(history'[sid[t]])
QuietWritesKeepAll ==
  [][\A t \in Ops : WritesTurn(t) /\ history[sid[t]] = seen[t] => KeepsAll(t)]_sessionVars

(* What persist_history says: nothing is dropped on write. *)
NothingDropped ==
  [][\A t \in Ops : WritesTurn(t) => KeepsAll(t)]_sessionVars

(* A session deleted or wiped while no other request was on it never comes  *)
(* back, and once the delete is over none of its keys is left.              *)
DeletedStaysDeleted ==
  \A s \in gone :
    /\ history[s] = <<>>
    /\ (\A t \in Ops : pc[t] \in {"idle", "done"}) => ~Alive("model", s) /\ ~Alive("usage", s)

(* What open_user_turn says: the binding lives exactly as long as the        *)
(* history.  Between requests, once every one of them has run to its end, no *)
(* tick of the clock takes a binding away from a history that lives on.      *)
BindingLivesAsLong ==
  [][\A s \in Sessions :
       (clock' # clock /\ (\A t \in Ops : pc[t] \in {"idle", "done"})
        /\ Alive("model", s) /\ Alive("history", s)') => Alive("model", s)']_sessionVars
=============================================================================
