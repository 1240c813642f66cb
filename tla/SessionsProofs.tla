--------------------------- MODULE SessionsProofs ---------------------------
(***************************************************************************)
(* Proofs about Sessions for any number of requests, sessions, messages    *)
(* and ticks: what was deleted in peace stays deleted.                     *)
(***************************************************************************)
EXTENDS Sessions, TLAPS

Wiping == {"wipeHistory", "findModels", "wipeModels", "findUsage", "wipeUsage"}
Unborn == {"idle", "rewrite", "fetch"}
Calm   == {"idle", "fetch", "dropModel", "dropUsage"} \cup Wiping \cup Over

(* The part of TypeOK that does not speak of messages.                      *)
Shape ==
  /\ history = [s \in Sessions |-> history[s]]
  /\ due \in [Keys -> [Sessions -> Nat]]
  /\ clock \in Nat
  /\ pc \in [Ops -> Stages]
  /\ sid \in [Ops -> Sessions]
  /\ marked \in [Ops -> SUBSET Sessions]
  /\ gone \subseteq Sessions

(* A request that works on no session of its own is parked on Known.        *)
Parked == \A t \in Ops : pc[t] \in {"idle"} \cup Wiping \cup Over => sid[t] = Known

(* A turn that has not fetched its history has not made a session, and      *)
(* nobody can be at work on it, have found it in a scan or have deleted it. *)
Unmade ==
  \A u \in Ops : pc[u] \in Unborn =>
    /\ u \notin gone /\ history[u] = <<>>
    /\ \A k \in Keys : due[k][u] = 0
    /\ \A t \in Ops : u \notin marked[t] /\ (sid[t] = u => pc[t] = "fetch")

(* Who will still remove key k of session s.                                *)
WillDrop(t, k, s) ==
  \/ pc[t] = "dead"
  \/ sid[t] = s /\ pc[t] \in (IF k = "model" THEN {"dropModel"} ELSE {"dropModel", "dropUsage"})
  \/ pc[t] \in (IF k = "model" THEN {"findModels"} ELSE {"findModels", "wipeModels", "findUsage"})
  \/ s \in marked[t] /\ pc[t] = (IF k = "model" THEN "wipeModels" ELSE "wipeUsage")

(* Nobody who could write works on a deleted session, and each key it still *)
(* has is one that a delete or a wipe under way, or one that died, was      *)
(* going to remove.                                                         *)
Quiet ==
  \A s \in gone :
    /\ history[s] = <<>>
    /\ \A t \in Ops : sid[t] = s => pc[t] \in Calm
    /\ \A k \in {"model", "usage"} : Alive(k, s) => \E t \in Ops : WillDrop(t, k, s)

AtPeace == Shape /\ Parked /\ Unmade /\ Quiet
-----------------------------------------------------------------------------
LEMMA Names == Ops \subseteq Sessions /\ Known \in Sessions /\ Known \notin Ops
  BY SessionsAssumption DEF Sessions

LEMMA AtPeaceInit == Init => AtPeace
<1> SUFFICES ASSUME Init PROVE AtPeace
  OBVIOUS
<1>1. PICK h \in Starts :
        /\ history = [s \in Sessions |-> IF s = Known THEN h ELSE <<>>]
        /\ due = [k \in Keys |-> [s \in Sessions |-> IF s = Known /\ h # <<>> THEN SessionTTL ELSE 0]]
  BY DEF Init
<1>2. Shape
  <2>1. history = [s \in Sessions |-> history[s]]
    BY <1>1
  <2>2. due \in [Keys -> [Sessions -> Nat]]
    BY <1>1, SessionsAssumption
  <2>3. QED
    BY <2>1, <2>2, Names DEF Init, Shape, Stages
<1>3. Parked
  BY DEF Init, Parked
<1>4. Unmade
  BY <1>1, Names DEF Init, Unmade
<1>5. Quiet
  BY DEF Init, Quiet
<1>6. QED
  BY <1>2, <1>3, <1>4, <1>5 DEF AtPeace

LEMMA Touched ==
  ASSUME Shape, NEW k \in Keys, NEW s \in Sessions
  PROVE  /\ Touch(k, s) \in [Keys -> [Sessions -> Nat]]
         /\ \A l \in Keys, r \in Sessions : l # k \/ r # s => Touch(k, s)[l][r] = due[l][r]
  BY SessionsAssumption DEF Shape, Touch

LEMMA Dropped ==
  ASSUME Shape, NEW k \in Keys, NEW S \in SUBSET Sessions
  PROVE  /\ Drop(k, S) \in [Keys -> [Sessions -> Nat]]
         /\ \A l \in Keys, r \in Sessions :
              Drop(k, S)[l][r] = IF l = k /\ r \in S THEN 0 ELSE due[l][r]
<1>1. [s \in Sessions |-> IF s \in S THEN 0 ELSE due[k][s]] \in [Sessions -> Nat]
  BY DEF Shape
<1>2. Drop(k, S) = [due EXCEPT ![k] = [s \in Sessions |-> IF s \in S THEN 0 ELSE due[k][s]]]
  BY DEF Drop
<1>3. QED
  BY <1>1, <1>2 DEF Shape

(* A request that touches no deleted session, and was not going to remove   *)
(* anything, leaves them deleted.                                           *)
LEMMA QuietKept ==
  ASSUME Shape, Quiet, NEW t \in Ops, NEW c,
         pc' = [pc EXCEPT ![t] = c], gone' = gone, clock' = clock,
         \A u \in Ops \ {t} : sid'[u] = sid[u] /\ marked'[u] = marked[u],
         \A s \in gone : history'[s] = <<>>,
         \A s \in gone, k \in {"model", "usage"} : due'[k][s] = due[k][s],
         sid'[t] \in gone => c \in Calm,
         c = "dead" \/ pc[t] \notin {"dead", "dropModel", "dropUsage", "findModels", "wipeModels",
                               "findUsage", "wipeUsage"}
  PROVE  Quiet'
<1> SUFFICES ASSUME NEW s \in gone
             PROVE  /\ \A u \in Ops : sid'[u] = s => pc'[u] \in Calm
                    /\ \A k \in {"model", "usage"} :
                         (Alive(k, s))' => \E u \in Ops : (WillDrop(u, k, s))'
  BY DEF Quiet
<1>1. ASSUME NEW u \in Ops, sid'[u] = s PROVE pc'[u] \in Calm
  BY <1>1 DEF Quiet, Shape
<1>2. ASSUME NEW k \in {"model", "usage"}, (Alive(k, s))'
      PROVE  \E u \in Ops : (WillDrop(u, k, s))'
  <2>1. PICK u \in Ops : WillDrop(u, k, s)
    BY <1>2 DEF Quiet, Alive
  <2>2. CASE u = t
    <3>1. (WillDrop(t, k, s))'
      BY <2>1, <2>2 DEF WillDrop, Shape
    <3>2. QED
      BY <3>1
  <2>3. CASE u # t
    BY <2>1, <2>3 DEF WillDrop, Shape
  <2>4. QED
    BY <2>2, <2>3
<1>3. QED
  BY <1>1, <1>2

(* The requests that write to the session they are on, once they have read  *)
(* it: turns that have fetched, undos and compactions.                      *)
AtWork == {"rewrite", "refresh", "bind", "compose", "save", "answer", "answered", "undo", "fold", "folded"}

(* Nobody at work is on a session that is deleted or not yet made.          *)
LEMMA WorksOnLiving ==
  ASSUME AtPeace, NEW t \in Ops, pc[t] \in AtWork
  PROVE  sid[t] \in Sessions /\ sid[t] \notin gone /\ (sid[t] \in Ops => pc[sid[t]] \notin Unborn)
  BY DEF AtPeace, Shape, Unmade, Quiet, AtWork, Calm, Wiping, Over

(* A step of a request at work that stays on its session or returns.        *)
LEMMA WorkKeeps ==
  ASSUME AtPeace, NEW t \in Ops, NEW c \in Stages \ (Wiping \cup {"idle", "rewrite"}),
         pc[t] \in AtWork, pc' = [pc EXCEPT ![t] = c],
         c = "fetch" => pc[t] = "rewrite",
         gone' = gone, clock' = clock,
         history' = [history EXCEPT ![sid[t]] = history'[sid[t]]],
         due' = due \/ \E k \in Keys : due' = Touch(k, sid[t]),
         \/ sid' = sid /\ marked' = marked /\ c \notin Over
         \/ sid' = [sid EXCEPT ![t] = Known] /\ marked' = [marked EXCEPT ![t] = {}] /\ c \in Over
  PROVE  AtPeace'
<1> USE Names
<1>1. sid[t] \in Sessions /\ sid[t] \notin gone /\ (sid[t] \in Ops => pc[sid[t]] \notin Unborn)
  BY WorksOnLiving
<1>2. due' \in [Keys -> [Sessions -> Nat]]
      /\ \A k \in Keys, s \in Sessions : s # sid[t] => due'[k][s] = due[k][s]
  BY <1>1, Touched DEF AtPeace, Shape
<1>3. \A s \in Sessions : s # sid[t] => history'[s] = history[s]
  BY <1>1 DEF AtPeace, Shape
<1>4. Shape'
  <2>1. history' = [s \in Sessions |-> history'[s]]
    BY DEF AtPeace, Shape
  <2>2. QED
    BY <2>1, <1>2 DEF AtPeace, Shape
<1>5. Parked'
  BY DEF AtPeace, Shape, Parked, Wiping, Over
<1>6. Unmade'
  <2> SUFFICES ASSUME NEW u \in Ops, pc'[u] \in Unborn
               PROVE  /\ u \notin gone' /\ history'[u] = <<>>
                      /\ \A k \in Keys : due'[k][u] = 0
                      /\ \A v \in Ops : u \notin marked'[v] /\ (sid'[v] = u => pc'[v] = "fetch")
    BY DEF Unmade
  <2>1. pc[u] \in Unborn
    BY DEF AtPeace, Shape, Unborn
  <2>2. u # sid[t] /\ u \in Sessions
    BY <2>1, <1>1
  <2>3. u \notin gone /\ history[u] = <<>> /\ (\A k \in Keys : due[k][u] = 0)
    BY <2>1 DEF AtPeace, Unmade
  <2>4. history'[u] = <<>> /\ (\A k \in Keys : due'[k][u] = 0)
    BY <2>2, <2>3, <1>2, <1>3
  <2>5. ASSUME NEW v \in Ops
        PROVE  u \notin marked'[v] /\ (sid'[v] = u => pc'[v] = "fetch")
    <3>1. u \notin marked[v] /\ (sid[v] = u => pc[v] = "fetch")
      BY <2>1 DEF AtPeace, Unmade
    <3>2. CASE v = t
      <4>1. sid'[t] # u
        BY <2>2 DEF AtPeace, Shape
      <4>2. u \notin marked'[t]
        BY <3>1, <3>2 DEF AtPeace, Shape
      <4>3. QED
        BY <3>2, <4>1, <4>2
    <3>3. CASE v # t
      BY <3>1, <3>3 DEF AtPeace, Shape
    <3>4. QED
      BY <3>2, <3>3
  <2>6. QED
    BY <2>3, <2>4, <2>5
<1>7. Quiet'
  <2>1. \A s \in gone : s \in Sessions /\ s # sid[t]
    BY <1>1 DEF AtPeace, Shape
  <2>2. \A s \in gone : history'[s] = <<>>
    BY <2>1, <1>3 DEF AtPeace, Quiet
  <2>3. \A s \in gone, k \in {"model", "usage"} : due'[k][s] = due[k][s]
    BY <2>1, <1>2 DEF Keys
  <2>4. \A u \in Ops \ {t} : sid'[u] = sid[u] /\ marked'[u] = marked[u]
    BY DEF AtPeace, Shape
  <2>5. sid'[t] \in gone => c \in Calm
    BY <1>1 DEF AtPeace, Shape, Calm
  <2>6. pc[t] \notin {"dead", "dropModel", "dropUsage", "findModels", "wipeModels", "findUsage", "wipeUsage"}
    BY DEF AtWork
  <2>7. QED
    BY <2>2, <2>3, <2>4, <2>5, <2>6, QuietKept DEF AtPeace
<1>8. QED
  BY <1>4, <1>5, <1>6, <1>7 DEF AtPeace

LEMMA SameHistory ==
  ASSUME Shape, NEW s \in Sessions
  PROVE  history = [history EXCEPT ![s] = history[s]]
  BY DEF Shape

LEMMA WorkSteps ==
  ASSUME AtPeace, NEW t \in Ops,
         \/ Reformulate(t) \/ Refresh(t) \/ Bind(t) \/ Compose(t) \/ Save(t) \/ Record(t)
         \/ Finish(t) \/ UndoWrite(t) \/ CompactFold(t) \/ CompactWrite(t)
         \/ Die(t) /\ pc[t] \in AtWork
  PROVE  AtPeace'
<1> USE DEF Goto, Locals, Return, AtWork, Over, Stages, Wiping, Keys
<1>0. sid[t] \in Sessions /\ history = [history EXCEPT ![sid[t]] = history[sid[t]]]
  BY SameHistory DEF AtPeace, Shape
<1>s. \A h : [history EXCEPT ![sid[t]] = h][sid[t]] = h
  BY <1>0 DEF AtPeace, Shape
<1>1. CASE Reformulate(t)
  BY <1>1, <1>0, <1>s, WorkKeeps DEF Reformulate, Store
<1>2. CASE Refresh(t)
  BY <1>2, <1>0, <1>s, WorkKeeps DEF Refresh, Store
<1>3. CASE Bind(t)
  BY <1>3, <1>0, <1>s, WorkKeeps DEF Bind, Store
<1>4. CASE Compose(t)
  BY <1>4, <1>0, <1>s, WorkKeeps DEF Compose, Store
<1>5. CASE Save(t)
  BY <1>5, <1>0, <1>s, WorkKeeps DEF Save, Store
<1>6. CASE Record(t)
  BY <1>6, <1>0, <1>s, WorkKeeps DEF Record, Store
<1>7. CASE Finish(t)
  BY <1>7, <1>0, <1>s, WorkKeeps DEF Finish, Store
<1>8. CASE UndoWrite(t)
  BY <1>8, <1>0, <1>s, WorkKeeps DEF UndoWrite, Store
<1>9. CASE CompactFold(t)
  BY <1>9, <1>0, <1>s, WorkKeeps DEF CompactFold, Store
<1>10. CASE CompactWrite(t)
  BY <1>10, <1>0, <1>s, WorkKeeps DEF CompactWrite, Store
<1>11. CASE Die(t) /\ pc[t] \in AtWork
  BY <1>11, <1>0, WorkKeeps DEF Die
<1>12. QED
  BY <1>1, <1>2, <1>3, <1>4, <1>5, <1>6, <1>7, <1>8, <1>9, <1>10, <1>11
(* A turn, an undo or a compaction begins; a turn may begin on a session    *)
(* that is gone, the others need its history.                               *)
LEMMA BeginKeeps ==
  ASSUME AtPeace, NEW t \in Ops, NEW s \in Sessions, NEW c \in {"fetch", "rewrite", "undo", "fold"},
         pc[t] = "idle", c # "fetch" => history[s] # <<>>,
         pc' = [pc EXCEPT ![t] = c], sid' = [sid EXCEPT ![t] = s],
         UNCHANGED <<history, due, clock, marked, gone>>
  PROVE  AtPeace'
<1> USE Names
<1>1. Shape'
  BY DEF AtPeace, Shape, Stages
<1>2. Parked'
  BY DEF AtPeace, Shape, Parked, Wiping, Over
<1>3. Unmade'
  <2> SUFFICES ASSUME NEW u \in Ops, pc'[u] \in Unborn
               PROVE  /\ u \notin gone /\ history[u] = <<>>
                      /\ \A k \in Keys : due[k][u] = 0
                      /\ \A v \in Ops : u \notin marked[v] /\ (sid'[v] = u => pc'[v] = "fetch")
    BY DEF Unmade
  <2>1. pc[u] \in Unborn
    BY DEF AtPeace, Shape, Unborn
  <2>2. /\ u \notin gone /\ history[u] = <<>>
        /\ \A k \in Keys : due[k][u] = 0
        /\ \A v \in Ops : u \notin marked[v] /\ (sid[v] = u => pc[v] = "fetch")
    BY <2>1 DEF AtPeace, Unmade
  <2>3. ASSUME NEW v \in Ops, sid'[v] = u PROVE pc'[v] = "fetch"
    BY <2>2, <2>3 DEF AtPeace, Shape
  <2>4. QED
    BY <2>2, <2>3
<1>4. Quiet'
  <2>1. sid'[t] \in gone => c \in Calm
    BY DEF AtPeace, Shape, Quiet, Calm
  <2>2. \A u \in Ops \ {t} : sid'[u] = sid[u] /\ marked'[u] = marked[u]
    BY DEF AtPeace, Shape
  <2>3. QED
    BY <2>1, <2>2, QuietKept DEF AtPeace, Quiet
<1>5. QED
  BY <1>1, <1>2, <1>3, <1>4 DEF AtPeace

LEMMA BeginSteps ==
  ASSUME AtPeace, NEW t \in Ops, NEW s \in Sessions,
         BeginTurn(t, s) \/ UndoRead(t, s) \/ CompactRead(t, s)
  PROVE  AtPeace'
<1>1. CASE BeginTurn(t, s)
  <2>1. Len(history[s]) > 1 => history[s] # <<>>
    OBVIOUS
  <2>2. QED
    BY <1>1, <2>1, BeginKeeps DEF BeginTurn, Goto
<1>2. CASE UndoRead(t, s)
  <2>1. UserTurns(history[s]) # {} => history[s] # <<>>
    BY DEF UserTurns
  <2>2. QED
    BY <1>2, <2>1, BeginKeeps DEF UndoRead, Goto
<1>3. CASE CompactRead(t, s)
  BY <1>3, BeginKeeps DEF CompactRead, Goto
<1>4. QED
  BY <1>1, <1>2, <1>3

(* What holds of a turn's own session before it is made.                    *)
LEMMA FetchStep ==
  ASSUME AtPeace, NEW t \in Ops, Fetch(t)
  PROVE  AtPeace'
<1> USE Names
<1>1. CASE history[sid[t]] # <<>>
  <2>0. sid[t] \in Sessions /\ sid[t] \notin gone /\ sid' = sid /\ history' = history /\ due' = due
        /\ pc' = [pc EXCEPT ![t] = "refresh"] /\ UNCHANGED <<clock, marked, gone>> /\ pc[t] = "fetch"
    BY <1>1 DEF Fetch, Goto, AtPeace, Shape, Quiet
  <2>1. Shape'
    BY <2>0 DEF AtPeace, Shape, Stages
  <2>2. Parked'
    BY <2>0 DEF AtPeace, Shape, Parked, Wiping, Over
  <2>3. Unmade'
    <3> SUFFICES ASSUME NEW u \in Ops, pc'[u] \in Unborn
                 PROVE  /\ u \notin gone /\ history[u] = <<>>
                        /\ \A k \in Keys : due[k][u] = 0
                        /\ \A v \in Ops : u \notin marked[v] /\ (sid[v] = u => pc'[v] = "fetch")
      BY <2>0 DEF Unmade
    <3>1. pc[u] \in Unborn /\ u # t
      BY <2>0 DEF AtPeace, Shape, Unborn
    <3>2. /\ u \notin gone /\ history[u] = <<>>
          /\ \A k \in Keys : due[k][u] = 0
          /\ \A v \in Ops : u \notin marked[v] /\ (sid[v] = u => pc[v] = "fetch")
      BY <3>1 DEF AtPeace, Unmade
    <3>3. ASSUME NEW v \in Ops, sid[v] = u PROVE pc'[v] = "fetch"
      BY <3>2, <3>3, <2>0, <1>1 DEF AtPeace, Shape
    <3>4. QED
      BY <3>2, <3>3
  <2>4. Quiet'
    BY <2>0, QuietKept DEF AtPeace, Quiet
  <2>5. QED
    BY <2>1, <2>2, <2>3, <2>4 DEF AtPeace
<1>2. CASE history[sid[t]] = <<>>
  <2>0. /\ sid' = [sid EXCEPT ![t] = t] /\ history' = [history EXCEPT ![t] = <<Prompt>>]
        /\ due' = Touch("history", t) /\ pc' = [pc EXCEPT ![t] = "bind"]
        /\ UNCHANGED <<clock, marked, gone>> /\ pc[t] = "fetch"
        /\ t \in Sessions /\ t \notin gone
    BY <1>2 DEF Fetch, Goto, AtPeace, Unmade, Unborn
  <2>1. due' \in [Keys -> [Sessions -> Nat]]
        /\ \A k \in Keys, s \in Sessions : s # t => due'[k][s] = due[k][s]
    BY <2>0, Touched DEF AtPeace, Shape, Keys
  <2>2. \A s \in Sessions : s # t => history'[s] = history[s]
    BY <2>0 DEF AtPeace, Shape
  <2>3. Shape'
    <3>1. history' = [s \in Sessions |-> history'[s]]
      BY <2>0 DEF AtPeace, Shape
    <3>2. QED
      BY <3>1, <2>0, <2>1 DEF AtPeace, Shape, Stages
  <2>4. Parked'
    BY <2>0 DEF AtPeace, Shape, Parked, Wiping, Over
  <2>5. Unmade'
    <3> SUFFICES ASSUME NEW u \in Ops, pc'[u] \in Unborn
                 PROVE  /\ u \notin gone /\ history'[u] = <<>>
                        /\ \A k \in Keys : due'[k][u] = 0
                        /\ \A v \in Ops : u \notin marked[v] /\ (sid'[v] = u => pc'[v] = "fetch")
      BY <2>0 DEF Unmade
    <3>1. pc[u] \in Unborn /\ u # t /\ u \in Sessions
      BY <2>0 DEF AtPeace, Shape, Unborn
    <3>2. /\ u \notin gone /\ history[u] = <<>>
          /\ \A k \in Keys : due[k][u] = 0
          /\ \A v \in Ops : u \notin marked[v] /\ (sid[v] = u => pc[v] = "fetch")
      BY <3>1 DEF AtPeace, Unmade
    <3>3. ASSUME NEW v \in Ops, sid'[v] = u PROVE pc'[v] = "fetch"
      BY <3>1, <3>2, <3>3, <2>0 DEF AtPeace, Shape
    <3>4. QED
      BY <3>1, <3>2, <3>3, <2>1, <2>2
  <2>6. Quiet'
    <3>1. \A s \in gone : s \in Sessions /\ s # t
      BY <2>0 DEF AtPeace, Shape
    <3>2. \A s \in gone : history'[s] = <<>>
      BY <3>1, <2>2 DEF AtPeace, Quiet
    <3>3. \A s \in gone, k \in {"model", "usage"} : due'[k][s] = due[k][s]
      BY <3>1, <2>1 DEF Keys
    <3>4. sid'[t] = t /\ \A u \in Ops \ {t} : sid'[u] = sid[u] /\ marked'[u] = marked[u]
      BY <2>0 DEF AtPeace, Shape
    <3>5. QED
      BY <2>0, <3>2, <3>3, <3>4, QuietKept DEF AtPeace
  <2>7. QED
    BY <2>3, <2>4, <2>5, <2>6 DEF AtPeace
<1>3. QED
  BY <1>1, <1>2
(* The steps that delete and the ones that end: no turn is where it was not *)
(* before, and nothing comes to be.                                         *)
LEMMA RemovalKeepsUnmade ==
  ASSUME AtPeace, NEW t \in Ops, NEW c, c \notin Unborn, pc' = [pc EXCEPT ![t] = c],
         \A s \in Sessions : history'[s] \in {history[s], <<>>},
         \A k \in Keys, s \in Sessions : due'[k][s] \in {due[k][s], 0},
         \A s \in gone' \ gone : history[s] # <<>> \/ \E u \in Ops : s \in marked[u],
         \A u \in Ops : u # t => sid'[u] = sid[u] /\ marked'[u] = marked[u],
         sid'[t] = Known \/ history[sid'[t]] # <<>> \/ (sid'[t] = sid[t] /\ pc[t] # "fetch"),
         \A s \in marked'[t] : s \in marked[t] \/ \E k \in Keys : due[k][s] # 0
  PROVE  Unmade'
<1> USE Names
<1> SUFFICES ASSUME NEW u \in Ops, pc'[u] \in Unborn
             PROVE  /\ u \notin gone' /\ history'[u] = <<>>
                    /\ \A k \in Keys : due'[k][u] = 0
                    /\ \A v \in Ops : u \notin marked'[v] /\ (sid'[v] = u => pc'[v] = "fetch")
  BY DEF Unmade
<1>1. pc[u] \in Unborn /\ u # t /\ u \in Sessions
  BY DEF AtPeace, Shape
<1>2. /\ u \notin gone /\ history[u] = <<>>
      /\ \A k \in Keys : due[k][u] = 0
      /\ \A v \in Ops : u \notin marked[v] /\ (sid[v] = u => pc[v] = "fetch")
  BY <1>1 DEF AtPeace, Unmade
<1>3. u \notin gone'
  BY <1>2
<1>4. history'[u] = <<>> /\ \A k \in Keys : due'[k][u] = 0
  BY <1>1, <1>2
<1>5. ASSUME NEW v \in Ops PROVE u \notin marked'[v] /\ (sid'[v] = u => pc'[v] = "fetch")
  <2>1. CASE v = t
    BY <2>1, <1>2
  <2>2. CASE v # t
    BY <2>2, <1>2 DEF AtPeace, Shape
  <2>3. QED
    BY <2>1, <2>2
<1>6. QED
  BY <1>3, <1>4, <1>5

LEMMA DieStep ==
  ASSUME AtPeace, NEW t \in Ops, Die(t)
  PROVE  AtPeace'
<1> USE Names
<1>0. /\ pc[t] \notin Over \cup {"idle"} /\ pc' = [pc EXCEPT ![t] = "dead"]
      /\ sid' = [sid EXCEPT ![t] = Known] /\ marked' = [marked EXCEPT ![t] = {}]
      /\ UNCHANGED <<history, due, clock, gone>>
  BY DEF Die, Return, Goto
<1>1. Shape'
  BY <1>0 DEF AtPeace, Shape, Stages
<1>2. Parked'
  BY <1>0 DEF AtPeace, Shape, Parked, Wiping, Over
<1>3. Unmade'
  BY <1>0, RemovalKeepsUnmade DEF AtPeace, Shape, Unborn
<1>4. Quiet'
  BY <1>0, QuietKept DEF AtPeace, Shape, Quiet, Calm, Over
<1>5. QED
  BY <1>1, <1>2, <1>3, <1>4 DEF AtPeace

LEMMA DeleteStep ==
  ASSUME AtPeace, NEW t \in Ops, NEW s \in Sessions, Delete(t, s)
  PROVE  AtPeace'
<1> USE Names
<1>0. /\ pc[t] = "idle" /\ history[s] # <<>> /\ pc' = [pc EXCEPT ![t] = "dropModel"]
      /\ sid' = [sid EXCEPT ![t] = s] /\ history' = [history EXCEPT ![s] = <<>>]
      /\ gone' = (IF Busy(s) = {} THEN gone \cup {s} ELSE gone)
      /\ UNCHANGED <<clock, marked>>
  BY DEF Delete, Goto
<1>1. due' \in [Keys -> [Sessions -> Nat]]
      /\ \A k \in Keys, r \in Sessions : due'[k][r] = IF k = "history" /\ r = s THEN 0 ELSE due[k][r]
  <2>1. due' = Drop("history", {s}) /\ {s} \in SUBSET Sessions /\ "history" \in Keys
    BY DEF Delete, Keys
  <2>2. \A k \in Keys, r \in Sessions : due'[k][r] = IF k = "history" /\ r \in {s} THEN 0 ELSE due[k][r]
    BY <2>1, Dropped DEF AtPeace
  <2>3. QED
    BY <2>1, <2>2, Dropped DEF AtPeace
<1>2. Shape'
  <2>1. history' = [r \in Sessions |-> history'[r]]
    BY <1>0 DEF AtPeace, Shape
  <2>2. QED
    BY <2>1, <1>0, <1>1 DEF AtPeace, Shape, Stages
<1>3. Parked'
  BY <1>0 DEF AtPeace, Shape, Parked, Wiping, Over
<1>4. Unmade'
  BY <1>0, <1>1, RemovalKeepsUnmade DEF AtPeace, Shape, Unborn
<1>5. Quiet'
  <2> SUFFICES ASSUME NEW r \in gone'
               PROVE  /\ history'[r] = <<>>
                      /\ \A u \in Ops : sid'[u] = r => pc'[u] \in Calm
                      /\ \A k \in {"model", "usage"} :
                           (Alive(k, r))' => \E u \in Ops : (WillDrop(u, k, r))'
    BY DEF Quiet
  <2>1. CASE r = s
    <3>1. history'[r] = <<>>
      BY <2>1, <1>0 DEF AtPeace, Shape
    <3>2. s \notin gone
      BY <1>0 DEF AtPeace, Quiet
    <3>3. Busy(s) = {}
      BY <2>1, <3>2, <1>0
    <3>4. ASSUME NEW u \in Ops, sid'[u] = r PROVE pc'[u] \in Calm
      BY <3>3, <3>4, <2>1, <1>0 DEF Busy, AtPeace, Shape, Calm
    <3>5. ASSUME NEW k \in {"model", "usage"} PROVE (WillDrop(t, k, r))'
      BY <2>1, <1>0 DEF WillDrop, AtPeace, Shape
    <3>6. QED
      BY <3>1, <3>4, <3>5
  <2>2. CASE r # s
    <3>0. r \in gone /\ r \in Sessions
      BY <2>2, <1>0 DEF AtPeace, Shape
    <3>1. history'[r] = <<>>
      BY <2>2, <3>0, <1>0 DEF AtPeace, Shape, Quiet
    <3>2. ASSUME NEW u \in Ops, sid'[u] = r PROVE pc'[u] \in Calm
      BY <3>0, <3>2, <2>2, <1>0 DEF AtPeace, Shape, Quiet, Calm
    <3>3. ASSUME NEW k \in {"model", "usage"}, (Alive(k, r))'
          PROVE  \E u \in Ops : (WillDrop(u, k, r))'
      <4>1. Alive(k, r)
        BY <3>3, <3>0, <1>0, <1>1 DEF Alive, Keys
      <4>2. PICK u \in Ops : WillDrop(u, k, r)
        BY <4>1, <3>0 DEF AtPeace, Quiet
      <4>3. u # t
        BY <4>2, <1>0 DEF WillDrop
      <4>4. QED
        BY <4>2, <4>3, <1>0 DEF WillDrop, AtPeace, Shape
    <3>4. QED
      BY <3>1, <3>2, <3>3
  <2>3. QED
    BY <2>1, <2>2
<1>6. QED
  BY <1>2, <1>3, <1>4, <1>5 DEF AtPeace
(* A request that removes key k of the sessions in S, or nothing, leaves    *)
(* the deleted ones quiet if it goes on to remove what it still has to.     *)
LEMMA RemovalKeepsQuiet ==
  ASSUME AtPeace, NEW t \in Ops, NEW c, pc' = [pc EXCEPT ![t] = c],
         gone' = gone, clock' = clock, c \in Calm,
         \A s \in gone : history'[s] = <<>>,
         \A k \in {"model", "usage"}, s \in gone : due'[k][s] \in {due[k][s], 0},
         \A u \in Ops : u # t => sid'[u] = sid[u] /\ marked'[u] = marked[u],
         \A k \in {"model", "usage"}, s \in gone :
           (Alive(k, s))' /\ Alive(k, s) /\ WillDrop(t, k, s) => (WillDrop(t, k, s))',
         sid'[t] \in {sid[t], Known}
  PROVE  Quiet'
<1> SUFFICES ASSUME NEW s \in gone
             PROVE  /\ \A u \in Ops : sid'[u] = s => pc'[u] \in Calm
                    /\ \A k \in {"model", "usage"} :
                         (Alive(k, s))' => \E u \in Ops : (WillDrop(u, k, s))'
  BY DEF Quiet
<1>1. ASSUME NEW u \in Ops, sid'[u] = s PROVE pc'[u] \in Calm
  BY <1>1 DEF AtPeace, Quiet, Shape
<1>2. ASSUME NEW k \in {"model", "usage"}, (Alive(k, s))'
      PROVE  \E u \in Ops : (WillDrop(u, k, s))'
  <2>0. due'[k][s] \in {due[k][s], 0} /\ due'[k][s] > clock /\ clock \in Nat
    BY <1>2 DEF Alive, AtPeace, Shape
  <2>1. Alive(k, s)
    BY <2>0 DEF Alive
  <2>2. PICK u \in Ops : WillDrop(u, k, s)
    BY <2>1 DEF AtPeace, Quiet
  <2>3. CASE u = t
    BY <1>2, <2>1, <2>2, <2>3
  <2>4. CASE u # t
    BY <2>2, <2>4 DEF WillDrop, AtPeace, Shape
  <2>5. QED
    BY <2>3, <2>4
<1>3. QED
  BY <1>1, <1>2

LEMMA DropEffect ==
  ASSUME Shape, NEW k \in Keys, NEW S \in SUBSET Sessions, due' = Drop(k, S)
  PROVE  /\ due' \in [Keys -> [Sessions -> Nat]]
         /\ \A r \in S : due'[k][r] = 0
         /\ \A r \in Sessions \ S : due'[k][r] = due[k][r]
         /\ \A l \in Keys \ {k}, r \in Sessions : due'[l][r] = due[l][r]
         /\ \A l \in Keys, r \in Sessions : due'[l][r] \in {due[l][r], 0}
  BY Dropped

LEMMA DropSteps ==
  ASSUME AtPeace, NEW t \in Ops, DropModel(t) \/ DropUsage(t)
  PROVE  AtPeace'
<1> USE Names
<1>0. Shape /\ sid[t] \in Sessions /\ {sid[t]} \in SUBSET Sessions /\ "model" \in Keys /\ "usage" \in Keys
      /\ clock \in Nat /\ gone \subseteq Sessions
  BY DEF AtPeace, Shape, Keys
<1>1. CASE DropModel(t)
  <2>0. /\ pc[t] = "dropModel" /\ pc' = [pc EXCEPT ![t] = "dropUsage"]
        /\ UNCHANGED <<history, clock, gone, sid, marked>>
        /\ due' = Drop("model", {sid[t]})
    BY <1>1 DEF DropModel, Goto, Locals
  <2>1. /\ due' \in [Keys -> [Sessions -> Nat]]
        /\ \A r \in {sid[t]} : due'["model"][r] = 0
        /\ \A l \in Keys, r \in Sessions : due'[l][r] \in {due[l][r], 0}
    BY <1>0, <2>0, DropEffect
  <2>2. Shape'
    BY <2>0, <2>1 DEF AtPeace, Shape, Stages
  <2>3. Parked'
    BY <2>0 DEF AtPeace, Shape, Parked, Wiping, Over
  <2>4. sid'[t] \in {sid[t], Known} /\ marked'[t] \subseteq marked[t]
        /\ (sid'[t] = Known \/ (sid'[t] = sid[t] /\ pc[t] # "fetch"))
        /\ \A u \in Ops : u # t => sid'[u] = sid[u] /\ marked'[u] = marked[u]
    BY <2>0 DEF AtPeace, Shape
  <2>5. Unmade'
    BY <2>0, <2>1, <2>4, RemovalKeepsUnmade DEF Unborn
  <2>6. ASSUME NEW s \in gone, NEW l \in {"model", "usage"}, (Alive(l, s))', WillDrop(t, l, s)
        PROVE  (WillDrop(t, l, s))'
    <3>0. due'["model"][sid[t]] = 0 /\ clock' = clock
      BY <2>0, <2>1
    <3>1. s # sid[t] \/ l # "model"
      BY <1>0, <3>0, <2>6 DEF Alive
    <3>2. CASE l = "model"
      BY <3>1, <3>2, <2>0, <2>6 DEF WillDrop, AtPeace, Shape
    <3>3. CASE l = "usage"
      BY <3>1, <3>3, <2>0, <2>6 DEF WillDrop, AtPeace, Shape
    <3>4. QED
      BY <3>2, <3>3
  <2>7. \A l \in {"model", "usage"}, s \in gone : due'[l][s] \in {due[l][s], 0}
    BY <1>0, <2>1
  <2>8. (\A s \in gone : history'[s] = <<>>) /\ "dropUsage" \in Calm /\ "done" \in Calm
    BY <2>0 DEF AtPeace, Quiet, Calm, Over
  <2>9. Quiet'
    BY <2>0, <2>4, <2>6, <2>7, <2>8, RemovalKeepsQuiet
  <2>10. QED
    BY <2>2, <2>3, <2>5, <2>9 DEF AtPeace
<1>2. CASE DropUsage(t)
  <2>0. /\ pc[t] = "dropUsage" /\ pc' = [pc EXCEPT ![t] = "done"]
        /\ sid' = [sid EXCEPT ![t] = Known] /\ marked' = [marked EXCEPT ![t] = {}]
        /\ UNCHANGED <<history, clock, gone>>
        /\ due' = Drop("usage", {sid[t]})
    BY <1>2 DEF DropUsage, Goto, Return
  <2>1. /\ due' \in [Keys -> [Sessions -> Nat]]
        /\ \A r \in {sid[t]} : due'["usage"][r] = 0
        /\ \A l \in Keys, r \in Sessions : due'[l][r] \in {due[l][r], 0}
    BY <1>0, <2>0, DropEffect
  <2>2. Shape'
    BY <2>0, <2>1 DEF AtPeace, Shape, Stages
  <2>3. Parked'
    BY <2>0 DEF AtPeace, Shape, Parked, Wiping, Over
  <2>4. sid'[t] \in {sid[t], Known} /\ marked'[t] \subseteq marked[t]
        /\ (sid'[t] = Known \/ (sid'[t] = sid[t] /\ pc[t] # "fetch"))
        /\ \A u \in Ops : u # t => sid'[u] = sid[u] /\ marked'[u] = marked[u]
    BY <2>0 DEF AtPeace, Shape
  <2>5. Unmade'
    BY <2>0, <2>1, <2>4, RemovalKeepsUnmade DEF Unborn
  <2>6. ASSUME NEW s \in gone, NEW l \in {"model", "usage"}, (Alive(l, s))', WillDrop(t, l, s)
        PROVE  (WillDrop(t, l, s))'
    <3>0. due'["usage"][sid[t]] = 0 /\ clock' = clock
      BY <2>0, <2>1
    <3>1. s # sid[t] \/ l # "usage"
      BY <1>0, <3>0, <2>6 DEF Alive
    <3>2. CASE l = "model"
      BY <3>1, <3>2, <2>0, <2>6 DEF WillDrop, AtPeace, Shape
    <3>3. CASE l = "usage"
      BY <3>1, <3>3, <2>0, <2>6 DEF WillDrop, AtPeace, Shape
    <3>4. QED
      BY <3>2, <3>3
  <2>7. \A l \in {"model", "usage"}, s \in gone : due'[l][s] \in {due[l][s], 0}
    BY <1>0, <2>1
  <2>8. (\A s \in gone : history'[s] = <<>>) /\ "dropUsage" \in Calm /\ "done" \in Calm
    BY <2>0 DEF AtPeace, Quiet, Calm, Over
  <2>9. Quiet'
    BY <2>0, <2>4, <2>6, <2>7, <2>8, RemovalKeepsQuiet
  <2>10. QED
    BY <2>2, <2>3, <2>5, <2>9 DEF AtPeace
<1>3. QED
  BY <1>1, <1>2
LEMMA ScanStep ==
  ASSUME AtPeace, NEW t \in Ops, Scan(t)
  PROVE  AtPeace'
<1> USE Names
<1>0. PICK k \in Keys, c \in Stages :
        /\ pc[t] = (CASE k = "history" -> "idle" [] k = "model" -> "findModels" [] k = "usage" -> "findUsage")
        /\ c = (CASE k = "history" -> "wipeHistory" [] k = "model" -> "wipeModels" [] k = "usage" -> "wipeUsage")
        /\ pc' = [pc EXCEPT ![t] = c]
        /\ marked' = [marked EXCEPT ![t] = {s \in Sessions : Alive(k, s)}]
  <2>1. CASE pc[t] = "idle"
    BY <2>1, "history" \in Keys, "wipeHistory" \in Stages DEF Scan, Goto, Keys, Stages
  <2>2. CASE pc[t] = "findModels"
    BY <2>2, "model" \in Keys, "wipeModels" \in Stages DEF Scan, Goto, Keys, Stages
  <2>3. CASE pc[t] = "findUsage"
    BY <2>3, "usage" \in Keys, "wipeUsage" \in Stages DEF Scan, Goto, Keys, Stages
  <2>4. QED
    BY <2>1, <2>2, <2>3 DEF Scan
<1>1. /\ UNCHANGED <<history, due, clock, sid, gone>>
      /\ pc[t] \in {"idle", "findModels", "findUsage"}
      /\ c \in {"wipeHistory", "wipeModels", "wipeUsage"}
      /\ sid[t] = Known
  <2>1. UNCHANGED <<history, due, clock, sid, gone>>
    BY DEF Scan
  <2>2. pc[t] \in {"idle", "findModels", "findUsage"} /\ c \in {"wipeHistory", "wipeModels", "wipeUsage"}
    BY <1>0 DEF Keys
  <2>3. sid[t] = Known
    BY <2>2 DEF AtPeace, Parked, Wiping
  <2>4. QED
    BY <2>1, <2>2, <2>3
<1>2. Shape'
  BY <1>0, <1>1 DEF AtPeace, Shape
<1>3. Parked'
  BY <1>0, <1>1 DEF AtPeace, Shape, Parked, Wiping, Over
<1>4. /\ \A u \in Ops : u # t => sid'[u] = sid[u] /\ marked'[u] = marked[u]
      /\ sid'[t] = sid[t] /\ pc[t] # "fetch" /\ c \notin Unborn /\ c \in Calm
  BY <1>0, <1>1 DEF AtPeace, Shape, Unborn, Calm, Wiping
<1>5. ASSUME NEW s \in marked'[t] PROVE \E l \in Keys : due[l][s] # 0
  BY <1>0, <1>5 DEF AtPeace, Shape, Alive
<1>6. Unmade'
  BY <1>0, <1>1, <1>4, <1>5, RemovalKeepsUnmade
<1>7. ASSUME NEW s \in gone, NEW l \in {"model", "usage"}, Alive(l, s), WillDrop(t, l, s)
      PROVE  (WillDrop(t, l, s))'
  <2>1. s \in Sessions /\ pc'[t] = c /\ marked'[t] = {r \in Sessions : Alive(k, r)}
    BY <1>0 DEF AtPeace, Shape
  <2>2. CASE l = "model"
    <3>1. k = "model" /\ c = "wipeModels"
      BY <1>0, <1>1, <1>7, <2>2 DEF WillDrop, Keys
    <3>2. QED
      BY <3>1, <2>1, <2>2, <1>7 DEF WillDrop
  <2>3. CASE l = "usage"
    <3>1. CASE k = "model"
      BY <3>1, <1>0, <2>1, <2>3 DEF WillDrop
    <3>2. CASE k = "usage"
      BY <3>2, <1>0, <2>1, <2>3, <1>7 DEF WillDrop
    <3>3. CASE k = "history"
      BY <3>3, <1>0, <1>1, <1>7, <2>3 DEF WillDrop
    <3>4. QED
      BY <3>1, <3>2, <3>3 DEF Keys
  <2>4. QED
    BY <2>2, <2>3
<1>8. (\A s \in gone : history'[s] = <<>>)
      /\ \A l \in {"model", "usage"}, s \in gone : due'[l][s] \in {due[l][s], 0}
  BY <1>1 DEF AtPeace, Quiet
<1>9. Quiet'
  BY <1>0, <1>1, <1>4, <1>7, <1>8, RemovalKeepsQuiet
<1>10. QED
  BY <1>2, <1>3, <1>6, <1>9 DEF AtPeace

LEMMA WipeHistoryStep ==
  ASSUME AtPeace, NEW t \in Ops, WipeHistory(t)
  PROVE  AtPeace'
<1> USE Names
<1>0. /\ pc[t] = "wipeHistory" /\ pc' = [pc EXCEPT ![t] = "findModels"]
      /\ history' = [s \in Sessions |-> IF s \in marked[t] THEN <<>> ELSE history[s]]
      /\ due' = Drop("history", marked[t])
      /\ gone' = gone \cup {s \in marked[t] : Busy(s) \ {t} = {}}
      /\ UNCHANGED <<clock, sid, marked>>
  BY DEF WipeHistory, Goto, Locals
<1>1. Shape /\ marked[t] \in SUBSET Sessions /\ "history" \in Keys /\ sid[t] = Known
  BY <1>0 DEF AtPeace, Shape, Keys, Parked, Wiping
<1>2. /\ due' \in [Keys -> [Sessions -> Nat]]
      /\ \A l \in Keys \ {"history"}, r \in Sessions : due'[l][r] = due[l][r]
      /\ \A l \in Keys, r \in Sessions : due'[l][r] \in {due[l][r], 0}
  BY <1>0, <1>1, DropEffect
<1>3. Shape'
  BY <1>0, <1>1, <1>2 DEF Shape, Stages
<1>4. Parked'
  BY <1>0 DEF AtPeace, Shape, Parked, Wiping, Over
<1>5. Unmade'
  <2>1. \A s \in Sessions : history'[s] \in {history[s], <<>>}
    BY <1>0
  <2>2. \A s \in gone' \ gone : \E u \in Ops : s \in marked[u]
    BY <1>0
  <2>3. sid'[t] = Known /\ marked'[t] = marked[t] /\ "findModels" \notin Unborn
        /\ \A u \in Ops : u # t => sid'[u] = sid[u] /\ marked'[u] = marked[u]
    BY <1>0, <1>1 DEF Unborn
  <2>4. QED
    BY <1>0, <1>2, <2>1, <2>2, <2>3, RemovalKeepsUnmade
<1>6. Quiet'
  <2> SUFFICES ASSUME NEW r \in gone'
               PROVE  /\ history'[r] = <<>>
                      /\ \A u \in Ops : sid'[u] = r => pc'[u] \in Calm
                      /\ \A k \in {"model", "usage"} :
                           (Alive(k, r))' => \E u \in Ops : (WillDrop(u, k, r))'
    BY DEF Quiet
  <2>0. r \in Sessions /\ (r \in gone \/ (r \in marked[t] /\ Busy(r) \ {t} = {}))
    BY <1>0, <1>1 DEF Shape
  <2>1. history'[r] = <<>>
    BY <2>0, <1>0 DEF AtPeace, Quiet
  <2>2. ASSUME NEW u \in Ops, sid'[u] = r PROVE pc'[u] \in Calm
    <3>1. CASE u = t
      BY <3>1, <1>0 DEF AtPeace, Shape, Calm, Wiping
    <3>2. CASE u # t /\ r \in gone
      BY <3>2, <2>2, <1>0 DEF AtPeace, Shape, Quiet
    <3>3. CASE u # t /\ Busy(r) \ {t} = {}
      BY <3>3, <2>2, <1>0 DEF AtPeace, Shape, Busy, Calm
    <3>4. QED
      BY <3>1, <3>2, <3>3, <2>0
  <2>3. ASSUME NEW k \in {"model", "usage"} PROVE (WillDrop(t, k, r))'
    BY <1>0 DEF WillDrop, AtPeace, Shape
  <2>4. QED
    BY <2>1, <2>2, <2>3
<1>7. QED
  BY <1>3, <1>4, <1>5, <1>6 DEF AtPeace

LEMMA WipeStep ==
  ASSUME AtPeace, NEW t \in Ops, Wipe(t)
  PROVE  AtPeace'
<1> USE Names
<1>0. PICK k \in {"model", "usage"}, c \in {"findUsage", "done"} :
        /\ pc[t] = (IF k = "model" THEN "wipeModels" ELSE "wipeUsage")
        /\ c = (IF k = "model" THEN "findUsage" ELSE "done")
        /\ pc' = [pc EXCEPT ![t] = c]
        /\ due' = Drop(k, marked[t])
        /\ sid' = sid \/ sid' = [sid EXCEPT ![t] = Known]
        /\ marked' = marked \/ (k = "usage" /\ marked' = [marked EXCEPT ![t] = {}])
  <2>1. CASE pc[t] = "wipeModels"
    BY <2>1, "model" \in {"model", "usage"}, "findUsage" \in {"findUsage", "done"} DEF Wipe, Goto, Locals
  <2>2. CASE pc[t] = "wipeUsage"
    BY <2>2, "usage" \in {"model", "usage"}, "done" \in {"findUsage", "done"} DEF Wipe, Goto, Return
  <2>3. QED
    BY <2>1, <2>2 DEF Wipe
<1>1. /\ UNCHANGED <<history, clock, gone>> /\ Shape /\ marked[t] \in SUBSET Sessions /\ k \in Keys
      /\ clock \in Nat /\ gone \subseteq Sessions /\ sid[t] = Known
  BY <1>0 DEF Wipe, AtPeace, Shape, Keys, Parked, Wiping
<1>2. /\ due' \in [Keys -> [Sessions -> Nat]]
      /\ \A r \in marked[t] : due'[k][r] = 0
      /\ \A l \in Keys, r \in Sessions : due'[l][r] \in {due[l][r], 0}
  BY <1>0, <1>1, DropEffect
<1>3. Shape'
  BY <1>0, <1>1, <1>2 DEF AtPeace, Shape, Stages
<1>4. Parked'
  BY <1>0 DEF AtPeace, Shape, Parked, Wiping, Over
<1>5. /\ sid'[t] = Known /\ marked'[t] \subseteq marked[t] /\ c \notin Unborn /\ c \in Calm
      /\ sid'[t] \in {sid[t], Known}
      /\ \A u \in Ops : u # t => sid'[u] = sid[u] /\ marked'[u] = marked[u]
  BY <1>0, <1>1 DEF Shape, Unborn, Calm, Wiping, Over
<1>6. Unmade'
  BY <1>0, <1>1, <1>2, <1>5, RemovalKeepsUnmade
<1>7. ASSUME NEW s \in gone, NEW l \in {"model", "usage"}, (Alive(l, s))', WillDrop(t, l, s)
      PROVE  (WillDrop(t, l, s))'
  <2>1. s \notin marked[t] \/ l # k
    BY <1>1, <1>2, <1>7 DEF Alive
  <2>2. pc'[t] = c
    BY <1>0 DEF Shape, AtPeace
  <2>3. CASE l = "model"
    BY <2>1, <2>3, <1>0, <1>7 DEF WillDrop
  <2>4. CASE l = "usage"
    BY <2>1, <2>2, <2>4, <1>0, <1>7, <1>1 DEF WillDrop
  <2>5. QED
    BY <2>3, <2>4
<1>8. (\A s \in gone : history'[s] = <<>>)
      /\ \A l \in {"model", "usage"}, s \in gone : due'[l][s] \in {due[l][s], 0}
  BY <1>1, <1>2 DEF AtPeace, Quiet, Keys
<1>9. Quiet'
  <2>1. pc' = [pc EXCEPT ![t] = c] /\ gone' = gone /\ clock' = clock
    BY <1>0, <1>1
  <2>2. QED
    BY <2>1, <1>5, <1>7, <1>8, RemovalKeepsQuiet
<1>10. QED
  BY <1>3, <1>4, <1>6, <1>9 DEF AtPeace

LEMMA TickStep == AtPeace /\ Tick => AtPeace'
<1> SUFFICES ASSUME AtPeace, Tick PROVE AtPeace'
  OBVIOUS
<1> USE Names
<1>0. /\ clock' = clock + 1 /\ clock \in Nat /\ UNCHANGED <<pc, gone, sid, marked>>
      /\ history' = [s \in Sessions |-> IF due["history"][s] <= clock + 1 THEN <<>> ELSE history[s]]
      /\ due' = [k \in Keys |-> [s \in Sessions |-> IF due[k][s] <= clock + 1 THEN 0 ELSE due[k][s]]]
  BY DEF Tick, Locals, AtPeace, Shape
<1>1. due' \in [Keys -> [Sessions -> Nat]]
  BY <1>0 DEF AtPeace, Shape
<1>2. \A k \in Keys, s \in Sessions : due'[k][s] \in {due[k][s], 0}
  BY <1>0
<1>3. \A s \in Sessions : history'[s] \in {history[s], <<>>}
  BY <1>0
<1>4. Shape'
  BY <1>0, <1>1 DEF AtPeace, Shape
<1>5. Parked'
  BY <1>0 DEF AtPeace, Parked
<1>6. Unmade'
  BY <1>0, <1>2, <1>3 DEF AtPeace, Unmade
<1>7. Quiet'
  <2> SUFFICES ASSUME NEW s \in gone
               PROVE  /\ history'[s] = <<>>
                      /\ \A k \in {"model", "usage"} : (Alive(k, s))' => Alive(k, s)
    BY <1>0 DEF AtPeace, Quiet, WillDrop
  <2>1. s \in Sessions /\ history'[s] = <<>>
    BY <1>3 DEF AtPeace, Shape, Quiet
  <2>2. ASSUME NEW k \in {"model", "usage"}, (Alive(k, s))' PROVE Alive(k, s)
    <3>1. due'[k][s] > clock + 1 /\ due'[k][s] \in {due[k][s], 0} /\ due[k][s] \in Nat
      BY <1>0, <1>2, <2>1, <2>2 DEF Alive, Keys, AtPeace, Shape
    <3>2. QED
      BY <1>0, <3>1 DEF Alive
  <2>3. QED
    BY <2>1, <2>2
<1>8. QED
  BY <1>4, <1>5, <1>6, <1>7 DEF AtPeace

LEMMA AtPeaceStep == AtPeace /\ [Next]_sessionVars => AtPeace'
<1> SUFFICES ASSUME AtPeace, [Next]_sessionVars PROVE AtPeace'
  OBVIOUS
<1>1. CASE Tick
  BY <1>1, TickStep
<1>2. ASSUME NEW t \in Ops, Step(t) PROVE AtPeace'
  <2>1. ASSUME NEW s \in Sessions, BeginTurn(t, s) \/ UndoRead(t, s) \/ CompactRead(t, s)
        PROVE  AtPeace'
    BY <2>1, BeginSteps
  <2>2. ASSUME NEW s \in Sessions, Delete(t, s) PROVE AtPeace'
    BY <2>2, DeleteStep
  <2>3. CASE \/ Reformulate(t) \/ Refresh(t) \/ Bind(t) \/ Compose(t) \/ Save(t) \/ Record(t)
             \/ Finish(t) \/ UndoWrite(t) \/ CompactFold(t) \/ CompactWrite(t)
    BY <2>3, WorkSteps
  <2>4. CASE Fetch(t)
    BY <2>4, FetchStep
  <2>5. CASE DropModel(t) \/ DropUsage(t)
    BY <2>5, DropSteps
  <2>6. CASE Scan(t)
    BY <2>6, ScanStep
  <2>7. CASE WipeHistory(t)
    BY <2>7, WipeHistoryStep
  <2>8. CASE Wipe(t)
    BY <2>8, WipeStep
  <2>9. CASE Die(t)
    BY <2>9, DieStep
  <2>10. CASE \E s \in Sessions : BeginTurn(t, s) \/ UndoRead(t, s) \/ CompactRead(t, s) \/ Delete(t, s)
    BY <2>1, <2>2, <2>10, Zenon
  <2>11. QED
    BY <1>2, <2>3, <2>4, <2>5, <2>6, <2>7, <2>8, <2>9, <2>10, Zenon DEF Step
<1>3. CASE UNCHANGED sessionVars
  <2>1. UNCHANGED <<history, due, clock, pc, sid, marked, gone>>
    BY <1>3 DEF sessionVars
  <2>2. Shape' /\ Parked'
    BY <2>1 DEF AtPeace, Shape, Parked
  <2>3. Unmade'
    BY <2>1 DEF AtPeace, Unmade
  <2>4. Quiet'
    BY <2>1 DEF AtPeace, Quiet, WillDrop, Alive
  <2>5. QED
    BY <2>2, <2>3, <2>4 DEF AtPeace
<1>4. QED
  BY <1>1, <1>2, <1>3 DEF Next

LEMMA PeaceMeansGone == AtPeace => DeletedStaysDeleted
<1> SUFFICES ASSUME AtPeace, NEW s \in gone
             PROVE  /\ history[s] = <<>>
                    /\ (\A t \in Ops : pc[t] \in {"idle", "done"}) =>
                         ~Alive("model", s) /\ ~Alive("usage", s)
  BY DEF DeletedStaysDeleted
<1>1. ASSUME NEW k \in {"model", "usage"}, \A t \in Ops : pc[t] \in {"idle", "done"}
      PROVE  ~Alive(k, s)
  BY <1>1 DEF AtPeace, Quiet, WillDrop
<1>2. QED
  BY <1>1 DEF AtPeace, Quiet

(* A session deleted or wiped while no other request was on it never comes  *)
(* back, for any number of turns, undos, compactions, deletes and wipes     *)
(* that interleave, die and outlive expiries; and none of its keys is left  *)
(* once every delete is over (delete_session, delete_all_app_sessions).     *)
THEOREM PeacefulDeletesStay == Spec => []DeletedStaysDeleted
<1>1. Init => AtPeace
  BY AtPeaceInit
<1>2. AtPeace /\ [Next]_sessionVars => AtPeace'
  BY AtPeaceStep
<1>3. AtPeace => DeletedStaysDeleted
  BY PeaceMeansGone
<1>4. QED
  BY <1>1, <1>2, <1>3, PTL DEF Spec
=============================================================================
