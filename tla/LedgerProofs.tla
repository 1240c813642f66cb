---------------------------- MODULE LedgerProofs ----------------------------
(***************************************************************************)
(* What the books of the gate say, for any number of requests, processes,  *)
(* keys and events: how many keys there are once issues, rotations and     *)
(* revocations are over, and which events a page of the audit log shows    *)
(* while others push and trim.                                             *)
(***************************************************************************)
EXTENDS GateProofs, FiniteSetTheorems, SequenceTheorems

NobodyDied == \A t \in Ops : pc[t] # "dead"
Owed == IF \E t \in Ops : pc[t] = "removeOld" THEN 1 ELSE 0
Balanced == Cardinality(Live) + Cardinality(revoked) = 1 + Cardinality(issued) + Owed

(* Only keys that were made are issued or revoked, and a revoked one is     *)
(* gone for good.                                                           *)
Sound == issued \subseteq Made /\ revoked \subseteq Made /\ revoked \cap Live = {}

(* Until key operations overlap or fail, at most one is under way, the key  *)
(* it rotates is valid, and the books balance but for the key it has yet to *)
(* remove.                                                                  *)
Alone == ~untidy => \A t, u \in Changing : t = u
Booked ==
  ~untidy /\ NobodyDied =>
    /\ Balanced
    /\ \A t \in Ops : pc[t] \in {"storeRotated", "removeOld"} => target[t] \in Live /\ target[t] # t

Counting == Sound /\ Alone /\ Booked
-----------------------------------------------------------------------------
LEMMA KeysFinite ==
  /\ IsFiniteSet(Keys)
  /\ \A S \in SUBSET Keys : IsFiniteSet(S) /\ Cardinality(S) \in Nat
<1>1. IsFiniteSet(Keys)
  BY AuditAssumption, FS_AddElement DEF Keys
<1>2. QED
  BY <1>1, FS_Subset, FS_CardinalityType

LEMMA OneMore ==
  ASSUME NEW S \in SUBSET Keys, NEW k \in Keys
  PROVE  /\ k \notin S => Cardinality(S \cup {k}) = Cardinality(S) + 1
         /\ k \in S => Cardinality(S) = Cardinality(S \ {k}) + 1
<1>1. k \notin S => Cardinality(S \cup {k}) = Cardinality(S) + 1
  BY KeysFinite, FS_AddElement
<1>2. ASSUME k \in S PROVE Cardinality(S) = Cardinality(S \ {k}) + 1
  <2>1. S \ {k} \in SUBSET Keys /\ k \notin S \ {k} /\ (S \ {k}) \cup {k} = S
    BY <1>2
  <2>2. IsFiniteSet(S \ {k})
    BY <2>1, KeysFinite
  <2>3. Cardinality((S \ {k}) \cup {k}) = Cardinality(S \ {k}) + 1
    BY <2>1, <2>2, FS_AddElement
  <2>4. QED
    BY <2>1, <2>3
<1>3. QED
  BY <1>1, <1>2

LEMMA CountingInit == Init => Counting
<1> SUFFICES ASSUME Init PROVE Counting
  OBVIOUS
<1>1. PICK b \in Boot : keys = [x \in Keys |-> IF x = First THEN b.entry ELSE NoEntry]
  BY DEF Init
<1>2. b.entry # NoEntry
  BY GateAssumption, KeysAssumption
<1>3. pc = [t \in Ops |-> "idle"] /\ issued = {} /\ revoked = {}
  BY DEF Init
<1>4. Live = {First} /\ Changing = {}
  BY <1>1, <1>2, <1>3, OpsAreKeys DEF Live, Changing, KeyStages
<1>5. Cardinality(Live) = 1 /\ Cardinality({}) = 0 /\ Owed = 0
  BY <1>3, <1>4, FS_Singleton, FS_EmptySet DEF Owed
<1>6. QED
  BY <1>3, <1>4, <1>5 DEF Counting, Sound, Alone, Booked, Balanced

(* Steps of requests that are not about keys, and the end of those that are. *)
LEMMA CountingElsewhere ==
  ASSUME KeysKept, Counting, UNCHANGED keyVars,
         \A t \in Ops :
           \/ pc'[t] = pc[t] /\ pc'[t] \in Stages
           \/ pc'[t] = "dead"
           \/ pc'[t] \notin KeyStages /\ pc[t] \notin {"removeOld", "dead"}
  PROVE  Counting'
<1>1. Live' = Live /\ Made' = Made /\ UNCHANGED <<issued, revoked, untidy, target>>
  BY DEF keyVars, Live, Made
<1>2. Changing' \subseteq Changing
  BY DEF Changing, KeyStages
<1>3. Sound' /\ Alone'
  BY <1>1, <1>2 DEF Counting, Sound, Alone
<1>4. ASSUME NobodyDied'
      PROVE  NobodyDied /\ Owed' = Owed
             /\ \A t \in Ops : pc'[t] \in {"storeRotated", "removeOld"} => pc[t] = pc'[t]
  BY <1>4 DEF NobodyDied, Owed, KeyStages
<1>5. Booked'
  BY <1>1, <1>4 DEF Counting, Booked, Balanced
<1>6. QED
  BY <1>3, <1>5 DEF Counting

(* A request for keys begins, or ends, by itself.                           *)
LEMMA CountingStep == KeysKept /\ Counting /\ [Next]_gateVars => Counting'
<1> SUFFICES ASSUME KeysKept, Counting, [Next]_gateVars PROVE Counting'
  OBVIOUS
<1> USE DEF Same
<1>0. /\ pc \in [Ops -> Stages] /\ target \in [Ops -> Keys] /\ Ops \subseteq Keys
      /\ keys \in [Keys -> KeyEntries \cup {NoEntry}] /\ root \in [Keys -> KeyEntries \cup {NoEntry}]
      /\ Live \in SUBSET Keys /\ issued \in SUBSET Keys /\ revoked \in SUBSET Keys
  BY OpsAreKeys DEF KeysKept, KeysTyped, Live, Counting, Sound, Made
<1>n. /\ Cardinality(Live) \in Nat /\ Cardinality(issued) \in Nat /\ Cardinality(revoked) \in Nat
  BY <1>0, KeysFinite
<1>1. ASSUME NEW t \in Ops, pc[t] = "idle", NEW c \in {"storeIssued", "storeRotated"}, Enter(t), Goto(t, c),
             UNCHANGED <<keys, root, issued, revoked>>,
             c = "storeIssued" => target' = target,
             c = "storeRotated" => \E k \in Live : target' = [target EXCEPT ![t] = k]
      PROVE  Counting'
  <2>1. Live' = Live /\ Made' = Made /\ pc'[t] = c /\ (\A u \in Ops \ {t} : pc'[u] = pc[u] /\ target'[u] = target[u])
    BY <1>0, <1>1 DEF Live, Made, Goto
  <2>2. Sound'
    BY <1>1, <2>1 DEF Counting, Sound
  <2>3. Changing' = Changing \cup {t} /\ (~untidy' => Changing = {})
    BY <1>1, <2>1 DEF Changing, KeyStages, Enter
  <2>4. Alone'
    BY <2>3 DEF Alone
  <2>5. Booked'
    <3> SUFFICES ASSUME ~untidy', NobodyDied'
                 PROVE  /\ Balanced'
                        /\ \A u \in Ops : pc'[u] \in {"storeRotated", "removeOld"} =>
                             target'[u] \in Live' /\ target'[u] # u
      BY DEF Booked
    <3>1. ~untidy /\ NobodyDied
      BY <1>1, <2>1 DEF Enter, NobodyDied
    <3>2. Owed' = Owed
      BY <1>1, <2>1 DEF Owed
    <3>3. t \notin Live
      BY <1>1 DEF KeysKept, KeysRooted, KeysTyped, Live, Made
    <3>4. ASSUME NEW u \in Ops, pc'[u] \in {"storeRotated", "removeOld"} PROVE target'[u] \in Live /\ target'[u] # u
      BY <3>1, <3>3, <3>4, <2>1, <1>0, <1>1 DEF Counting, Booked
    <3>5. QED
      BY <3>1, <3>2, <3>4, <2>1, <1>1 DEF Counting, Booked, Balanced
  <2>6. QED
    BY <2>2, <2>4, <2>5 DEF Counting
<1>2. ASSUME NEW t \in Ops, StoreIssued(t) \/ StoreRotated(t) PROVE Counting'
  <2>0. PICK scope \in KeyEntries, c \in {"logKey", "removeOld"} :
          /\ keys' = [keys EXCEPT ![t] = scope] /\ Goto(t, c)
          /\ \/ c = "logKey" /\ pc[t] = "storeIssued" /\ issued' = issued \cup {t}
                /\ root' = [root EXCEPT ![t] = scope]
             \/ c = "removeOld" /\ pc[t] = "storeRotated" /\ issued' = issued
                /\ root' = [root EXCEPT ![t] = scope]
          /\ UNCHANGED <<target, revoked, untidy>> /\ t \notin Made
    BY <1>2 DEF StoreIssued, StoreRotated, KeysKept, KeysTyped, KeysRooted
  <2>1. Live' = Live \cup {t} /\ Made' = Made \cup {t} /\ t \notin Live /\ t \notin issued /\ t \notin revoked
        /\ t \in Keys
    BY <2>0, <1>0, KeysAssumption DEF Live, Made, KeysKept, KeysRooted, Counting, Sound
  <2>2. pc'[t] = c /\ \A u \in Ops \ {t} : pc'[u] = pc[u]
    BY <2>0, <1>0 DEF Goto
  <2>3. Sound'
    BY <2>0, <2>1 DEF Counting, Sound
  <2>4. t \in Changing /\ Changing' \subseteq Changing
    BY <2>0, <2>2 DEF Changing, KeyStages
  <2>5. Alone'
    BY <2>0, <2>4 DEF Counting, Alone
  <2>6. Booked'
    <3> SUFFICES ASSUME ~untidy', NobodyDied'
                 PROVE  /\ Balanced'
                        /\ \A u \in Ops : pc'[u] \in {"storeRotated", "removeOld"} =>
                             target'[u] \in Live' /\ target'[u] # u
      BY DEF Booked
    <3>1. ~untidy /\ NobodyDied
      BY <2>0, <2>2 DEF NobodyDied
    <3>2. \A u \in Ops \ {t} : pc[u] # "removeOld"
      BY <3>1, <2>4 DEF Counting, Alone, Changing, KeyStages
    <3>3. Owed = 0 /\ Owed' = IF c = "removeOld" THEN 1 ELSE 0
      BY <3>2, <2>0, <2>2 DEF Owed
    <3>4. Cardinality(Live') = Cardinality(Live) + 1 /\ Cardinality(issued \cup {t}) = Cardinality(issued) + 1
      BY <2>1, <1>0, OneMore
    <3>5. Balanced'
      <4>1. Balanced
        BY <3>1 DEF Counting, Booked
      <4>2. revoked' = revoked
        BY <2>0
      <4>3. CASE c = "logKey"
        BY <4>1, <4>2, <4>3, <3>3, <3>4, <2>0, <1>n DEF Balanced
      <4>4. CASE c = "removeOld"
        BY <4>1, <4>2, <4>4, <3>3, <3>4, <2>0, <1>n DEF Balanced
      <4>5. QED
        BY <4>3, <4>4
    <3>6. ASSUME NEW u \in Ops, pc'[u] \in {"storeRotated", "removeOld"} PROVE target'[u] \in Live' /\ target'[u] # u
      BY <3>1, <3>6, <2>0, <2>1, <2>2 DEF Counting, Booked
    <3>7. QED
      BY <3>5, <3>6
  <2>7. QED
    BY <2>3, <2>5, <2>6 DEF Counting
<1>3. ASSUME NEW t \in Ops, RemoveOld(t) PROVE Counting'
  <2>0. /\ pc[t] = "removeOld" /\ (untidy' \/ (untidy' = untidy /\ Goto(t, "logKey")
                                            /\ keys' = [keys EXCEPT ![target[t]] = NoEntry]))
        /\ \E c \in {"logKey", "warned"} : Goto(t, c)
        /\ keys' \in {keys, [keys EXCEPT ![target[t]] = NoEntry]}
        /\ UNCHANGED <<target, root, issued, revoked>>
    BY <1>3 DEF RemoveOld
  <2>1. Live' \subseteq Live /\ Made' = Made /\ target[t] \in Keys
    BY <2>0, <1>0 DEF Live, Made
  <2>2. pc'[t] \in {"logKey", "warned"} /\ \A u \in Ops \ {t} : pc'[u] = pc[u]
    BY <2>0, <1>0 DEF Goto
  <2>3. Sound'
    BY <2>0, <2>1 DEF Counting, Sound
  <2>4. t \in Changing /\ Changing' = Changing \ {t}
    BY <2>0, <2>2 DEF Changing, KeyStages
  <2>5. Alone'
    BY <2>0, <2>4 DEF Counting, Alone
  <2>6. Booked'
    <3> SUFFICES ASSUME ~untidy', NobodyDied'
                 PROVE  /\ Balanced'
                        /\ \A u \in Ops : pc'[u] \notin {"storeRotated", "removeOld"}
      BY DEF Booked
    <3>1. ~untidy /\ NobodyDied /\ keys' = [keys EXCEPT ![target[t]] = NoEntry]
      BY <2>0, <2>2 DEF NobodyDied
    <3>2. \A u \in Ops \ {t} : pc[u] \notin KeyStages
      BY <3>1, <2>4 DEF Counting, Alone, Changing
    <3>3. \A u \in Ops : pc'[u] \notin {"storeRotated", "removeOld"}
      BY <3>2, <2>2 DEF KeyStages
    <3>4. Owed = 1 /\ Owed' = 0
      BY <3>3, <2>0 DEF Owed
    <3>5. target[t] \in Live /\ Balanced
      BY <3>1, <2>0 DEF Counting, Booked
    <3>6. Live' = Live \ {target[t]}
      BY <3>1, <1>0 DEF Live
    <3>7. Cardinality(Live) = Cardinality(Live') + 1 /\ Cardinality(Live') \in Nat
      BY <3>5, <3>6, <1>0, OneMore, KeysFinite
    <3>8. QED
      BY <3>3, <3>4, <3>5, <3>7, <2>0, <1>n DEF Balanced
  <2>7. QED
    BY <2>3, <2>5, <2>6 DEF Counting
<1>4. ASSUME NEW t \in Ops, NEW p \in Procs, NEW k \in Keys, Revoke(t, p, k) PROVE Counting'
  <2>0. /\ pc[t] = "idle" /\ k \in Live /\ keys' = [keys EXCEPT ![k] = NoEntry]
        /\ revoked' = revoked \cup {k} /\ Enter(t) /\ Goto(t, "logKey")
        /\ UNCHANGED <<target, root, issued>>
    BY <1>4 DEF Revoke
  <2>1. Live' = Live \ {k} /\ Made' = Made /\ k \in Made /\ k \notin revoked
    BY <2>0, <1>0, KeysAssumption DEF Live, Made, KeysKept, KeysRooted, Counting, Sound
  <2>2. pc'[t] = "logKey" /\ \A u \in Ops \ {t} : pc'[u] = pc[u]
    BY <2>0, <1>0 DEF Goto
  <2>3. Sound'
    BY <2>0, <2>1 DEF Counting, Sound
  <2>4. Changing' = Changing /\ (~untidy' => Changing = {} /\ ~untidy)
    BY <2>0, <2>2 DEF Changing, KeyStages, Enter
  <2>5. Alone'
    BY <2>4 DEF Alone
  <2>6. Booked'
    <3> SUFFICES ASSUME ~untidy', NobodyDied'
                 PROVE  /\ Balanced'
                        /\ \A u \in Ops : pc'[u] \notin {"storeRotated", "removeOld"}
      BY DEF Booked
    <3>1. ~untidy /\ NobodyDied
      BY <2>0, <2>2, <2>4 DEF NobodyDied
    <3>2. \A u \in Ops : pc[u] \notin KeyStages /\ pc'[u] \notin KeyStages
      BY <2>4 DEF Changing
    <3>3. Owed = 0 /\ Owed' = 0
      BY <3>2 DEF Owed, KeyStages
    <3>4. Cardinality(Live) = Cardinality(Live') + 1 /\ Cardinality(Live') \in Nat
          /\ Cardinality(revoked') = Cardinality(revoked) + 1
      BY <2>0, <2>1, <1>0, OneMore, KeysFinite
    <3>5. Balanced
      BY <3>1 DEF Counting, Booked
    <3>6. QED
      BY <3>2, <3>3, <3>4, <3>5, <2>0, <1>n DEF Balanced, KeyStages
  <2>7. QED
    BY <2>3, <2>5, <2>6 DEF Counting
<1>5. ASSUME NEW t \in Ops, NEW s \in Stages \ KeyStages, pc[t] \notin {"removeOld", "dead"}, Goto(t, s),
             UNCHANGED keyVars
      PROVE  Counting'
  <2>1. \A u \in Ops : pc'[u] = IF u = t THEN s ELSE pc[u]
    BY <1>5, <1>0 DEF Goto
  <2>2. QED
    BY <2>1, <1>5, <1>0, CountingElsewhere
<1>6. ASSUME NEW t \in Ops, KeyStep(t) PROVE Counting'
  <2>1. ASSUME NEW p \in Procs, NEW s \in Scopes, Issue(t, p, s) PROVE Counting'
    BY <2>1, <1>1 DEF Issue
  <2>2. ASSUME NEW p \in Procs, NEW k \in Keys, RotateRead(t, p, k) PROVE Counting'
    BY <2>2, <1>1 DEF RotateRead
  <2>3. CASE LogKey(t) \/ KeyFails(t)
    <3>1. pc[t] \in {"storeIssued", "storeRotated", "logKey"} /\ \E s \in {"done", "failed"} : Goto(t, s)
      BY <2>3 DEF LogKey, KeyFails
    <3>2. CASE UNCHANGED keyVars
      BY <3>1, <3>2, <1>5 DEF Stages, Over, KeyStages
    <3>3. CASE ~UNCHANGED keyVars
      <4>1. /\ pc[t] \in {"storeIssued", "storeRotated"} /\ untidy'
            /\ keys' = [keys EXCEPT ![t] = carried[t]]
            /\ root' = [root EXCEPT ![t] = IF pc[t] = "storeIssued" THEN carried[t] ELSE root[target[t]]]
            /\ UNCHANGED <<issued, revoked>>
        BY <2>3, <3>3 DEF LogKey, KeyFails, keyVars
      <4>2. t \notin Made /\ carried[t] \in KeyEntries
            /\ (pc[t] = "storeRotated" => carried[t] = root[target[t]])
        BY <4>1 DEF KeysKept, KeysTyped, KeysRooted
      <4>3. root' = [root EXCEPT ![t] = carried[t]] /\ carried[t] # NoEntry
        BY <4>1, <4>2, KeysAssumption
      <4>4. Live' = Live \cup {t} /\ Made' = Made \cup {t} /\ t \notin revoked
        BY <4>1, <4>2, <4>3, <1>0, OpsAreKeys DEF Live, Made, Counting, Sound
      <4>5. Sound'
        BY <4>1, <4>4 DEF Counting, Sound
      <4>6. QED
        BY <4>1, <4>5 DEF Counting, Alone, Booked
    <3>4. QED
      BY <3>2, <3>3
  <2>4. QED
    BY <1>2, <1>3, <1>4, <1>6, <2>1, <2>2, <2>3 DEF KeyStep
<1>7. ASSUME NEW t \in Ops, NEW p \in Procs, NEW c \in Calls, Authenticate(t, p, c) PROVE Counting'
  <2>1. UNCHANGED keyVars /\ pc[t] = "idle" /\ \E s \in {"window", "punish"} : Goto(t, s)
    BY <1>7 DEF Authenticate
  <2> QED
    BY <2>1, <1>5 DEF Stages, KeyStages
<1>8. ASSUME NEW t \in Ops, CountFailure(t) \/ LogFailure(t) \/ ComputeWindow(t)
                              \/ CountRequest(t) \/ Resolve(t) \/ Serve(t)
      PROVE  Counting'
  <2>1. UNCHANGED keyVars /\ pc[t] \in {"punish", "tell", "window", "count", "resolve", "serve"}
        /\ \E s \in {"failed", "tell", "count", "resolve", "refused", "serve", "done"} : Goto(t, s)
    BY <1>8 DEF CountFailure, LogFailure, ComputeWindow, CountRequest, Resolve, Serve
  <2> QED
    BY <2>1, <1>5 DEF Stages, Over, KeyStages
<1>9. ASSUME NEW t \in Ops, (\E g \in Pages : AuditLength(t, g)) \/ AuditRange(t) \/ FileStep(t),
             UNCHANGED keyVars
      PROVE  Counting'
  <2>1. \E s \in {"range", "done", "saved"} \cup Saving \cup Over : Goto(t, s)
    BY <1>9, FileMoves, PageMoves
  <2>2. pc[t] \notin {"removeOld", "dead"}
    BY <1>9 DEF FileStep, AuditLength, AuditRange, BeginSave, WriteTemp, Replace, ReadBack, Truncate,
                WriteDoc, NotWritten, Restore, SaveFails, LogSave, Saving
  <2> QED
    BY <1>9, <2>1, <2>2, <1>5 DEF Stages, Over, Saving, KeyStages
<1>10. CASE Tick
  BY <1>10, <1>0, CountingElsewhere DEF Tick
<1>11. ASSUME NEW p \in Procs, Restart(p), UNCHANGED keyVars PROVE Counting'
  <2>1. pc' = [t \in Ops |-> IF t \in Busy /\ home[t] = p THEN "dead" ELSE pc[t]]
    BY <1>11 DEF Restart
  <2>2. \A t \in Ops : pc'[t] = "dead" \/ (pc'[t] = pc[t] /\ pc'[t] \in Stages)
    BY <2>1, <1>0
  <2> QED
    BY <1>11, <2>2, CountingElsewhere
<1>12. CASE UNCHANGED gateVars
  BY <1>12, <1>0, CountingElsewhere DEF gateVars
<1>13. ASSUME NEW t \in Ops, Step(t) PROVE Counting'
  BY <1>13, <1>6, <1>7, <1>8, <1>9 DEF Step
<1> QED
  BY <1>10, <1>11, <1>12, <1>13 DEF Next

(* Issues, rotations and revocations that did not overlap, fail half-way or *)
(* die leave as many valid keys as were issued and not revoked, for any     *)
(* number of them: a rotation puts exactly one key in the place of one.     *)
THEOREM KeysBalance == Spec => []KeysAddUp
<1>1. Init => KeysKept /\ Counting
  BY KeysInit, CountingInit
<1>2. KeysKept /\ Counting /\ [Next]_gateVars => (KeysKept /\ Counting)'
  BY KeysStep, CountingStep
<1>3. KeysKept /\ Counting => KeysAddUp
  <2> SUFFICES ASSUME KeysKept, Counting, ~untidy, Changing = {}, NobodyDied
               PROVE  Cardinality(Live) + Cardinality(revoked) = 1 + Cardinality(issued)
    BY DEF KeysAddUp, NobodyDied
  <2>1. Owed = 0 /\ Balanced
    BY DEF Owed, Changing, KeyStages, Counting, Booked
  <2>2. Cardinality(issued) \in Nat
    BY KeysFinite DEF Counting, Sound, Made
  <2>3. QED
    BY <2>1, <2>2 DEF Balanced
<1>4. QED
  BY <1>1, <1>2, <1>3, PTL DEF Spec
-----------------------------------------------------------------------------
(* e is what a cap of MaxEvents leaves of h.                                *)
IsTail(e, h) ==
  /\ Len(h) >= Len(e) /\ Len(e) <= MaxEvents
  /\ Len(h) > Len(e) => Len(e) = MaxEvents
  /\ \A i \in 1..Len(e) : e[i] = h[Len(h) - Len(e) + i]

(* How many events of list l were trimmed away.                             *)
Trimmed(l) == Len(trail[l]) - Len(events[l])

(* The list is the tail of what was logged.                                 *)
TailKept(l) ==
  events[l] \in Seq(Ops) /\ trail[l] \in Seq(Ops) /\ IsTail(events[l], trail[l])

(* A reader between its two commands: the list is not shorter than it was   *)
(* told, and as much has been trimmed as when it asked.                     *)
Reading(t) ==
  LET g == asked[t] IN
    /\ g.list \in Lists
    /\ g.offset \in Nat /\ g.total \in Nat /\ g.known \in Nat
    /\ g.offset < g.total /\ g.total <= Len(events[g.list])
    /\ g.known - g.total <= Trimmed(g.list)

(* A page that was answered is the events logged from i on, newest first.   *)
PageFrom(t, i) ==
  LET g == asked[t]
      n == Len(page[t])
  IN /\ n >= 1 /\ n <= PageLimit /\ n <= g.total - g.offset
     /\ n = PageLimit \/ n = g.total - g.offset
     /\ i >= 1 /\ i + n - 1 <= Len(trail[g.list]) /\ i + n - 1 >= g.known - g.offset
     /\ \A j \in 1..n : page[t][j] = trail[g.list][i + n - j]
Answered(t) ==
  /\ asked[t].list \in Lists
  /\ asked[t].offset \in Nat /\ asked[t].total \in Nat /\ asked[t].known \in Nat
  /\ \E i \in Nat : PageFrom(t, i)

Shaped ==
  /\ pc \in [Ops -> Stages]
  /\ asked = [t \in Ops |-> asked[t]]
  /\ page \in [Ops -> Seq(Ops)]
Logged ==
  /\ Shaped
  /\ \A l \in Lists : TailKept(l)
  /\ \A t \in Ops : pc[t] = "range" => Reading(t)
  /\ \A t \in Ops : page[t] # <<>> => Answered(t) /\ pc[t] # "idle"
-----------------------------------------------------------------------------
LEMMA MaxOfTwo ==
  ASSUME NEW a \in Int, NEW b \in Int
  PROVE  Max({a, b}) = IF a >= b THEN a ELSE b
<1>1. \E x \in {a, b} : \A y \in {a, b} : x >= y
  OBVIOUS
<1>2. Max({a, b}) \in {a, b} /\ \A y \in {a, b} : Max({a, b}) >= y
  BY <1>1 DEF Max
<1>3. QED
  BY <1>2

LEMMA MinOfTwo ==
  ASSUME NEW a \in Int, NEW b \in Int
  PROVE  Min({a, b}) = IF a <= b THEN a ELSE b
<1>1. \E x \in {a, b} : \A y \in {a, b} : x <= y
  OBVIOUS
<1>2. Min({a, b}) \in {a, b} /\ \A y \in {a, b} : Min({a, b}) <= y
  BY <1>1 DEF Min
<1>3. QED
  BY <1>2

(* What RPUSH and LTRIM leave of a list.                                    *)
LEMMA LatestOf ==
  ASSUME NEW s \in Seq(Ops), NEW t \in Ops
  PROVE  /\ Latest(Append(s, t)) \in Seq(Ops)
         /\ Len(Latest(Append(s, t))) = IF Len(s) + 1 <= MaxEvents THEN Len(s) + 1 ELSE MaxEvents
         /\ \A i \in 1..Len(Latest(Append(s, t))) :
              Latest(Append(s, t))[i] = Append(s, t)[Len(s) + 1 - Len(Latest(Append(s, t))) + i]
<1> DEFINE q == Append(s, t)
           f == Max({1, Len(q) - MaxEvents + 1})
<1>1. q \in Seq(Ops) /\ Len(q) = Len(s) + 1 /\ Len(s) \in Nat /\ MaxEvents \in Nat /\ MaxEvents >= 1
  BY AuditAssumption
<1> HIDE DEF q
<1>2. f = IF 1 >= Len(q) - MaxEvents + 1 THEN 1 ELSE Len(q) - MaxEvents + 1
  BY <1>1, MaxOfTwo
<1> HIDE DEF f
<1>n. Len(q) \in Nat /\ Len(q) >= 1 /\ MaxEvents \in Nat /\ MaxEvents >= 1
  BY <1>1
<1>3. /\ f \in Nat /\ f >= 1 /\ f <= Len(q)
      /\ Len(q) - f + 1 = IF Len(q) <= MaxEvents THEN Len(q) ELSE MaxEvents
  <2>1. CASE Len(q) <= MaxEvents
    <3>1. f = 1
      BY <2>1, <1>n, <1>2
    <3>2. QED
      BY <2>1, <3>1, <1>n
  <2>2. CASE Len(q) > MaxEvents
    <3>1. f = Len(q) - MaxEvents + 1
      BY <2>2, <1>n, <1>2
    <3>2. QED
      BY <2>2, <3>1, <1>n
  <2>3. QED
    BY <2>1, <2>2, <1>n
<1>4. /\ SubSeq(q, f, Len(q)) \in Seq(Ops)
      /\ Len(SubSeq(q, f, Len(q))) = Len(q) - f + 1
      /\ \A i \in 1..(Len(q) - f + 1) : SubSeq(q, f, Len(q))[i] = q[f + i - 1]
  BY <1>1, <1>3
<1>5. Latest(q) = SubSeq(q, f, Len(q))
  BY DEF Latest, f
<1>6. /\ Latest(q) \in Seq(Ops)
      /\ Len(Latest(q)) = IF Len(q) <= MaxEvents THEN Len(q) ELSE MaxEvents
      /\ Len(q) - Len(Latest(q)) = f - 1
  BY <1>n, <1>3, <1>4, <1>5
<1>7. ASSUME NEW i \in 1..Len(Latest(q)) PROVE Latest(q)[i] = q[Len(q) - Len(Latest(q)) + i]
  <2>0. Len(Latest(q)) = Len(q) - f + 1
    BY <1>4, <1>5
  <2>1. Latest(q)[i] = q[f + i - 1] /\ i \in Int
    BY <2>0, <1>4, <1>5
  <2>2. f + i - 1 = Len(q) - Len(Latest(q)) + i
    BY <2>1, <1>3, <1>6
  <2>3. QED
    BY <2>1, <2>2
<1>8. /\ Len(Latest(q)) = IF Len(s) + 1 <= MaxEvents THEN Len(s) + 1 ELSE MaxEvents
      /\ \A i \in 1..Len(Latest(q)) : Latest(q)[i] = q[Len(s) + 1 - Len(Latest(q)) + i]
  <2>1. Len(q) = Len(s) + 1
    BY <1>1
  <2>2. Len(Latest(q)) = IF Len(s) + 1 <= MaxEvents THEN Len(s) + 1 ELSE MaxEvents
    BY <2>1, <1>6
  <2>3. ASSUME NEW i \in 1..Len(Latest(q)) PROVE Latest(q)[i] = q[Len(s) + 1 - Len(Latest(q)) + i]
    <3>1. Latest(q)[i] = q[Len(q) - Len(Latest(q)) + i]
      BY <1>7
    <3>2. QED
      BY <2>1, <3>1
  <2>4. QED
    BY <2>2, <2>3
<1>9. QED
  BY <1>6, <1>8, Zenon DEF q

Grown(e, h, r, g) ==
  /\ r \in Seq(Ops) /\ g \in Seq(Ops) /\ IsTail(r, g)
  /\ Len(r) >= Len(e) /\ Len(g) - Len(r) >= Len(h) - Len(e) /\ Len(g) = Len(h) + 1
  /\ \A i \in 1..Len(h) : g[i] = h[i]

LEMMA TailGrows ==
  ASSUME NEW e \in Seq(Ops), NEW h \in Seq(Ops), NEW t \in Ops, IsTail(e, h),
         NEW r, NEW g, r = Latest(Append(e, t)), g = Append(h, t)
  PROVE  Grown(e, h, r, g)
<1>1. /\ r \in Seq(Ops)
      /\ Len(r) = IF Len(e) + 1 <= MaxEvents THEN Len(e) + 1 ELSE MaxEvents
      /\ \A i \in 1..Len(r) : r[i] = Append(e, t)[Len(e) + 1 - Len(r) + i]
  BY LatestOf
<1>2. /\ g \in Seq(Ops) /\ Len(g) = Len(h) + 1
      /\ \A i \in 1..Len(h) : g[i] = h[i]
      /\ g[Len(h) + 1] = t
  OBVIOUS
<1>3. /\ \A i \in 1..Len(e) : Append(e, t)[i] = e[i]
      /\ Append(e, t)[Len(e) + 1] = t
  OBVIOUS
<1>4. PICK E \in Nat, H \in Nat, R \in Nat, M \in Nat :
        E = Len(e) /\ H = Len(h) /\ R = Len(r) /\ M = MaxEvents /\ M >= 1
  BY <1>1, AuditAssumption
<1>5. /\ H >= E /\ E <= M /\ (H > E => E = M)
      /\ R = IF E + 1 <= M THEN E + 1 ELSE M
  BY <1>1, <1>4 DEF IsTail
<1>6. R <= M /\ R >= E /\ R <= E + 1 /\ R >= 1 /\ (H + 1 > R => R = M) /\ H + 1 - R >= H - E /\ H + 1 >= R
  BY <1>4, <1>5
<1>7. ASSUME NEW i \in 1..R PROVE r[i] = g[H + 1 - R + i]
  <2>0. i \in Nat /\ i >= 1 /\ i <= R
    BY <1>4
  <2>1. r[i] = Append(e, t)[E + 1 - R + i]
    BY <1>1, <1>4
  <2>2. CASE i = R
    <3>1. E + 1 - R + i = E + 1 /\ H + 1 - R + i = H + 1
      BY <2>2, <1>4
    <3>2. QED
      BY <2>1, <3>1, <1>2, <1>3, <1>4
  <2>3. CASE i < R
    <3>1. E + 1 - R + i \in 1..E
      BY <2>0, <2>3, <1>4, <1>6
    <3>2. r[i] = h[H - E + (E + 1 - R + i)]
      BY <2>1, <3>1, <1>3, <1>4 DEF IsTail
    <3>3. H - E + (E + 1 - R + i) = H + 1 - R + i /\ H + 1 - R + i \in 1..H
      BY <2>0, <2>3, <1>4, <1>5, <1>6
    <3>4. QED
      BY <3>2, <3>3, <1>2, <1>4
  <2>4. i = R \/ i < R
    BY <2>0, <1>4
  <2>5. QED
    BY <2>2, <2>3, <2>4
<1>8. IsTail(r, g)
  <2>1. Len(g) = H + 1 /\ Len(r) = R /\ MaxEvents = M
    BY <1>2, <1>4
  <2>2. H + 1 > R => R = M
    BY <1>6
  <2>3. ASSUME NEW i \in 1..Len(r) PROVE r[i] = g[Len(g) - Len(r) + i]
    <3>1. r[i] = g[H + 1 - R + i]
      BY <2>1, <1>7
    <3>2. Len(g) - Len(r) + i = H + 1 - R + i
      BY <2>1
    <3>3. QED
      BY <3>1, <3>2, Zenon
  <2>4. Len(g) >= Len(r) /\ Len(r) <= MaxEvents /\ (Len(g) > Len(r) => Len(r) = MaxEvents)
    BY <2>1, <2>2, <1>6
  <2>5. QED
    BY <2>3, <2>4 DEF IsTail
<1>9. QED
  BY <1>1, <1>2, <1>4, <1>6, <1>8 DEF Grown

LEMMA LoggedInit == Init => Logged
<1> SUFFICES ASSUME Init PROVE Logged
  OBVIOUS
<1>1. /\ pc = [t \in Ops |-> "idle"] /\ events = [l \in Lists |-> <<>>] /\ trail = events
      /\ asked = [t \in Ops |-> [list |-> "global", offset |-> 0, total |-> 0, known |-> 0]]
      /\ page = [t \in Ops |-> <<>>]
  BY DEF Init
<1>2. \A l \in Lists : TailKept(l)
  BY <1>1, AuditAssumption DEF TailKept, IsTail
<1>3. Shaped
  BY <1>1 DEF Shaped, Stages
<1>4. QED
  BY <1>1, <1>2, <1>3 DEF Logged

(* An event is logged in some lists, or none is: the lists stay tails, and  *)
(* nothing of what was ever logged changes its place.                       *)
LEMMA LogKeepsTail ==
  ASSUME NEW l \in Lists, NEW t \in Ops, NEW lists, TailKept(l),
         LogEvent(t, lists) \/ UNCHANGED auditVars
  PROVE  /\ TailKept(l)'
         /\ Len(events'[l]) >= Len(events[l]) /\ Trimmed(l)' >= Trimmed(l)
         /\ Len(trail'[l]) >= Len(trail[l])
         /\ \A i \in 1..Len(trail[l]) : trail'[l][i] = trail[l][i]
<1>1. CASE events'[l] = events[l] /\ trail'[l] = trail[l]
  BY <1>1 DEF TailKept, Trimmed
<1>2. CASE events'[l] = Latest(Append(events[l], t)) /\ trail'[l] = Append(trail[l], t)
  <2>1. events[l] \in Seq(Ops) /\ trail[l] \in Seq(Ops) /\ IsTail(events[l], trail[l])
    BY DEF TailKept
  <2>2. Grown(events[l], trail[l], events'[l], trail'[l])
    BY <1>2, <2>1, TailGrows
  <2>3. TailKept(l)' /\ Trimmed(l)' >= Trimmed(l)
    BY <2>2 DEF Grown, TailKept, Trimmed, IsTail
  <2>4. Len(trail'[l]) >= Len(trail[l])
    BY <2>1, <2>2 DEF Grown
  <2>5. QED
    BY <2>2, <2>3, <2>4 DEF Grown
<1>3. QED
  BY <1>1, <1>2 DEF LogEvent, auditVars

(* Then every reader and every answered page stays right.                   *)
LEMMA LogKeeps ==
  ASSUME Logged, NEW t \in Ops, NEW lists, LogEvent(t, lists) \/ UNCHANGED auditVars,
         UNCHANGED pageVars, pc' \in [Ops -> Stages],
         \A u \in Ops : pc'[u] \in {"range", "idle"} => pc[u] = pc'[u]
  PROVE  Logged'
<1> USE DEF pageVars
<1>0. \A l \in Lists :
        /\ TailKept(l)' /\ TailKept(l)
        /\ Len(events'[l]) >= Len(events[l]) /\ Trimmed(l)' >= Trimmed(l)
        /\ Len(trail'[l]) >= Len(trail[l])
        /\ \A i \in 1..Len(trail[l]) : trail'[l][i] = trail[l][i]
  BY LogKeepsTail DEF Logged
<1>1. \A l \in Lists : /\ Len(events[l]) \in Nat /\ Len(trail[l]) \in Nat /\ Trimmed(l) \in Int
                         /\ Len(events'[l]) \in Nat /\ Len(trail'[l]) \in Nat /\ Trimmed(l)' \in Int
  BY <1>0 DEF TailKept, Trimmed
<1>2. Shaped'
  BY DEF Logged, Shaped
<1>3. ASSUME NEW u \in Ops, pc'[u] = "range" PROVE Reading(u)'
  <2>1. Reading(u) /\ asked'[u] = asked[u]
    BY <1>3 DEF Logged
  <2>2. QED
    BY <2>1, <1>0, <1>1 DEF Reading
<1>4. ASSUME NEW u \in Ops, page'[u] # <<>> PROVE Answered(u)' /\ pc'[u] # "idle"
  <2>0. pc'[u] # "idle"
    BY <1>4 DEF Logged
  <2>1. Answered(u) /\ asked'[u] = asked[u] /\ page'[u] = page[u] /\ Len(page[u]) \in Nat
    BY <1>4 DEF Logged, Shaped
  <2>2. PICK i \in Nat : PageFrom(u, i)
    BY <2>1 DEF Answered
  <2> DEFINE l == asked[u].list
             n == Len(page[u])
  <2>3. l \in Lists /\ asked[u].known \in Nat /\ asked[u].offset \in Nat
    BY <2>1 DEF Answered
  <2>n. /\ n \in Nat /\ n >= 1 /\ i >= 1 /\ i + n - 1 <= Len(trail[l])
        /\ \A j \in 1..n : page[u][j] = trail[l][i + n - j]
    BY <2>1, <2>2 DEF PageFrom
  <2>h. /\ Len(trail[l]) \in Nat /\ Len(trail'[l]) \in Nat /\ Len(trail'[l]) >= Len(trail[l])
        /\ \A k \in 1..Len(trail[l]) : trail'[l][k] = trail[l][k]
    BY <2>3, <1>0, <1>1
  <2> HIDE DEF l, n
  <2>4. ASSUME NEW j \in 1..n PROVE page[u][j] = trail'[l][i + n - j]
    <3>1. page[u][j] = trail[l][i + n - j]
      BY <2>n
    <3>2. i + n - j \in 1..Len(trail[l])
      BY <2>n, <2>h
    <3>3. QED
      BY <3>1, <3>2, <2>h
  <2>5. i + n - 1 <= Len(trail'[l])
    BY <2>n, <2>h
  <2> USE DEF l, n
  <2>6. PageFrom(u, i)'
    BY <2>1, <2>2, <2>4, <2>5 DEF PageFrom
  <2>7. QED
    BY <2>0, <2>1, <2>6 DEF Answered
<1>5. QED
  BY <1>0, <1>2, <1>3, <1>4 DEF Logged

(* A step that neither logs nor reads.                                      *)
LEMMA Untouched ==
  ASSUME Logged, UNCHANGED auditVars, UNCHANGED pageVars, pc' \in [Ops -> Stages],
         \A u \in Ops : pc'[u] \in {"range", "idle"} => pc[u] = pc'[u]
  PROVE  Logged'
<1>1. CASE Ops = {}
  BY <1>1 DEF Logged, Shaped, auditVars, pageVars, TailKept
<1>2. CASE Ops # {}
  BY <1>2, LogKeeps
<1>3. QED
  BY <1>1, <1>2

(* A page is asked for: LLEN. *)
LEMMA LengthStep ==
  ASSUME Logged, NEW t \in Ops, NEW p \in Pages, AuditLength(t, p)
  PROVE  Logged'
<1>0. /\ p.list \in Lists /\ p.offset \in Nat /\ p.offset < Len(events[p.list])
      /\ asked' = [asked EXCEPT ![t] =
           [list |-> p.list, offset |-> p.offset, total |-> Len(events[p.list]), known |-> Len(trail[p.list])]]
      /\ pc' = [pc EXCEPT ![t] = "range"] /\ UNCHANGED <<events, trail, page>>
  BY AuditAssumption DEF AuditLength, Goto, Pages, auditVars
<1>n. page[t] = <<>>
  BY DEF AuditLength, Logged
<1>1. asked'[t] = [list |-> p.list, offset |-> p.offset, total |-> Len(events[p.list]), known |-> Len(trail[p.list])]
      /\ \A u \in Ops : u # t => asked'[u] = asked[u] /\ pc'[u] = pc[u]
  BY <1>0 DEF Logged, Shaped
<1>2. Shaped'
  <2>1. asked' = [u \in Ops |-> asked'[u]]
    BY <1>0 DEF Logged, Shaped
  <2>2. QED
    BY <1>0, <2>1 DEF Logged, Shaped, Stages
<1>3. \A l \in Lists : TailKept(l)' /\ TailKept(l) /\ Len(events[l]) \in Nat /\ Len(trail[l]) \in Nat
                         /\ Trimmed(l)' = Trimmed(l)
  BY <1>0 DEF Logged, TailKept, Trimmed
<1>4. ASSUME NEW u \in Ops, pc'[u] = "range" PROVE Reading(u)'
  <2>1. CASE u = t
    <3>1. Len(trail[p.list]) - Len(events[p.list]) <= Trimmed(p.list)
      BY <1>0, <1>3 DEF Trimmed
    <3>2. /\ asked'[t].list = p.list /\ asked'[t].offset = p.offset
          /\ asked'[t].total = Len(events[p.list]) /\ asked'[t].known = Len(trail[p.list])
      BY <1>1
    <3>3. Trimmed(p.list)' = Trimmed(p.list) /\ events' = events
          /\ Len(events[p.list]) \in Nat /\ Len(trail[p.list]) \in Nat
      BY <1>0, <1>3
    <3>4. QED
      BY <2>1, <3>1, <3>2, <3>3, <1>0 DEF Reading, Trimmed
  <2>2. CASE u # t
    <3>1. Reading(u) /\ asked'[u] = asked[u] /\ asked[u].list \in Lists
      BY <2>2, <1>1, <1>4 DEF Logged, Reading
    <3>2. QED
      BY <3>1, <1>0, <1>3 DEF Reading
  <2>3. QED
    BY <2>1, <2>2
<1>5. ASSUME NEW u \in Ops, page'[u] # <<>> PROVE Answered(u)' /\ pc'[u] # "idle"
  <2>0. u # t /\ page[u] # <<>>
    BY <1>n, <1>0, <1>5
  <2>1. Answered(u) /\ asked'[u] = asked[u] /\ pc'[u] # "idle"
    BY <1>1, <2>0 DEF Logged
  <2>2. page'[u] = page[u] /\ trail' = trail
    BY <1>0
  <2>3. ASSUME NEW i \in Nat, PageFrom(u, i) PROVE PageFrom(u, i)'
    BY <2>1, <2>2, <2>3 DEF PageFrom
  <2>4. QED
    BY <2>1, <2>3 DEF Answered
<1>6. QED
  BY <1>2, <1>3, <1>4, <1>5 DEF Logged

(* d events of h were trimmed away; q is the events up to position last of  *)
(* what is left, newest first, as many as a page holds; the oldest is h[i]. *)
Stretch(q, h, d, last, i) ==
  /\ q \in Seq(Ops) /\ Len(q) >= 1 /\ Len(q) <= PageLimit /\ Len(q) <= last
  /\ Len(q) = PageLimit \/ Len(q) = last
  /\ i >= 1 /\ i + Len(q) - 1 = d + last
  /\ \A j \in 1..Len(q) : q[j] = h[i + Len(q) - j]

LEMMA LenOfDomain ==
  ASSUME NEW S, NEW s \in Seq(S), NEW n \in Nat, DOMAIN s = 1..n
  PROVE  Len(s) = n
<1>1. Len(s) \in Nat /\ DOMAIN s = 1..Len(s)
  BY LenProperties
<1>2. \A m, k \in Nat : 1..m = 1..k => m = k
  OBVIOUS
<1>3. QED
  BY <1>1, <1>2

(* Where the j-th of the n events up to last, newest first, stands in the   *)
(* list of length E and in the H events ever logged.                        *)
LEMMA Positions ==
  ASSUME NEW E \in Nat, NEW H \in Nat, NEW first \in Nat, NEW last \in Nat, NEW n \in Nat,
         NEW i \in Nat, NEW j \in Nat, first >= 1, n = last - first + 1, last <= E,
         i = H - E + first, j >= 1, j <= n
  PROVE  /\ n - j + 1 \in 1..n /\ first + (n - j + 1) - 1 \in 1..E
         /\ H - E + (first + (n - j + 1) - 1) = i + n - j
  OBVIOUS

LEMMA Ends ==
  ASSUME NEW x \in Int, NEW trimmed \in Int, NEW total \in Nat, NEW offset \in Nat, NEW known \in Nat,
         NEW E \in Nat, NEW H \in Nat, trimmed = H - E, x = trimmed + (total - offset),
         total <= E, known - total <= trimmed
  PROVE  x <= H /\ x >= known - offset
  OBVIOUS

(* What the positions of LRANGE cut out of a tail: a stretch of what was    *)
(* logged that ends where the page was asked to.                            *)
LEMMA CutOut ==
  ASSUME NEW e \in Seq(Ops), NEW h \in Seq(Ops), IsTail(e, h),
         NEW last \in Nat, last >= 1, last <= Len(e),
         NEW q, q = Reverse(SubSeq(e, Max({1, last - PageLimit + 1}), last))
  PROVE  \E i \in Nat : Stretch(q, h, Len(h) - Len(e), last, i)
<1>1. PICK E \in Nat, H \in Nat, P \in Nat, first \in Int :
        E = Len(e) /\ H = Len(h) /\ P = PageLimit /\ P >= 1 /\ first = Max({1, last - PageLimit + 1})
  <2>1. Max({1, last - PageLimit + 1}) \in Int
    BY MaxOfTwo, AuditAssumption
  <2>2. QED
    BY <2>1, AuditAssumption
<1>2. first = IF 1 >= last - P + 1 THEN 1 ELSE last - P + 1
  BY <1>1, MaxOfTwo
<1>3. PICK n \in Int : n = last - first + 1
  BY <1>1
<1>4. /\ first \in Nat /\ first >= 1 /\ first <= last /\ n \in Nat
      /\ n >= 1 /\ n <= P /\ n <= last /\ (n = P \/ n = last)
  <2>1. CASE last <= P
    BY <2>1, <1>1, <1>2, <1>3
  <2>2. CASE last > P
    BY <2>2, <1>1, <1>2, <1>3
  <2>3. QED
    BY <2>1, <2>2, <1>1
<1>5. PICK cut \in Seq(Ops) : cut = SubSeq(e, first, last) /\ Len(cut) = n /\ \A j \in 1..n : cut[j] = e[first + j - 1]
  <2>1. last \in 1..Len(e) /\ first \in 1..last
    BY <1>1, <1>4
  <2>2. /\ SubSeq(e, first, last) \in Seq(Ops)
        /\ Len(SubSeq(e, first, last)) = last - first + 1
        /\ \A j \in 1..(last - first + 1) : SubSeq(e, first, last)[j] = e[first + j - 1]
    BY <2>1
  <2>3. QED
    BY <2>2, <1>3
<1>6. q = [j \in 1..n |-> cut[n - j + 1]]
  BY <1>1, <1>5 DEF Reverse
<1>7. q \in Seq(Ops) /\ Len(q) = n
  <2>1. ASSUME NEW j \in 1..n PROVE cut[n - j + 1] \in Ops
    <3>1. n - j + 1 \in 1..n
      BY <1>4
    <3>2. QED
      BY <3>1, <1>5
  <2>2. q \in [1..n -> Ops] /\ DOMAIN q = 1..n
    BY <2>1, <1>6
  <2>3. q \in Seq(Ops)
    BY <2>2, <1>4, SeqDef
  <2>4. QED
    BY <2>2, <2>3, <1>4, LenOfDomain
<1>8. PICK i \in Nat : i = H - E + first
  BY <1>1, <1>4 DEF IsTail
<1>9. i >= 1 /\ i + n - 1 = H - E + last /\ H >= E
  <2>1. H >= E
    BY <1>1 DEF IsTail
  <2>2. QED
    BY <2>1, <1>1, <1>3, <1>4, <1>8
<1>10. ASSUME NEW j \in 1..n PROVE q[j] = h[i + n - j]
  <2>0. j \in Nat /\ j >= 1 /\ j <= n /\ last <= E
    BY <1>1, <1>4
  <2>1. n - j + 1 \in 1..n /\ first + (n - j + 1) - 1 \in 1..E
        /\ H - E + (first + (n - j + 1) - 1) = i + n - j
    BY <2>0, <1>3, <1>4, <1>8, Positions
  <2>2. q[j] = cut[n - j + 1]
    BY <1>6
  <2>3. cut[n - j + 1] = e[first + (n - j + 1) - 1]
    BY <2>1, <1>5
  <2>4. e[first + (n - j + 1) - 1] = h[H - E + (first + (n - j + 1) - 1)]
    BY <2>1, <1>1 DEF IsTail
  <2>5. QED
    BY <2>1, <2>2, <2>3, <2>4
<1>11. Stretch(q, h, Len(h) - Len(e), last, i)
  <2>1. ASSUME NEW j \in 1..Len(q) PROVE q[j] = h[i + Len(q) - j]
    BY <1>7, <1>10
  <2>2. QED
    BY <2>1, <1>1, <1>4, <1>7, <1>9 DEF Stretch
<1>12. QED
  BY <1>11

(* The page is read: LRANGE. *)
LEMMA RangeStep ==
  ASSUME Logged, NEW t \in Ops, AuditRange(t)
  PROVE  Logged'
<1> DEFINE g == asked[t]
           list == events[g.list]
           last == g.total - g.offset
<1>0. /\ pc[t] = "range"
      /\ page' = [page EXCEPT ![t] = Reverse(SubSeq(list, Max({1, last - PageLimit + 1}), last))]
      /\ pc' = [pc EXCEPT ![t] = "done"] /\ UNCHANGED <<events, trail, asked>>
  BY DEF AuditRange, Goto, auditVars
<1>1. /\ g.list \in Lists /\ g.offset \in Nat /\ g.total \in Nat /\ g.known \in Nat
      /\ g.offset < g.total /\ g.total <= Len(list) /\ g.known - g.total <= Trimmed(g.list)
      /\ TailKept(g.list)
  BY <1>0 DEF Logged, Reading
<1>2. list \in Seq(Ops) /\ trail[g.list] \in Seq(Ops) /\ IsTail(list, trail[g.list])
      /\ Trimmed(g.list) = Len(trail[g.list]) - Len(list)
  BY <1>1 DEF TailKept, Trimmed
<1>3. last \in Nat /\ last >= 1 /\ last <= Len(list)
  BY <1>1, <1>2
<1>4. /\ page'[t] = Reverse(SubSeq(list, Max({1, last - PageLimit + 1}), last))
      /\ \A u \in Ops : u # t => page'[u] = page[u] /\ pc'[u] = pc[u]
  BY <1>0 DEF Logged, Shaped
<1>5. PICK i \in Nat : Stretch(page'[t], trail[g.list], Trimmed(g.list), last, i)
  <2> DEFINE h == trail[g.list]
             q == page'[t]
  <2>1. /\ list \in Seq(Ops) /\ h \in Seq(Ops) /\ IsTail(list, h)
        /\ last \in Nat /\ last >= 1 /\ last <= Len(list)
        /\ q = Reverse(SubSeq(list, Max({1, last - PageLimit + 1}), last))
        /\ Trimmed(g.list) = Len(h) - Len(list)
    BY <1>2, <1>3, <1>4
  <2> HIDE DEF g, list, last, h, q
  <2>2. \E i \in Nat : Stretch(q, h, Len(h) - Len(list), last, i)
    BY <2>1, CutOut
  <2>3. QED
    BY <2>1, <2>2 DEF h, q
<1>6. page'[t] \in Seq(Ops) /\ Len(page'[t]) \in Nat
  BY <1>5 DEF Stretch
<1>7. i + Len(page'[t]) - 1 <= Len(trail[g.list]) /\ i + Len(page'[t]) - 1 >= g.known - g.offset
  <2>1. /\ Trimmed(g.list) \in Int /\ Len(trail[g.list]) \in Nat /\ Len(list) \in Nat
        /\ Trimmed(g.list) = Len(trail[g.list]) - Len(list)
    BY <1>2
  <2>2. i + Len(page'[t]) - 1 = Trimmed(g.list) + (g.total - g.offset)
    BY <1>5 DEF Stretch
  <2>3. /\ g.total \in Nat /\ g.offset \in Nat /\ g.known \in Nat
        /\ g.total <= Len(list) /\ g.known - g.total <= Trimmed(g.list)
    BY <1>1
  <2> DEFINE x == i + Len(page'[t]) - 1
             trimmed == Trimmed(g.list)
             E == Len(list)
             H == Len(trail[g.list])
             total == g.total
             offset == g.offset
             known == g.known
  <2>4. x \in Int /\ x = trimmed + (total - offset)
    BY <1>6, <2>2
  <2>5. /\ trimmed \in Int /\ H \in Nat /\ E \in Nat /\ trimmed = H - E
        /\ total \in Nat /\ offset \in Nat /\ known \in Nat /\ total <= E /\ known - total <= trimmed
    BY <2>1, <2>3
  <2>6. x <= H /\ x >= known - offset
    <3> HIDE DEF x, trimmed, E, H, total, offset, known
    <3>1. QED
      BY <2>4, <2>5, Ends
  <2>7. QED
    BY <2>6
<1>8. PageFrom(t, i)'
  BY <1>0, <1>5, <1>7 DEF Stretch, PageFrom
<1>9. Shaped'
  BY <1>0, <1>4, <1>6 DEF Logged, Shaped, Stages, Over
<1>10. \A l \in Lists : TailKept(l)'
  BY <1>0 DEF Logged, TailKept
<1>11. ASSUME NEW u \in Ops, pc'[u] = "range" PROVE Reading(u)'
  <2>1. pc[u] = "range"
    BY <1>0, <1>11 DEF Logged, Shaped
  <2>2. QED
    BY <2>1, <1>0 DEF Logged, Reading, Trimmed
<1>12. ASSUME NEW u \in Ops, page'[u] # <<>> PROVE Answered(u)' /\ pc'[u] # "idle"
  <2>1. CASE u = t
    <3>1. asked'[t] = g /\ pc'[t] = "done"
      BY <1>0 DEF Logged, Shaped
    <3>2. QED
      BY <2>1, <3>1, <1>1, <1>8 DEF Answered
  <2>2. CASE u # t
    <3>1. Answered(u) /\ pc'[u] # "idle" /\ page'[u] = page[u] /\ asked' = asked
      BY <2>2, <1>0, <1>4, <1>12 DEF Logged
    <3>2. QED
      BY <3>1, <1>0 DEF Answered, PageFrom
  <2>3. QED
    BY <2>1, <2>2
<1>13. QED
  BY <1>9, <1>10, <1>11, <1>12 DEF Logged
-----------------------------------------------------------------------------
(* Every other step logs one event or none, and moves its request on.       *)
Logs(t) == (\E lists \in SUBSET Lists : LogEvent(t, lists)) \/ UNCHANGED auditVars

LEMMA FileLogs ==
  ASSUME NEW t \in Ops, FileStep(t)
  PROVE  Logs(t)
<1>1. ASSUME NEW p \in Procs, NEW d \in Docs \cup {NoId}, BeginSave(t, p, d) PROVE Logs(t)
  BY <1>1 DEF BeginSave, Logs
<1>2. CASE WriteTemp(t)
  BY <1>2 DEF WriteTemp, Logs
<1>3. CASE Replace(t)
  BY <1>3 DEF Replace, Logs
<1>4. CASE ReadBack(t)
  BY <1>4 DEF ReadBack, Logs
<1>5. CASE Truncate(t)
  BY <1>5 DEF Truncate, Logs
<1>6. CASE WriteDoc(t)
  BY <1>6 DEF WriteDoc, Logs
<1>7. CASE Restore(t)
  BY <1>7 DEF Restore, Logs
<1>8. CASE SaveFails(t)
  BY <1>8 DEF SaveFails, Logs
<1>9. CASE LogSave(t)
  <2>1. LogEvent(t, {"global"}) /\ {"global"} \in SUBSET Lists
    BY <1>9 DEF LogSave, Lists
  <2>2. QED
    BY <2>1 DEF Logs
<1>10. QED
  BY <1>1, <1>2, <1>3, <1>4, <1>5, <1>6, <1>7, <1>8, <1>9 DEF FileStep

LEMMA KeyLogs ==
  ASSUME NEW t \in Ops, KeyStep(t)
  PROVE  Logs(t)
<1>1. ASSUME NEW p \in Procs, NEW s \in Scopes, Issue(t, p, s) PROVE Logs(t)
  BY <1>1 DEF Issue, Logs
<1>2. ASSUME NEW p \in Procs, NEW k \in Keys, RotateRead(t, p, k) \/ Revoke(t, p, k) PROVE Logs(t)
  BY <1>2 DEF RotateRead, Revoke, Logs
<1>3. CASE StoreIssued(t)
  BY <1>3 DEF StoreIssued, Logs
<1>4. CASE StoreRotated(t)
  BY <1>4 DEF StoreRotated, Logs
<1>5. CASE RemoveOld(t)
  BY <1>5 DEF RemoveOld, Logs
<1>6. CASE LogKey(t)
  <2>1. LogEvent(t, {"global"}) /\ {"global"} \in SUBSET Lists
    BY <1>6 DEF LogKey, Lists
  <2>2. QED
    BY <2>1 DEF Logs
<1>7. CASE KeyFails(t)
  BY <1>7 DEF KeyFails, Logs
<1>8. QED
  BY <1>1, <1>2, <1>3, <1>4, <1>5, <1>6, <1>7 DEF KeyStep

(* A step that logs or not, leaves the pages alone and takes its request to *)
(* a stage where no page is read.                                           *)
LEMMA StepLogs ==
  ASSUME Logged, NEW t \in Ops, Logs(t), UNCHANGED pageVars,
         NEW s \in Stages \ {"range", "idle"}, Goto(t, s)
  PROVE  Logged'
<1>1. /\ pc' \in [Ops -> Stages]
      /\ \A u \in Ops : pc'[u] \in {"range", "idle"} => pc[u] = pc'[u]
  BY DEF Logged, Shaped, Goto
<1>2. PICK lists : LogEvent(t, lists) \/ UNCHANGED auditVars
  BY DEF Logs
<1>3. QED
  BY <1>1, <1>2, LogKeeps

LEMMA StageNames ==
  Saving \cup Over \cup KeyStages
    \cup {"saved", "logKey", "punish", "tell", "window", "count", "resolve", "serve"}
    \subseteq Stages \ {"range", "idle"}
BY DEF Stages, Saving, Over, KeyStages

LEMMA LoggedStep == Logged /\ [Next]_gateVars => Logged'
<1> SUFFICES ASSUME Logged, [Next]_gateVars PROVE Logged'
  OBVIOUS
<1>0. pc \in [Ops -> Stages]
  BY DEF Logged, Shaped
<1>1. ASSUME NEW t \in Ops,
             \/ \E p \in Procs, c \in Calls : Authenticate(t, p, c)
             \/ CountFailure(t) \/ ComputeWindow(t) \/ CountRequest(t) \/ Resolve(t)
      PROVE  Logged'
  <2>1. UNCHANGED auditVars /\ UNCHANGED pageVars
    BY <1>1 DEF Authenticate, CountFailure, ComputeWindow, CountRequest, Resolve, Same
  <2>2. \E s \in Over \cup {"punish", "tell", "window", "count", "resolve", "serve"} : Goto(t, s)
    BY <1>1 DEF Authenticate, CountFailure, ComputeWindow, CountRequest, Resolve, Over
  <2>3. PICK s \in Stages \ {"range", "idle"} : Goto(t, s)
    BY <2>2, StageNames
  <2>4. QED
    BY <2>1, <2>3, StepLogs DEF Logs
<1>2. ASSUME NEW t \in Ops, LogFailure(t) \/ Serve(t) PROVE Logged'
  <2>1. Logs(t) /\ UNCHANGED pageVars
    BY <1>2 DEF LogFailure, Serve, Same, Logs, Lists
  <2>2. \E s \in Over : Goto(t, s)
    BY <1>2 DEF LogFailure, Serve, Over
  <2>3. PICK s \in Stages \ {"range", "idle"} : Goto(t, s)
    BY <2>2, StageNames
  <2>4. QED
    BY <2>1, <2>3, StepLogs
<1>3. ASSUME NEW t \in Ops, FileStep(t) \/ KeyStep(t), UNCHANGED pageVars PROVE Logged'
  <2>1. Logs(t)
    BY <1>3, FileLogs, KeyLogs
  <2>2. \E s \in Saving \cup Over \cup KeyStages \cup {"saved", "logKey"} : Goto(t, s)
    BY <1>3, FileMoves, KeyMoves
  <2>3. PICK s \in Stages \ {"range", "idle"} : Goto(t, s)
    BY <2>2, StageNames
  <2>4. QED
    BY <1>3, <2>1, <2>3, StepLogs
<1>4. ASSUME NEW t \in Ops, (\E g \in Pages : AuditLength(t, g)) \/ AuditRange(t) PROVE Logged'
  BY <1>4, LengthStep, RangeStep
<1>5. ASSUME NEW p \in Procs, Restart(p), UNCHANGED pageVars PROVE Logged'
  <2>1. UNCHANGED auditVars /\ pc' = [t \in Ops |-> IF t \in Busy /\ home[t] = p THEN "dead" ELSE pc[t]]
    BY <1>5 DEF Restart
  <2>2. "dead" \in Stages
    BY DEF Stages, Over
  <2>3. pc' \in [Ops -> Stages] /\ \A u \in Ops : pc'[u] \in {"range", "idle"} => pc[u] = pc'[u]
    BY <2>1, <2>2, <1>0
  <2>4. QED
    BY <2>1, <2>3, <1>5, Untouched
<1>6. CASE Tick \/ UNCHANGED gateVars
  <2>1. UNCHANGED auditVars /\ UNCHANGED pageVars /\ pc' = pc
    BY <1>6 DEF Tick, Same, gateVars
  <2>2. QED
    BY <2>1, <1>0, Untouched
<1>7. QED
  BY <1>1, <1>2, <1>3, <1>4, <1>5, <1>6 DEF Next, Step

(* The invariant says what the property says: the page, read backwards, is  *)
(* a stretch of the events ever logged.                                     *)
LEMMA PageIsStretch ==
  ASSUME NEW p \in Seq(Ops), NEW h \in Seq(Ops), NEW i \in Nat, NEW n \in Nat, n = Len(p),
         n >= 1, i >= 1, i + n - 1 <= Len(h), \A j \in 1..n : p[j] = h[i + n - j]
  PROVE  /\ i \in 1..(Len(h) - n + 1)
         /\ Reverse(p) = SubSeq(h, i, i + n - 1)
<1>1. i \in 1..(Len(h) - n + 1) /\ i + n - 1 \in Nat /\ Len(h) \in Nat
  OBVIOUS
<1>2. Reverse(p) = [j \in 1..n |-> p[(n - j) + 1]]
  BY DEF Reverse
<1>3. SubSeq(h, i, i + n - 1) = [j \in 1..(i + n - 1 - i + 1) |-> h[i + j - 1]]
  OBVIOUS
<1>4. i + n - 1 - i + 1 = n
  OBVIOUS
<1>5. ASSUME NEW j \in 1..n PROVE p[(n - j) + 1] = h[i + j - 1]
  <2>1. (n - j) + 1 \in 1..n /\ i + n - ((n - j) + 1) = i + j - 1
    OBVIOUS
  <2>2. QED
    BY <2>1
<1>6. QED
  BY <1>1, <1>2, <1>3, <1>4, <1>5

LEMMA LoggedTells == Logged => AuditPagesContiguous
<1> SUFFICES ASSUME Logged, NEW t \in Ops, page[t] # <<>>
             PROVE  LET g == asked[t]
                        n == Len(page[t])
                    IN /\ n = Min({PageLimit, g.total - g.offset})
                       /\ \E i \in 1..(Len(trail[g.list]) - n + 1) :
                            /\ Reverse(page[t]) = SubSeq(trail[g.list], i, i + n - 1)
                            /\ i + n - 1 >= g.known - g.offset
  BY DEF AuditPagesContiguous
<1> DEFINE g == asked[t]
           n == Len(page[t])
<1>1. Answered(t) /\ page[t] \in Seq(Ops)
  BY DEF Logged, Shaped
<1>2. PICK i \in Nat : PageFrom(t, i)
  BY <1>1 DEF Answered
<1>3. /\ g.list \in Lists /\ g.offset \in Nat /\ g.total \in Nat /\ g.known \in Nat
      /\ n \in Nat /\ PageLimit \in Nat
  BY <1>1, AuditAssumption DEF Answered
<1>4. trail[g.list] \in Seq(Ops)
  BY <1>3 DEF Logged, TailKept
<1>5. /\ n >= 1 /\ n <= PageLimit /\ n <= g.total - g.offset
      /\ n = PageLimit \/ n = g.total - g.offset
      /\ i >= 1 /\ i + n - 1 <= Len(trail[g.list]) /\ i + n - 1 >= g.known - g.offset
      /\ \A j \in 1..n : page[t][j] = trail[g.list][i + n - j]
  BY <1>2 DEF PageFrom
<1>6. n = Min({PageLimit, g.total - g.offset})
  <2>1. g.total - g.offset \in Int
    BY <1>3
  <2>2. Min({PageLimit, g.total - g.offset}) = IF PageLimit <= g.total - g.offset THEN PageLimit ELSE g.total - g.offset
    BY <2>1, <1>3, MinOfTwo
  <2> HIDE DEF g, n
  <2>3. QED
    BY <2>1, <2>2, <1>3, <1>5
<1>7. i \in 1..(Len(trail[g.list]) - n + 1) /\ Reverse(page[t]) = SubSeq(trail[g.list], i, i + n - 1)
  BY <1>1, <1>3, <1>4, <1>5, PageIsStretch
<1>8. QED
  BY <1>5, <1>6, <1>7

(* Whatever is pushed and trimmed between the two commands of a page, by    *)
(* any number of requests, the page get_audit_log answers is a stretch of   *)
(* what was logged, newest first, as long as was promised, and it reaches   *)
(* back no further than it was asked to.                                    *)
THEOREM PagesContiguous == Spec => []AuditPagesContiguous
<1>1. QED
  BY LoggedInit, LoggedStep, LoggedTells, PTL DEF Spec
-----------------------------------------------------------------------------
(* What no other invariant of the gate says of its variables.               *)
Plain ==
  /\ plan \in [Ops -> SUBSET Kinds] /\ mounted \in BOOLEAN /\ untidy \in BOOLEAN
  /\ met \subseteq Ops /\ fails \in Nat
  /\ events = [l \in Lists |-> events[l]] /\ trail = [l \in Lists |-> trail[l]]
  /\ asked \in [Ops -> [list : Lists, offset : Nat, total : Nat, known : Nat]]

LEMMA PlainInit == Init => Plain
<1> SUFFICES ASSUME Init PROVE Plain
  OBVIOUS
<1>1. PICK b \in Boot : plan = b.plan /\ mounted = b.mounted
  BY DEF Init
<1>2. plan \in [Ops -> SUBSET Kinds] /\ mounted \in BOOLEAN
  BY <1>1, GateAssumption
<1>3. asked \in [Ops -> [list : Lists, offset : Nat, total : Nat, known : Nat]]
  BY DEF Init, Lists
<1>4. events = [l \in Lists |-> events[l]] /\ trail = [l \in Lists |-> trail[l]]
  BY DEF Init
<1> QED
  BY <1>2, <1>3, <1>4 DEF Init, Plain

(* Requests that ask, save or change keys leave most of it alone. *)
LEMMA FilePlain ==
  ASSUME NEW t \in Ops, FileStep(t)
  PROVE  plan' = plan /\ (met \subseteq Ops => met' \subseteq Ops)
<1>1. ASSUME NEW p \in Procs, NEW d \in Docs \cup {NoId}, BeginSave(t, p, d)
      PROVE  plan' = plan /\ (met \subseteq Ops => met' \subseteq Ops)
  BY <1>1 DEF BeginSave, Savers
<1>2. CASE WriteTemp(t) \/ Replace(t) \/ ReadBack(t) \/ Truncate(t)
  BY <1>2 DEF WriteTemp, Replace, ReadBack, Truncate, fileVars
<1>3. CASE WriteDoc(t) \/ Restore(t) \/ SaveFails(t) \/ LogSave(t)
  BY <1>3 DEF WriteDoc, Restore, SaveFails, LogSave, fileVars
<1> QED
  BY <1>1, <1>2, <1>3 DEF FileStep

LEMMA KeyPlain ==
  ASSUME NEW t \in Ops, KeyStep(t), untidy \in BOOLEAN
  PROVE  plan' = plan /\ untidy' \in BOOLEAN
<1>1. ASSUME NEW p \in Procs, NEW s \in Scopes, NEW k \in Keys,
             Issue(t, p, s) \/ RotateRead(t, p, k) \/ Revoke(t, p, k)
      PROVE  plan' = plan /\ untidy' \in BOOLEAN
  BY <1>1 DEF Issue, RotateRead, Revoke, Enter
<1>2. CASE StoreIssued(t) \/ StoreRotated(t) \/ RemoveOld(t)
  BY <1>2 DEF StoreIssued, StoreRotated, RemoveOld
<1>3. CASE LogKey(t) \/ KeyFails(t)
  BY <1>3 DEF LogKey, KeyFails, keyVars
<1>4. CASE \E p \in Procs, s \in Scopes : Issue(t, p, s)
  BY <1>4 DEF Issue, Enter
<1>5. CASE \E p \in Procs, k \in Keys : RotateRead(t, p, k) \/ Revoke(t, p, k)
  BY <1>5 DEF RotateRead, Revoke, Enter
<1> QED
  BY <1>2, <1>3, <1>4, <1>5 DEF KeyStep

(* A step that logs one event, or none, and leaves the pages alone. *)
LEMMA PlainKept ==
  ASSUME Plain, \/ \E t \in Ops : Logs(t)
                \/ UNCHANGED auditVars,
         UNCHANGED asked, plan' = plan, mounted' = mounted,
         untidy' \in BOOLEAN, met' \subseteq Ops, fails' \in Nat
  PROVE  Plain'
  BY DEF Plain, Logs, LogEvent, auditVars

LEMMA PlainStep == Plain /\ Logged /\ [Next]_gateVars => Plain'
<1> SUFFICES ASSUME Plain, Logged, [Next]_gateVars PROVE Plain'
  OBVIOUS
<1>1. ASSUME NEW t \in Ops,
             \/ \E p \in Procs, c \in Calls : Authenticate(t, p, c)
             \/ ComputeWindow(t) \/ CountRequest(t) \/ Resolve(t)
      PROVE  Plain'
  <2>1. Same /\ UNCHANGED <<auditVars, fails>>
    BY <1>1 DEF Authenticate, ComputeWindow, CountRequest, Resolve, meterVars
  <2> QED
    BY <2>1, PlainKept DEF Plain, Same, pageVars, fileVars, keyVars
<1>2. ASSUME NEW t \in Ops, CountFailure(t) PROVE Plain'
  <2>1. Same /\ UNCHANGED auditVars /\ fails' = fails + 1
    BY <1>2 DEF CountFailure
  <2> QED
    BY <2>1, PlainKept DEF Plain, Same, pageVars, fileVars, keyVars
<1>3. ASSUME NEW t \in Ops, LogFailure(t) \/ Serve(t) PROVE Plain'
  <2>1. Same /\ Logs(t) /\ UNCHANGED fails
    BY <1>3 DEF LogFailure, Serve, Logs, Lists, meterVars
  <2> QED
    BY <2>1, PlainKept DEF Plain, Same, pageVars, fileVars, keyVars
<1>4. ASSUME NEW t \in Ops, FileStep(t), UNCHANGED <<running, mounted, pageVars, keyVars, requestVars, meterVars>>
      PROVE  Plain'
  <2>1. Logs(t) /\ plan' = plan /\ met' \subseteq Ops
    BY <1>4, FileLogs, FilePlain DEF Plain
  <2> QED
    BY <1>4, <2>1, PlainKept DEF Plain, pageVars, keyVars, meterVars
<1>5. ASSUME NEW t \in Ops, KeyStep(t), UNCHANGED <<running, mounted, pageVars, fileVars, requestVars, meterVars>>
      PROVE  Plain'
  <2>1. Logs(t) /\ plan' = plan /\ untidy' \in BOOLEAN
    BY <1>5, KeyLogs, KeyPlain DEF Plain
  <2> QED
    BY <1>5, <2>1, PlainKept DEF Plain, pageVars, fileVars, meterVars
<1>6. ASSUME NEW t \in Ops, (\E g \in Pages : AuditLength(t, g)) \/ AuditRange(t),
             UNCHANGED <<running, mounted, fileVars, keyVars, requestVars, meterVars>>
      PROVE  Plain'
  <2>1. /\ plan' = plan /\ UNCHANGED auditVars
        /\ mounted' = mounted /\ untidy' = untidy /\ met' = met /\ fails' = fails
    BY <1>6 DEF AuditLength, AuditRange, fileVars, keyVars, meterVars
  <2>2. asked' \in [Ops -> [list : Lists, offset : Nat, total : Nat, known : Nat]]
    <3>1. CASE AuditRange(t)
      BY <3>1 DEF AuditRange, Plain
    <3>2. ASSUME NEW g \in Pages, AuditLength(t, g) PROVE asked' \in [Ops -> [list : Lists, offset : Nat, total : Nat, known : Nat]]
      <4>1. g.list \in Lists /\ g.offset \in Nat
        BY AuditAssumption DEF Pages
      <4>2. Len(events[g.list]) \in Nat /\ Len(trail[g.list]) \in Nat
        BY <4>1 DEF Logged, TailKept
      <4> QED
        BY <3>2, <4>1, <4>2 DEF AuditLength, Plain
    <3> QED
      BY <1>6, <3>1, <3>2
  <2> QED
    BY <2>1, <2>2 DEF Plain, auditVars
<1>7. CASE Tick
  BY <1>7, PlainKept DEF Plain, Tick, Same, pageVars, fileVars, keyVars
<1>8. ASSUME NEW p \in Procs, Restart(p), UNCHANGED <<mounted, pageVars, keyVars, requestVars, meterVars>>
      PROVE  Plain'
  BY <1>8, PlainKept DEF Plain, Restart, pageVars, fileVars, keyVars, meterVars
<1>9. CASE UNCHANGED gateVars
  BY <1>9, PlainKept DEF Plain, gateVars, pageVars, fileVars, keyVars, meterVars
<1> QED
  BY <1>1, <1>2, <1>3, <1>4, <1>5, <1>6, <1>7, <1>8, <1>9 DEF Next, Step

(* The gate as a whole stays well-typed: a key's entry is a scope of models *)
(* or absent, whatever is rotated; the file holds a document, a torn one or *)
(* none, whatever saves overlap; a process serves a registry or none; lists *)
(* hold events; and a request gets a declared model or none.                *)
THEOREM GateTyped == Spec => []TypeOK
<1> DEFINE Whole == Plain /\ Logged /\ Counted /\ KeysKept /\ FileKept /\ Scoped /\ Counting
<1>1. Init => Whole
  BY PlainInit, LoggedInit, CountedInit, KeysInit, FileInit, ScopedInit, CountingInit
<1>2. Whole /\ [Next]_gateVars => Whole'
  BY PlainStep, LoggedStep, CountedStep, KeysStep, FileStepKept, ScopedStep, CountingStep
<1>3. Whole => TypeOK
  <2> SUFFICES ASSUME Whole PROVE TypeOK
    OBVIOUS
  <2>1. /\ events \in [Lists -> Seq(Ops)] /\ trail \in [Lists -> Seq(Ops)] /\ page \in [Ops -> Seq(Ops)]
    BY DEF Plain, Logged, TailKept, Shaped
  <2>2. issued \subseteq Keys /\ revoked \subseteq Keys
    BY DEF Counting, Sound, Made
  <2>3. \A k \in Keys : {keys[k], root[k]} \subseteq KeyEntries \cup {NoEntry}
    BY DEF KeysKept, KeysTyped
  <2>4. clock \in Nat /\ window \in [Ops -> Nat]
    BY GateAssumption DEF Counted
  <2> QED
    BY <2>1, <2>2, <2>3, <2>4
       DEF TypeOK, Plain, Counted, KeysKept, KeysTyped, FileKept, FileTyped, Scoped, ScopeTyped
<1> QED
  BY <1>1, <1>2, <1>3, PTL DEF Spec
=============================================================================
