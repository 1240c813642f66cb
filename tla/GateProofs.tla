----------------------------- MODULE GateProofs -----------------------------
(***************************************************************************)
(* Proofs about the gate for any number of requests, processes, keys,      *)
(* models, windows and deployments.                                        *)
(***************************************************************************)
EXTENDS Gate, WellFoundedInduction, TLAPS

(* Where the steps of a save, of a key operation and of a page lead.        *)
LEMMA FileMoves ==
  ASSUME NEW t \in Ops, FileStep(t)
  PROVE  \E s \in Saving \cup Over \cup {"saved"} : Goto(t, s)
<1> USE DEF Saving, Over
<1>1. ASSUME NEW p \in Procs, NEW d \in Docs \cup {NoId}, BeginSave(t, p, d)
      PROVE  \E s \in Saving \cup Over \cup {"saved"} : Goto(t, s)
  BY <1>1 DEF BeginSave
<1>2. CASE WriteTemp(t)
  BY <1>2 DEF WriteTemp
<1>3. CASE Replace(t)
  BY <1>3 DEF Replace
<1>4. CASE ReadBack(t)
  BY <1>4 DEF ReadBack
<1>5. CASE Truncate(t)
  BY <1>5 DEF Truncate, NotWritten
<1>6. CASE WriteDoc(t)
  BY <1>6 DEF WriteDoc, NotWritten
<1>7. CASE Restore(t)
  BY <1>7 DEF Restore
<1>8. CASE SaveFails(t)
  BY <1>8 DEF SaveFails
<1>9. CASE LogSave(t)
  BY <1>9 DEF LogSave
<1> QED
  BY <1>1, <1>2, <1>3, <1>4, <1>5, <1>6, <1>7, <1>8, <1>9 DEF FileStep

LEMMA KeyMoves ==
  ASSUME NEW t \in Ops, KeyStep(t)
  PROVE  \E s \in KeyStages \cup Over \cup {"logKey"} : Goto(t, s)
<1> USE DEF KeyStages, Over
<1>1. ASSUME NEW p \in Procs, NEW s \in Scopes, Issue(t, p, s)
      PROVE  \E u \in KeyStages \cup Over \cup {"logKey"} : Goto(t, u)
  BY <1>1 DEF Issue
<1>2. ASSUME NEW p \in Procs, NEW k \in Keys, RotateRead(t, p, k)
      PROVE  \E u \in KeyStages \cup Over \cup {"logKey"} : Goto(t, u)
  BY <1>2 DEF RotateRead
<1>3. ASSUME NEW p \in Procs, NEW k \in Keys, Revoke(t, p, k)
      PROVE  \E u \in KeyStages \cup Over \cup {"logKey"} : Goto(t, u)
  BY <1>3 DEF Revoke
<1>4. CASE StoreIssued(t)
  BY <1>4 DEF StoreIssued
<1>5. CASE StoreRotated(t)
  BY <1>5 DEF StoreRotated
<1>6. CASE RemoveOld(t)
  BY <1>6 DEF RemoveOld
<1>7. CASE LogKey(t)
  BY <1>7 DEF LogKey
<1>8. CASE KeyFails(t)
  BY <1>8 DEF KeyFails
<1> QED
  BY <1>1, <1>2, <1>3, <1>4, <1>5, <1>6, <1>7, <1>8 DEF KeyStep

LEMMA PageMoves ==
  ASSUME NEW t \in Ops, (\E g \in Pages : AuditLength(t, g)) \/ AuditRange(t)
  PROVE  \E s \in {"range", "done"} : Goto(t, s)
BY DEF AuditLength, AuditRange

-----------------------------------------------------------------------------
(* The strengthening for the limit: a request is only counted for a key the *)
(* app has had, and every request let through since the window of the clock *)
(* began is in a counter that has not expired since.                        *)
Counted ==
  /\ pc \in [Ops -> Stages]
  /\ clock \in 0..MaxWindow
  /\ window \in [Ops -> 0..MaxWindow]
  /\ counts \in [0..MaxWindow -> [Keys -> Nat]]
  /\ admitted \in [Keys -> [0..MaxWindow -> Nat]]
  /\ call \in [Ops -> Requests]
  /\ \A t \in Ops : pc[t] \in {"window", "count"} => call[t].key \in Keys
  /\ \A k \in Keys, w \in 0..MaxWindow : admitted[k][w] <= counts[w][k]
  /\ WindowHolds

LEMMA CountedInit == Init => Counted
<1> SUFFICES ASSUME Init PROVE Counted
  OBVIOUS
<1>1. PICK b \in Boot : clock = b.clock
  BY DEF Init
<1>2. clock \in 0..MaxWindow /\ MaxWindow \in Nat /\ Limit \in Nat
  BY <1>1, GateAssumption
<1>3. pc \in [Ops -> Stages] /\ window \in [Ops -> 0..MaxWindow]
      /\ admitted \in [Keys -> [0..MaxWindow -> Nat]]
  BY <1>2 DEF Init, Stages
<1>4. counts \in [0..MaxWindow -> [Keys -> Nat]]
  BY DEF Init
<1>5. call \in [Ops -> Requests]
  BY DEF Init, Requests, Keys
<1>6. First \in Keys /\ \A t \in Ops : call[t].key = First
  BY DEF Init, Keys
<1>7. \A k \in Keys, w \in 0..MaxWindow : admitted[k][w] = 0 /\ counts[w][k] = 0
  BY <1>2 DEF Init
<1> QED
  BY <1>2, <1>3, <1>4, <1>5, <1>6, <1>7 DEF Counted, WindowHolds

(* A step of another kind leaves the counters alone, and goes to no stage   *)
(* where a request is counted.                                              *)
LEMMA CountedElsewhere ==
  ASSUME Counted, pc' \in [Ops -> Stages],
         \A t \in Ops : pc'[t] \in {"window", "count"} => pc[t] = pc'[t],
         UNCHANGED <<call, window, clock, counts, admitted>>
  PROVE  Counted'
BY DEF Counted, WindowHolds

LEMMA Moved ==
  ASSUME NEW t \in Ops, NEW s \in Stages, pc \in [Ops -> Stages], Goto(t, s)
  PROVE  /\ pc' \in [Ops -> Stages]
         /\ pc'[t] = s
         /\ \A u \in Ops \ {t} : pc'[u] = pc[u]
BY DEF Goto

LEMMA Zeroes == [k \in Keys |-> [w \in 0..MaxWindow |-> 0]] \in [Keys -> [0..MaxWindow -> Nat]]
OBVIOUS

LEMMA CountedStep == Counted /\ [Next]_gateVars => Counted'
<1> SUFFICES ASSUME Counted, [Next]_gateVars PROVE Counted'
  OBVIOUS
<1> USE DEF Same
<1>0. pc \in [Ops -> Stages]
  BY DEF Counted
<1>1. ASSUME NEW t \in Ops, NEW p \in Procs, NEW c \in Calls, Authenticate(t, p, c)
      PROVE  Counted'
  <2>1. c \in Requests
    BY GateAssumption
  <2>2. call' = [call EXCEPT ![t] = c] /\ UNCHANGED <<window, clock, counts, admitted>>
    BY <1>1 DEF Authenticate, meterVars
  <2>3. CASE c.key \in Live
    <3>1. Goto(t, "window") /\ c.key \in Keys
      BY <1>1, <2>3 DEF Authenticate, Live
    <3>2. "window" \in Stages
      BY DEF Stages
    <3> QED
      BY <2>1, <2>2, <3>1, <3>2, <1>0, Moved DEF Counted, WindowHolds
  <2>4. CASE c.key \notin Live
    <3>1. Goto(t, "punish")
      BY <1>1, <2>4 DEF Authenticate
    <3>2. "punish" \in Stages
      BY DEF Stages
    <3> QED
      BY <2>1, <2>2, <3>1, <3>2, <1>0, Moved DEF Counted, WindowHolds
  <2> QED
    BY <2>3, <2>4
<1>2. ASSUME NEW t \in Ops, ComputeWindow(t) PROVE Counted'
  <2>1. pc[t] = "window" /\ Goto(t, "count") /\ window' = [window EXCEPT ![t] = clock]
        /\ UNCHANGED <<call, clock, counts, admitted>>
    BY <1>2 DEF ComputeWindow, meterVars
  <2>2. "count" \in Stages
    BY DEF Stages
  <2> QED
    BY <2>1, <2>2, <1>0, Moved DEF Counted, WindowHolds
<1>3. ASSUME NEW t \in Ops, CountRequest(t) PROVE Counted'
  <2> DEFINE k == call[t].key
             w == window[t]
             over == counts'[w][k] > Limit
  <2>1. /\ k \in Keys /\ w \in 0..MaxWindow
        /\ counts' = [counts EXCEPT ![w][k] = @ + 1]
        /\ Goto(t, IF over THEN "failed" ELSE "resolve")
        /\ admitted' = IF over THEN admitted ELSE [admitted EXCEPT ![k][w] = @ + 1]
        /\ UNCHANGED <<call, window, clock>>
    BY <1>3 DEF CountRequest, Counted, requestVars
  <2>2. {"failed", "resolve"} \subseteq Stages
    BY DEF Stages, Over
  <2>3. pc' \in [Ops -> Stages] /\ \A u \in Ops : pc'[u] \in {"window", "count"} => pc[u] = pc'[u]
    BY <2>1, <2>2, <1>0, Moved
  <2>4. /\ counts' \in [0..MaxWindow -> [Keys -> Nat]]
        /\ counts'[w][k] = counts[w][k] + 1
        /\ \A v \in 0..MaxWindow, j \in Keys : counts[v][j] <= counts'[v][j]
    <3> DEFINE row == counts[w]
    <3>1. row \in [Keys -> Nat] /\ counts' = [counts EXCEPT ![w] = [row EXCEPT ![k] = row[k] + 1]]
      BY <2>1 DEF Counted
    <3>2. /\ [row EXCEPT ![k] = row[k] + 1] \in [Keys -> Nat]
          /\ \A j \in Keys : row[j] <= [row EXCEPT ![k] = row[k] + 1][j]
      BY <3>1, <2>1
    <3>3. counts \in [0..MaxWindow -> [Keys -> Nat]]
      BY DEF Counted
    <3> HIDE DEF w
    <3> QED
      BY <3>1, <3>2, <3>3, <2>1
  <2>5. CASE over
    <3>1. \A j \in Keys, v \in 0..MaxWindow :
            admitted[j][v] \in Nat /\ counts[v][j] \in Nat /\ counts'[v][j] \in Nat
      BY <2>4 DEF Counted
    <3> QED
      BY <2>1, <2>3, <2>4, <2>5, <3>1 DEF Counted, WindowHolds
  <2>6. CASE ~over
    <3> DEFINE bucket == admitted[k]
    <3>0. admitted \in [Keys -> [0..MaxWindow -> Nat]] /\ k \in Keys /\ w \in 0..MaxWindow
      BY <2>1 DEF Counted
    <3>f. counts'[w][k] <= Limit
      <4>1. counts'[w][k] \in Nat /\ Limit \in Nat
        BY <2>1, <2>4, GateAssumption
      <4> QED
        BY <2>6, <4>1
    <3>1. bucket \in [0..MaxWindow -> Nat] /\ admitted' = [admitted EXCEPT ![k] = [bucket EXCEPT ![w] = bucket[w] + 1]]
      BY <2>1, <2>6 DEF Counted
    <3> HIDE DEF k, w, over
    <3>2. [bucket EXCEPT ![w] = bucket[w] + 1] \in [0..MaxWindow -> Nat]
      <4>1. bucket[w] + 1 \in Nat
        BY <3>0, <3>1
      <4> HIDE DEF bucket
      <4> QED
        BY <3>1, <4>1
    <3>4. /\ admitted' \in [Keys -> [0..MaxWindow -> Nat]]
          /\ admitted'[k] = [bucket EXCEPT ![w] = bucket[w] + 1]
          /\ \A j \in Keys \ {k} : admitted'[j] = admitted[j]
      BY <3>1, <3>2, <3>0
    <3>5. ASSUME NEW j \in Keys, NEW v \in 0..MaxWindow
          PROVE  admitted'[j][v] <= counts'[v][j] /\ admitted'[j][v] <= Limit
      <4>0. counts \in [0..MaxWindow -> [Keys -> Nat]] /\ counts' \in [0..MaxWindow -> [Keys -> Nat]]
        BY <2>4 DEF Counted
      <4>c. /\ counts[v] \in [Keys -> Nat] /\ counts'[v] \in [Keys -> Nat]
            /\ admitted[j] \in [0..MaxWindow -> Nat]
        BY <3>0, <4>0
      <4>1. /\ admitted[j][v] \in Nat /\ counts[v][j] \in Nat /\ counts'[v][j] \in Nat
            /\ counts[v][j] <= counts'[v][j] /\ Limit \in Nat
        BY <2>4, <4>c, GateAssumption
      <4>b. admitted[j][v] <= counts[v][j] /\ admitted[j][v] <= Limit
        BY DEF Counted, WindowHolds
      <4>2. CASE j = k /\ v = w
        <5>1. admitted'[j][v] = admitted[j][v] + 1
          BY <3>1, <3>4, <4>2
        <5>2. counts'[v][j] <= Limit /\ counts'[v][j] = counts[v][j] + 1
          BY <2>4, <3>f, <4>2
        <5> HIDE DEF bucket
        <5> QED
          BY <4>1, <4>b, <5>1, <5>2
      <4>3. CASE ~(j = k /\ v = w)
        <5>1. admitted'[j][v] = admitted[j][v]
          BY <3>1, <3>4, <4>3
        <5> QED
          BY <4>1, <4>b, <5>1
      <4> QED
        BY <4>2, <4>3
    <3> QED
      BY <2>1, <2>3, <2>4, <3>4, <3>5 DEF Counted, WindowHolds
  <2> QED
    BY <2>5, <2>6
<1>4. ASSUME Tick PROVE Counted'
  <2>1. PICK expired \in SUBSET Buckets :
          counts' = [w \in 0..MaxWindow |->
                      [k \in Keys |-> IF <<w, k>> \in expired THEN 0 ELSE counts[w][k]]]
    BY <1>4 DEF Tick
  <2>2. /\ clock' = clock + 1 /\ clock < MaxWindow /\ clock \in 0..MaxWindow /\ MaxWindow \in Nat
        /\ admitted' = [k \in Keys |-> [w \in 0..MaxWindow |-> 0]]
        /\ UNCHANGED <<pc, call, window>>
    BY <1>4, GateAssumption DEF Tick, requestVars, Counted
  <2>3. counts' \in [0..MaxWindow -> [Keys -> Nat]]
    <3>1. \A w \in 0..MaxWindow, k \in Keys : counts[w][k] \in Nat
      BY DEF Counted
    <3>2. \A w \in 0..MaxWindow :
            [k \in Keys |-> IF <<w, k>> \in expired THEN 0 ELSE counts[w][k]] \in [Keys -> Nat]
      BY <3>1
    <3> QED
      BY <2>1, <3>2
  <2>4. clock' \in 0..MaxWindow
    BY <2>2
  <2>5. \A k \in Keys, w \in 0..MaxWindow : admitted'[k][w] = 0 /\ counts'[w][k] \in Nat
    BY <2>2, <2>3
  <2> QED
    BY <2>2, <2>3, <2>4, <2>5, Zeroes, GateAssumption DEF Counted, WindowHolds
<1>5. ASSUME NEW t \in Ops,
             CountFailure(t) \/ LogFailure(t) \/ Resolve(t) \/ Serve(t)
      PROVE  Counted'
  <2>1. UNCHANGED <<call, window, clock, counts, admitted>>
    BY <1>5 DEF CountFailure, LogFailure, Resolve, Serve, requestVars, meterVars
  <2>2. \E s \in {"failed", "tell", "refused", "serve", "done"} : Goto(t, s)
    BY <1>5 DEF CountFailure, LogFailure, Resolve, Serve
  <2>3. {"failed", "tell", "refused", "serve", "done"} \subseteq Stages
    BY DEF Stages, Over
  <2> QED
    BY <2>1, <2>2, <2>3, <1>0, Moved, CountedElsewhere
<1>6. ASSUME NEW t \in Ops,
             \/ (\E g \in Pages : AuditLength(t, g)) \/ AuditRange(t)
             \/ FileStep(t) \/ KeyStep(t),
             UNCHANGED <<requestVars, meterVars>>
      PROVE  Counted'
  <2> DEFINE Others == {"range", "done", "saved", "logKey"} \cup Saving \cup KeyStages \cup Over
  <2>1. UNCHANGED <<call, window, clock, counts, admitted>>
    BY <1>6 DEF requestVars, meterVars
  <2>2. \E s \in Others : Goto(t, s)
    BY <1>6, FileMoves, KeyMoves, PageMoves
  <2>3. Others \subseteq Stages /\ \A s \in Others : s \notin {"window", "count"}
    BY DEF Stages, Over, Saving, KeyStages
  <2> QED
    BY <2>1, <2>2, <2>3, <1>0, Moved, CountedElsewhere
<1>7. ASSUME NEW p \in Procs, Restart(p), UNCHANGED <<requestVars, meterVars>> PROVE Counted'
  <2>1. UNCHANGED <<call, window, clock, counts, admitted>>
    BY <1>7 DEF requestVars, meterVars
  <2>2. pc' = [t \in Ops |-> IF t \in Busy /\ home[t] = p THEN "dead" ELSE pc[t]]
    BY <1>7 DEF Restart
  <2>3. "dead" \in Stages
    BY DEF Stages, Over
  <2> QED
    BY <2>1, <2>2, <2>3, <1>0, CountedElsewhere
<1>8. CASE UNCHANGED gateVars
  BY <1>8, <1>0, CountedElsewhere DEF gateVars, requestVars, meterVars
<1> QED
  BY <1>1, <1>2, <1>3, <1>4, <1>5, <1>6, <1>7, <1>8 DEF Next, Step

(* In every window of the clock, the requests of a key that get through and *)
(* were counted in the same bucket, this window's or the one of an earlier  *)
(* window that they had computed, are never more than the limit, however    *)
(* many are under way between their clock and their count and whichever     *)
(* buckets expire meanwhile.                                                *)
THEOREM LimitHolds == Spec => []WindowHolds
<1>1. Counted => WindowHolds
  BY DEF Counted
<1> QED
  BY CountedInit, CountedStep, <1>1, PTL DEF Spec

-----------------------------------------------------------------------------
(* What is true of keys: one that is stored has the scope of its root, and  *)
(* what a rotation carries is the scope of the key it replaces.             *)
Made == {k \in Keys : root[k] # NoEntry}

KeysTyped ==
  /\ pc \in [Ops -> Stages]
  /\ keys \in [Keys -> KeyEntries \cup {NoEntry}]
  /\ root \in [Keys -> KeyEntries \cup {NoEntry}]
  /\ target \in [Ops -> Keys]
  /\ carried \in [Ops -> KeyEntries]

KeysRooted ==
  /\ \A k \in Live : keys[k] = root[k]
  /\ \A t \in Ops :
       /\ pc[t] \in {"idle", "storeIssued", "storeRotated"} => t \notin Made
       /\ pc[t] \in {"storeRotated", "removeOld"} => target[t] \in Made
       /\ pc[t] = "storeRotated" => carried[t] = root[target[t]]
       /\ pc[t] = "removeOld" => t \in Made

(* The keys in an order in which rotations only go upwards; the newest of   *)
(* all keys ever made is valid.                                             *)
Ordered(rank, newest) ==
  /\ rank \in [Keys -> Nat] /\ newest \in Live
  /\ \A k \in Made : rank[k] <= rank[newest]
  /\ \A t \in Ops : pc[t] = "removeOld" => rank[target[t]] < rank[t]

NewestIsValid == revoked = {} => \E rank \in [Keys -> Nat], newest \in Keys : Ordered(rank, newest)

KeysKept == KeysTyped /\ KeysRooted /\ NewestIsValid

LEMMA OpsAreKeys == Ops \subseteq Keys /\ First \in Keys /\ First \notin Ops
BY KeysAssumption DEF Keys

LEMMA KeysInit == Init => KeysKept
<1> SUFFICES ASSUME Init PROVE KeysKept
  OBVIOUS
<1>1. PICK b \in Boot : keys = [x \in Keys |-> IF x = First THEN b.entry ELSE NoEntry]
                     /\ root = [x \in Keys |-> IF x = First THEN b.entry ELSE NoEntry]
  BY DEF Init
<1>2. b.entry \in KeyEntries /\ b.entry # NoEntry
  BY GateAssumption, KeysAssumption
<1>3. pc = [t \in Ops |-> "idle"] /\ target = [t \in Ops |-> First]
      /\ carried = [t \in Ops |-> [models |-> {}, default |-> NoId]]
  BY DEF Init
<1>4. KeysTyped
  BY <1>1, <1>2, <1>3, OpsAreKeys DEF KeysTyped, Stages, KeyEntries
<1>5. Live = {First} /\ Made = {First}
  BY <1>1, <1>2, OpsAreKeys DEF Live, Made
<1>6. KeysRooted
  BY <1>1, <1>3, <1>5, OpsAreKeys DEF KeysRooted
<1>7. Ordered([k \in Keys |-> 0], First)
  BY <1>3, <1>5, OpsAreKeys DEF Ordered
<1> QED
  BY <1>4, <1>6, <1>7, OpsAreKeys DEF KeysKept, NewestIsValid

LEMMA KeysElsewhere ==
  ASSUME KeysKept, pc' \in [Ops -> Stages], UNCHANGED <<keys, root, target, carried, revoked>>,
         \A t \in Ops : \/ pc'[t] = pc[t]
                       \/ pc'[t] \notin {"idle", "storeIssued", "storeRotated", "removeOld"}
  PROVE  KeysKept'
<1>1. KeysTyped'
  BY DEF KeysKept, KeysTyped
<1>2. Live' = Live /\ Made' = Made
  BY DEF Live, Made
<1>3. KeysRooted'
  BY <1>2 DEF KeysKept, KeysRooted
<1>4. NewestIsValid'
  BY <1>2 DEF KeysKept, NewestIsValid, Ordered
<1> QED
  BY <1>1, <1>3, <1>4 DEF KeysKept

(* A key is stored: it becomes the newest. *)
LEMMA KeyStored ==
  ASSUME KeysKept, NEW t \in Ops, NEW scope \in KeyEntries, NEW stage \in {"logKey", "removeOld", "failed"},
         t \notin Made,
         keys' = [keys EXCEPT ![t] = scope], root' = [root EXCEPT ![t] = scope],
         stage = "removeOld" => target[t] \in Made,
         Goto(t, stage), UNCHANGED <<target, carried, revoked>>
  PROVE  KeysKept'
<1>1. scope # NoEntry /\ t \in Keys
  BY KeysAssumption, OpsAreKeys
<1>2. KeysTyped'
  <2>1. stage \in Stages
    BY DEF Stages, KeyStages, Over
  <2> QED
    BY <2>1, <1>1, Moved DEF KeysKept, KeysTyped
<1>3. Live' = Live \cup {t} /\ Made' = Made \cup {t} /\ \A k \in Keys \ {t} : keys'[k] = keys[k] /\ root'[k] = root[k]
  BY <1>1 DEF KeysKept, KeysTyped, Live, Made
<1>4. pc'[t] = stage /\ \A u \in Ops \ {t} : pc'[u] = pc[u]
  BY Moved DEF KeysKept, KeysTyped, Goto
<1>5. KeysRooted'
  <2>1. \A k \in Live' : keys'[k] = root'[k]
    BY <1>1, <1>3 DEF KeysKept, KeysTyped, KeysRooted, Live
  <2>2. ASSUME NEW u \in Ops
        PROVE  /\ pc'[u] \in {"idle", "storeIssued", "storeRotated"} => u \notin Made'
               /\ pc'[u] \in {"storeRotated", "removeOld"} => target'[u] \in Made'
               /\ pc'[u] = "storeRotated" => carried'[u] = root'[target'[u]]
               /\ pc'[u] = "removeOld" => u \in Made'
    <3>1. CASE u = t
      BY <3>1, <1>3, <1>4
    <3>2. CASE u # t
      BY <3>2, <1>3, <1>4 DEF KeysKept, KeysRooted, KeysTyped
    <3> QED
      BY <3>1, <3>2
  <2> QED
    BY <2>1, <2>2 DEF KeysRooted
<1>6. NewestIsValid'
  <2> SUFFICES ASSUME revoked' = {}
               PROVE  \E rank \in [Keys -> Nat], newest \in Keys : Ordered(rank, newest)'
    BY DEF NewestIsValid
  <2>1. PICK rank \in [Keys -> Nat], newest \in Keys : Ordered(rank, newest)
    BY DEF KeysKept, NewestIsValid
  <2> DEFINE higher == [rank EXCEPT ![t] = rank[newest] + 1]
  <2>2. higher \in [Keys -> Nat] /\ higher[t] = rank[newest] + 1 /\ rank[newest] \in Nat
        /\ \A k \in Keys \ {t} : higher[k] = rank[k]
    BY <1>1, <2>1
  <2> HIDE DEF higher
  <2>3. \A k \in Made' : higher[k] <= higher[t]
    BY <1>3, <2>1, <2>2 DEF Ordered, Made
  <2>4. ASSUME NEW u \in Ops, pc'[u] = "removeOld" PROVE higher[target'[u]] < higher[u]
    <3>1. target'[u] \in Made /\ target'[u] \in Keys \ {t} /\ rank[target'[u]] <= rank[newest]
      BY <1>4, <2>4, <2>1 DEF KeysKept, KeysRooted, Ordered, Made
    <3>2. CASE u = t
      BY <3>1, <3>2, <2>2
    <3>3. CASE u # t
      BY <3>1, <3>3, <2>1, <2>2, <2>4, <1>4, OpsAreKeys DEF Ordered
    <3> QED
      BY <3>2, <3>3
  <2>5. t \in Live'
    BY <1>3
  <2>6. Ordered(higher, t)'
    BY <2>2, <2>3, <2>4, <2>5 DEF Ordered
  <2> QED
    BY <2>2, <2>6, <1>1
<1> QED
  BY <1>2, <1>5, <1>6 DEF KeysKept

(* A key is removed: one that was revoked, or one that was rotated into a   *)
(* newer key.                                                               *)
LEMMA KeyRemoved ==
  ASSUME KeysKept, NEW t \in Ops, NEW k \in Keys, NEW stage \in {"logKey", "warned"},
         keys' = [keys EXCEPT ![k] = NoEntry],
         \/ pc[t] = "removeOld" /\ k = target[t] /\ revoked' = revoked
         \/ revoked' # {},
         Goto(t, stage), UNCHANGED <<root, target, carried>>
  PROVE  KeysKept'
<1>1. KeysTyped'
  <2>1. stage \in Stages
    BY DEF Stages, Over
  <2> QED
    BY <2>1, Moved DEF KeysKept, KeysTyped
<1>2. Live' = Live \ {k} /\ Made' = Made /\ \A j \in Keys \ {k} : keys'[j] = keys[j]
  BY DEF KeysKept, KeysTyped, Live, Made
<1>3. pc'[t] = stage /\ \A u \in Ops \ {t} : pc'[u] = pc[u]
  BY DEF KeysKept, KeysTyped, Goto
<1>4. KeysRooted'
  <2>1. \A j \in Live' : keys'[j] = root'[j]
    BY <1>2 DEF KeysKept, KeysRooted, Live
  <2> QED
    BY <2>1, <1>2, <1>3 DEF KeysKept, KeysRooted
<1>5. NewestIsValid'
  <2> SUFFICES ASSUME revoked' = {}
               PROVE  \E rank \in [Keys -> Nat], newest \in Keys : Ordered(rank, newest)'
    BY DEF NewestIsValid
  <2>1. pc[t] = "removeOld" /\ k = target[t] /\ revoked = {}
    OBVIOUS
  <2>2. PICK rank \in [Keys -> Nat], newest \in Keys : Ordered(rank, newest)
    BY <2>1 DEF KeysKept, NewestIsValid
  <2>3. t \in Made /\ rank[k] < rank[t] /\ rank[t] <= rank[newest]
    BY <2>1, <2>2 DEF KeysKept, KeysRooted, Ordered
  <2>4. newest # k
    BY <2>2, <2>3, OpsAreKeys
  <2>5. Ordered(rank, newest)'
    BY <2>2, <2>4, <1>2, <1>3 DEF Ordered
  <2> QED
    BY <2>2, <2>5
<1> QED
  BY <1>1, <1>4, <1>5 DEF KeysKept

LEMMA KeysStep == KeysKept /\ [Next]_gateVars => KeysKept'
<1> SUFFICES ASSUME KeysKept, [Next]_gateVars PROVE KeysKept'
  OBVIOUS
<1> USE DEF Same
<1>0. pc \in [Ops -> Stages]
  BY DEF KeysKept, KeysTyped
<1>1. ASSUME NEW t \in Ops, NEW p \in Procs, NEW s \in Scopes, Issue(t, p, s) PROVE KeysKept'
  <2>1. /\ pc[t] = "idle" /\ carried' = [carried EXCEPT ![t] = s] /\ s \in KeyEntries
        /\ Goto(t, "storeIssued") /\ UNCHANGED <<keys, target, root, revoked>>
    BY <1>1, KeysAssumption DEF Issue
  <2>2. "storeIssued" \in Stages
    BY DEF Stages, KeyStages
  <2>3. KeysTyped'
    BY <2>1, <2>2, Moved DEF KeysKept, KeysTyped
  <2>4. Live' = Live /\ Made' = Made
    BY <2>1 DEF Live, Made
  <2>5. pc'[t] = "storeIssued" /\ \A u \in Ops \ {t} : pc'[u] = pc[u] /\ carried'[u] = carried[u]
    BY <2>1, <1>0 DEF Goto, KeysKept, KeysTyped
  <2>6. KeysRooted'
    BY <2>1, <2>4, <2>5 DEF KeysKept, KeysRooted
  <2>7. NewestIsValid'
    BY <2>1, <2>4, <2>5 DEF KeysKept, NewestIsValid, Ordered
  <2> QED
    BY <2>3, <2>6, <2>7 DEF KeysKept
<1>2. ASSUME NEW t \in Ops, NEW p \in Procs, NEW k \in Keys, RotateRead(t, p, k) PROVE KeysKept'
  <2>1. /\ pc[t] = "idle" /\ carried' = [carried EXCEPT ![t] = keys[k]]
        /\ target' = [target EXCEPT ![t] = k] /\ k \in Live
        /\ Goto(t, "storeRotated") /\ UNCHANGED <<keys, root, revoked>>
    BY <1>2 DEF RotateRead
  <2>2. "storeRotated" \in Stages /\ keys[k] \in KeyEntries
    BY <2>1 DEF Stages, KeyStages, KeysKept, KeysTyped, Live
  <2>3. KeysTyped'
    BY <2>1, <2>2, Moved DEF KeysKept, KeysTyped
  <2>4. Live' = Live /\ Made' = Made
    BY <2>1 DEF Live, Made
  <2>5. /\ pc'[t] = "storeRotated" /\ target'[t] = k /\ carried'[t] = keys[k]
        /\ \A u \in Ops \ {t} : pc'[u] = pc[u] /\ carried'[u] = carried[u] /\ target'[u] = target[u]
    BY <2>1, <1>0 DEF Goto, KeysKept, KeysTyped
  <2>6. keys[k] = root[k] /\ k \in Made
    BY <2>1, <2>2, KeysAssumption DEF KeysKept, KeysRooted, Made
  <2>7. KeysRooted'
    BY <2>1, <2>4, <2>5, <2>6 DEF KeysKept, KeysRooted
  <2>8. NewestIsValid'
    BY <2>1, <2>4, <2>5 DEF KeysKept, NewestIsValid, Ordered
  <2> QED
    BY <2>3, <2>7, <2>8 DEF KeysKept
<1>3. ASSUME NEW t \in Ops, StoreIssued(t) PROVE KeysKept'
  <2>1. carried[t] \in KeyEntries /\ t \notin Made
    BY <1>3 DEF StoreIssued, KeysKept, KeysTyped, KeysRooted
  <2> QED
    BY <1>3, <2>1, KeyStored DEF StoreIssued
<1>4. ASSUME NEW t \in Ops, StoreRotated(t) PROVE KeysKept'
  <2>1. carried[t] \in KeyEntries /\ t \notin Made /\ target[t] \in Made /\ carried[t] = root[target[t]]
    BY <1>4 DEF StoreRotated, KeysKept, KeysTyped, KeysRooted
  <2> QED
    BY <1>4, <2>1, KeyStored DEF StoreRotated
<1>5. ASSUME NEW t \in Ops, RemoveOld(t) PROVE KeysKept'
  <2>1. target[t] \in Keys /\ pc[t] = "removeOld" /\ UNCHANGED <<root, target, carried, issued, revoked>>
    BY <1>5 DEF RemoveOld, KeysKept, KeysTyped
  <2>2. CASE keys' = [keys EXCEPT ![target[t]] = NoEntry]
    BY <1>5, <2>1, <2>2, KeyRemoved DEF RemoveOld
  <2>3. CASE keys' = keys /\ Goto(t, "warned")
    <3>1. "warned" \in Stages
      BY DEF Stages, Over
    <3>2. KeysTyped'
      BY <2>1, <2>3, <3>1, <1>0, Moved DEF KeysKept, KeysTyped
    <3>3. Live' = Live /\ Made' = Made
      BY <2>1, <2>3 DEF Live, Made
    <3>4. pc'[t] = "warned" /\ \A u \in Ops \ {t} : pc'[u] = pc[u]
      BY <2>3, <1>0 DEF Goto
    <3>5. KeysRooted'
      BY <2>1, <2>3, <3>3, <3>4 DEF KeysKept, KeysRooted
    <3>6. NewestIsValid'
      BY <2>1, <2>3, <3>3, <3>4 DEF KeysKept, NewestIsValid, Ordered
    <3> QED
      BY <3>2, <3>5, <3>6 DEF KeysKept
  <2> QED
    BY <1>5, <2>2, <2>3 DEF RemoveOld
<1>6. ASSUME NEW t \in Ops, NEW p \in Procs, NEW k \in Keys, Revoke(t, p, k) PROVE KeysKept'
  BY <1>6, KeyRemoved DEF Revoke
<1>7. ASSUME NEW t \in Ops, LogKey(t) \/ KeyFails(t) PROVE KeysKept'
  <2>1. CASE UNCHANGED <<keys, root>>
    <3>1. /\ UNCHANGED <<keys, root, target, carried, revoked>>
          /\ \E s \in {"done", "failed"} : Goto(t, s)
      BY <1>7, <2>1 DEF LogKey, KeyFails, keyVars
    <3>2. {"done", "failed"} \subseteq Stages
      BY DEF Stages, Over
    <3> QED
      BY <3>1, <3>2, <1>0, Moved, KeysElsewhere
  <2>2. CASE ~UNCHANGED <<keys, root>>
    <3>1. /\ pc[t] \in {"storeIssued", "storeRotated"} /\ Goto(t, "failed")
          /\ keys' = [keys EXCEPT ![t] = carried[t]]
          /\ root' = [root EXCEPT ![t] = IF pc[t] = "storeIssued" THEN carried[t] ELSE root[target[t]]]
          /\ UNCHANGED <<target, carried, revoked>>
      BY <1>7, <2>2 DEF LogKey, KeyFails, keyVars
    <3>2. carried[t] \in KeyEntries /\ t \notin Made
          /\ (pc[t] = "storeRotated" => carried[t] = root[target[t]])
      BY <3>1 DEF KeysKept, KeysTyped, KeysRooted
    <3>3. root' = [root EXCEPT ![t] = carried[t]]
      BY <3>1, <3>2
    <3> QED
      BY <3>1, <3>2, <3>3, KeyStored
  <2> QED
    BY <2>1, <2>2
<1>8. ASSUME NEW t \in Ops, NEW s \in Stages \ {"idle", "storeIssued", "storeRotated", "removeOld"},
             Goto(t, s), UNCHANGED keyVars
      PROVE  KeysKept'
  BY <1>8, <1>0, Moved, KeysElsewhere DEF keyVars
<1>9. ASSUME NEW t \in Ops, NEW p \in Procs, NEW c \in Calls, Authenticate(t, p, c) PROVE KeysKept'
  <2>1. UNCHANGED keyVars /\ \E s \in {"window", "punish"} : Goto(t, s)
    BY <1>9 DEF Authenticate
  <2> QED
    BY <2>1, <1>8 DEF Stages
<1>10. ASSUME NEW t \in Ops, CountFailure(t) \/ LogFailure(t) \/ ComputeWindow(t)
                              \/ CountRequest(t) \/ Resolve(t) \/ Serve(t)
       PROVE  KeysKept'
  <2>1. UNCHANGED keyVars /\ \E s \in {"failed", "tell", "count", "resolve", "refused", "serve", "done"} : Goto(t, s)
    BY <1>10 DEF CountFailure, LogFailure, ComputeWindow, CountRequest, Resolve, Serve
  <2> QED
    BY <2>1, <1>8 DEF Stages, Over
<1>11. ASSUME NEW t \in Ops, (\E g \in Pages : AuditLength(t, g)) \/ AuditRange(t) \/ FileStep(t),
              UNCHANGED keyVars
       PROVE  KeysKept'
  <2>1. \E s \in {"range", "done", "saved"} \cup Saving \cup Over : Goto(t, s)
    BY <1>11, FileMoves, PageMoves
  <2> QED
    BY <1>11, <2>1, <1>8 DEF Stages, Over, Saving
<1>12. CASE Tick
  BY <1>12, <1>0, KeysElsewhere DEF Tick, keyVars
<1>13. ASSUME NEW p \in Procs, Restart(p), UNCHANGED keyVars PROVE KeysKept'
  <2>1. pc' = [t \in Ops |-> IF t \in Busy /\ home[t] = p THEN "dead" ELSE pc[t]]
    BY <1>13 DEF Restart
  <2>2. "dead" \in Stages
    BY DEF Stages, Over
  <2> QED
    BY <1>13, <2>1, <2>2, <1>0, KeysElsewhere DEF keyVars
<1>14. CASE UNCHANGED gateVars
  BY <1>14, <1>0, KeysElsewhere DEF gateVars, keyVars
<1>15. ASSUME NEW t \in Ops, KeyStep(t) PROVE KeysKept'
  BY <1>15, <1>1, <1>2, <1>3, <1>4, <1>5, <1>6, <1>7 DEF KeyStep
<1>16. ASSUME NEW t \in Ops, Step(t) PROVE KeysKept'
  BY <1>16, <1>9, <1>10, <1>11, <1>15 DEF Step
<1> QED
  BY <1>12, <1>13, <1>14, <1>16 DEF Next

(* However many rotations of however many keys overlap, fail between their  *)
(* calls or die with their process, the app keeps a valid key as long as    *)
(* nobody revokes one.                                                      *)
THEOREM NobodyLockedOut == Spec => []NeverLockedOut
<1>1. KeysKept => NeverLockedOut
  BY DEF KeysKept, NewestIsValid, Ordered, NeverLockedOut
<1> QED
  BY KeysInit, KeysStep, <1>1, PTL DEF Spec

-----------------------------------------------------------------------------
(* The registry: what loading a file can give. *)
LEMMA BuildTyped ==
  ASSUME NEW d \in Documents
  PROVE  Build(d) = Refused \/ Build(d) \in Registries
<1> SUFFICES ASSUME Valid(d) PROVE Build(d) \in Registries
  BY DEF Build
<1> DEFINE default == Or(d.default, d.entries[1].id)
<1>1. d.entries \in Seq(Entries) /\ Len(d.entries) \in Nat /\ d.entries # <<>>
      /\ DOMAIN d.entries = 1..Len(d.entries)
  BY DEF Documents, Valid
<1>2. 1 \in DOMAIN d.entries
  BY <1>1
<1>3. \A i \in DOMAIN d.entries : d.entries[i].id \in Ids
  <2>1. \A i \in DOMAIN d.entries : d.entries[i] \in Entries
    BY <1>1
  <2>2. \A e \in Entries : e.id \in Ids
    BY DEF Entries
  <2> QED
    BY <2>1, <2>2
<1>4. default \in Ids /\ [r \in Roles |-> Or(d.roles[r], default)] \in [Roles -> Ids]
  BY <1>2, <1>3 DEF Documents, Or
<1>5. [i \in DOMAIN d.entries |-> d.entries[i].id] \in Seq(Ids)
  BY <1>1, <1>3
<1> QED
  BY <1>4, <1>5 DEF Build, Registries

LEMMA LoadTyped ==
  ASSUME NEW c \in Contents
  PROVE  Load(c) \subseteq Registries \cup {Refused}
<1>1. Synthesized \in Registries
  BY RegistryAssumption DEF Synthesized, Registries
<1>2. c \in Docs => Build(c) \in Registries \cup {Refused}
  BY BuildTyped, FileAssumption
<1> QED
  BY <1>1, <1>2 DEF Load, Contents

LEMMA BootsFrom ==
  /\ Refused \notin Load(Absent)
  /\ \A d \in Docs : Refused \notin Load(d) <=> Build(d) # Refused
<1>1. Synthesized \in Registries
  BY RegistryAssumption DEF Synthesized, Registries
<1> QED
  BY <1>1, RefusedAssumption, FileAssumption DEF Load

(* What is true of saves: a document on its way to the file has passed      *)
(* validation, only a mount point is written in place, and a save that met  *)
(* no other one has left the content it found, or knows it as long as only  *)
(* one call has failed it.                                                  *)
InPlace == {"readBack", "truncate", "write", "restore"}

FileTyped ==
  /\ pc \in [Ops -> Stages]
  /\ file \in Contents /\ previous \in [Ops -> Contents \cup {Unread}] /\ found \in [Ops -> Contents]
  /\ errors \in [Ops -> Nat]
  /\ doc \in [Ops -> Docs \cup {NoId}]
  /\ running \in [Procs -> Registries \cup {Refused}]

SavesSound ==
  \A t \in Ops :
    /\ pc[t] \in InPlace \cup {"temp"} => doc[t] # NoId
    /\ pc[t] \in Saving => doc[t] = NoId \/ Build(doc[t]) # Refused
    /\ ~mounted => pc[t] \notin InPlace
    /\ pc[t] = "idle" => errors[t] = 0
    /\ pc[t] = "restore" => previous[t] # Unread

Knows(before, count, content) ==
  (before = content /\ count = 0) \/ (before = Unread /\ count = 1)

Undisturbed(t) ==
  /\ Savers = {t}
  /\ pc[t] \in {"temp", "replace", "readBack", "truncate"} => file = found[t]
  /\ pc[t] \in {"temp", "replace", "readBack"} => errors[t] = 0
  /\ pc[t] \in {"truncate", "write"} => Knows(previous[t], errors[t], found[t])
  /\ pc[t] = "restore" => previous[t] = found[t] /\ errors[t] = 1
  /\ pc[t] = "write" => file = Empty

FileKept ==
  /\ FileTyped /\ SavesSound /\ FileAlwaysBoots
  /\ \A t \in Savers \ met : Undisturbed(t)

LEMMA FileInit == Init => FileKept
<1> SUFFICES ASSUME Init PROVE FileKept
  OBVIOUS
<1>1. PICK b \in Boot :
        /\ mounted = b.mounted /\ file = b.file
        /\ running \in {[p \in Procs |-> r] : r \in Load(b.file) \ {Refused}}
  BY DEF Init
<1>2. file \in Contents /\ (~mounted => file \in Docs \cup {Absent})
  BY <1>1, GateAssumption DEF Contents
<1>3. PICK r \in Load(file) \ {Refused} : running = [p \in Procs |-> r]
  BY <1>1
<1>4. r \in Registries
  BY <1>2, <1>3, LoadTyped
<1>5. pc = [t \in Ops |-> "idle"] /\ doc = [t \in Ops |-> NoId]
      /\ previous = [t \in Ops |-> Empty] /\ found = previous
      /\ errors = [t \in Ops |-> 0]
  BY DEF Init
<1>6. FileTyped
  BY <1>2, <1>3, <1>4, <1>5 DEF FileTyped, Stages, Contents
<1>7. SavesSound /\ Savers = {}
  BY <1>5 DEF SavesSound, Savers, Saving, InPlace
<1>8. FileAlwaysBoots
  <2>1. ASSUME file \in Docs PROVE Refused \notin Load(file)
    BY <2>1, <1>3, FileAssumption DEF Load
  <2> QED
    BY <2>1, <1>2, BootsFrom DEF FileAlwaysBoots
<1> QED
  BY <1>6, <1>7, <1>8 DEF FileKept

LEMMA FileElsewhere ==
  ASSUME FileKept, pc' \in [Ops -> Stages], UNCHANGED <<mounted, fileVars>>,
         running' \in [Procs -> Registries \cup {Refused}],
         \A t \in Ops : pc'[t] = pc[t] \/ pc'[t] \notin Saving \cup {"idle"}
  PROVE  FileKept'
<1> USE DEF fileVars
<1>1. FileTyped' /\ FileAlwaysBoots'
  BY DEF FileKept, FileTyped, FileAlwaysBoots
<1>2. SavesSound'
  BY DEF FileKept, SavesSound, InPlace, Saving
<1>3. Savers' \subseteq Savers /\ \A t \in Savers' : pc'[t] = pc[t]
  BY DEF Savers
<1>4. ASSUME NEW t \in Savers' \ met' PROVE Undisturbed(t)'
  BY <1>3, <1>4 DEF FileKept, Undisturbed
<1> QED
  BY <1>1, <1>2, <1>4 DEF FileKept

(* The steps of one save, and what it makes of the file. *)
LEMMA SaveStep ==
  ASSUME FileKept, NEW t \in Ops, FileStep(t), UNCHANGED <<running, mounted>>
  PROVE  /\ FileKept'
         /\ t \notin met' /\ pc[t] \in Saving =>
              /\ pc'[t] = "saved" => file' = IF doc[t] = NoId THEN Absent ELSE doc[t]
              /\ pc'[t] = "failed" /\ errors'[t] = 1 => file' = found[t]
<1> DEFINE Outcome == t \notin met' /\ pc[t] \in Saving =>
                        /\ pc'[t] = "saved" => file' = IF doc[t] = NoId THEN Absent ELSE doc[t]
                        /\ pc'[t] = "failed" /\ errors'[t] = 1 => file' = found[t]
<1>0. /\ pc \in [Ops -> Stages] /\ FileTyped /\ SavesSound /\ FileAlwaysBoots
      /\ \A u \in Savers \ met : Undisturbed(u)
  BY DEF FileKept, FileTyped
<1>s. \A s \in Saving \cup {"saved", "done", "failed", "dead"} : s \in Stages
  BY DEF Stages, Over
<1>u. ASSUME NEW u \in Ops, u \notin met, pc[u] \in Saving PROVE Undisturbed(u) /\ Savers = {u}
  BY <1>u, <1>0 DEF Savers, Undisturbed
<1>1. ASSUME NEW p \in Procs, NEW d \in Docs \cup {NoId}, BeginSave(t, p, d)
      PROVE  FileKept' /\ Outcome
  <2>1. /\ pc[t] = "idle" /\ (d # NoId => Build(d) # Refused)
        /\ doc' = [doc EXCEPT ![t] = d] /\ found' = [found EXCEPT ![t] = file]
        /\ met' = IF Savers = {} THEN met ELSE met \cup Savers \cup {t}
        /\ Goto(t, IF d = NoId THEN "replace" ELSE "temp")
        /\ UNCHANGED <<file, previous, errors, mounted, running>>
    BY <1>1 DEF BeginSave
  <2>2. /\ pc' \in [Ops -> Stages] /\ pc'[t] = IF d = NoId THEN "replace" ELSE "temp"
        /\ \A u \in Ops \ {t} : pc'[u] = pc[u]
    BY <2>1, <1>0, <1>s, Moved DEF Saving
  <2>3. FileTyped' /\ FileAlwaysBoots'
    BY <2>1, <2>2, <1>0 DEF FileTyped, FileAlwaysBoots
  <2>4. SavesSound'
    BY <2>1, <2>2, <1>0 DEF SavesSound, InPlace, FileTyped
  <2>5. Savers' = Savers \cup {t} /\ t \notin Savers
    BY <2>1, <2>2 DEF Savers, Saving
  <2>6. ASSUME NEW u \in Savers' \ met' PROVE Undisturbed(u)'
    <3>1. Savers = {} /\ u = t /\ Savers' = {t}
      BY <2>1, <2>5, <2>6
    <3>2. found'[t] = file /\ errors'[t] = 0
      BY <2>1, <1>0 DEF FileTyped, SavesSound
    <3> QED
      BY <3>1, <3>2, <2>1, <2>2 DEF Undisturbed
  <2>7. FileKept'
    BY <2>3, <2>4, <2>6 DEF FileKept
  <2>8. pc[t] \notin Saving
    BY <2>1 DEF Saving
  <2> QED
    BY <2>7, <2>8
<1>2. ASSUME NEW s \in Saving \cup {"saved", "failed"}, pc[t] \in Saving,
             Goto(t, s), UNCHANGED <<doc, found, met, mounted, running>>,
             file' \in Contents, previous' \in [Ops -> Contents \cup {Unread}],
             \A u \in Ops \ {t} : previous'[u] = previous[u],
             OSError(t) \/ UNCHANGED errors,
             ~mounted => FileAlwaysBoots' /\ s \notin InPlace,
             s \in InPlace \cup {"temp"} => doc[t] # NoId,
             s = "restore" => previous'[t] # Unread,
             s \in Saving /\ t \notin met =>
               /\ s \in {"temp", "replace", "readBack", "truncate"} => file' = found[t]
               /\ s \in {"temp", "replace", "readBack"} => errors'[t] = 0
               /\ s \in {"truncate", "write"} => Knows(previous'[t], errors'[t], found[t])
               /\ s = "restore" => previous'[t] = found[t] /\ errors'[t] = 1
               /\ s = "write" => file' = Empty
      PROVE  FileKept'
  <2>1. pc' \in [Ops -> Stages] /\ pc'[t] = s /\ \A u \in Ops \ {t} : pc'[u] = pc[u]
    BY <1>2, <1>0, <1>s, Moved
  <2>e. errors' \in [Ops -> Nat] /\ \A u \in Ops \ {t} : errors'[u] = errors[u]
    BY <1>2, <1>0 DEF OSError, FileTyped
  <2>2. FileTyped' /\ FileAlwaysBoots'
    BY <1>2, <2>1, <2>e, <1>0 DEF FileTyped, FileAlwaysBoots
  <2>3. SavesSound'
    BY <1>2, <2>1, <2>e, <1>0 DEF SavesSound, InPlace, Saving
  <2>4. Savers' = IF s \in Saving THEN Savers ELSE Savers \ {t}
    BY <1>2, <2>1 DEF Savers
  <2>5. ASSUME NEW u \in Savers' \ met' PROVE Undisturbed(u)'
    <3>1. u \in Ops /\ u \notin met /\ pc[u] \in Saving /\ t \in Savers
      BY <1>2, <2>4, <2>5 DEF Savers
    <3>2. u = t /\ Savers = {t} /\ s \in Saving
      BY <3>1, <1>u, <2>4, <2>5
    <3> QED
      BY <3>1, <3>2, <1>2, <2>1, <2>4 DEF Undisturbed, Knows
  <2> QED
    BY <2>2, <2>3, <2>5 DEF FileKept
(* A call that fails adds one to the errors. *)
<1>e. ASSUME OSError(t) PROVE errors'[t] = errors[t] + 1 /\ errors[t] \in Nat
  BY <1>e, <1>0 DEF OSError, FileTyped
<1>n. Unread \notin Contents
  BY FileAssumption
(* A failed write on a mount point ends the save, or has it restored. *)
<1>w. ASSUME NotWritten(t), pc[t] \in {"truncate", "write"},
             UNCHANGED <<mounted, running, doc, previous, found, met>>,
             mounted, doc[t] # NoId, file' \in Contents,
             t \notin met => Knows(previous[t], errors[t], found[t])
      PROVE  FileKept' /\ Outcome
  <2>1. OSError(t) /\ previous \in [Ops -> Contents \cup {Unread}] /\ pc[t] \in Saving
    BY <1>w, <1>0 DEF NotWritten, FileTyped, Saving
  <2>2. CASE previous[t] = Unread
    <3>1. Goto(t, "failed") /\ pc'[t] = "failed"
      BY <1>w, <2>2, <1>0 DEF NotWritten, Goto
    <3>2. t \notin met => errors'[t] = 2
      <4>1. t \notin met => found[t] # Unread
        BY <1>0, <1>n DEF FileTyped
      <4> QED
        BY <1>w, <2>1, <2>2, <4>1, <1>e DEF Knows
    <3> QED
      BY <1>w, <2>1, <3>1, <3>2, <1>2 DEF Saving, InPlace
  <2>3. CASE previous[t] # Unread
    <3>1. Goto(t, "restore") /\ pc'[t] = "restore"
      BY <1>w, <2>3, <1>0 DEF NotWritten, Goto
    <3>2. t \notin met => previous[t] = found[t] /\ errors'[t] = 1
      BY <1>w, <2>1, <2>3, <1>e DEF Knows
    <3> QED
      BY <1>w, <2>1, <2>3, <3>1, <3>2, <1>2 DEF Saving, InPlace
  <2> QED
    BY <2>2, <2>3
<1>3. CASE WriteTemp(t)
  <2>1. /\ pc[t] = "temp" /\ Goto(t, "replace")
        /\ UNCHANGED <<mounted, running, file, doc, previous, errors, found, met>>
    BY <1>3 DEF WriteTemp, fileVars
  <2>2. t \notin met => file = found[t] /\ errors[t] = 0
    BY <2>1, <1>u DEF Undisturbed, Saving
  <2>3. pc'[t] = "replace"
    BY <2>1, <1>0, Moved DEF Goto
  <2> QED
    BY <2>1, <2>2, <2>3, <1>2, <1>0 DEF Saving, InPlace, FileTyped, FileAlwaysBoots
<1>4. CASE Replace(t)
  <2>1. pc[t] = "replace" /\ UNCHANGED <<mounted, running, doc, previous, errors, found, met>>
    BY <1>4 DEF Replace
  <2>2. CASE /\ ~mounted /\ file' = (IF doc[t] = NoId THEN Absent ELSE doc[t]) /\ Goto(t, "saved")
    <3>1. doc[t] \in Docs \cup {NoId} /\ (doc[t] # NoId => Build(doc[t]) # Refused)
      BY <2>1, <1>0 DEF SavesSound, Saving, FileTyped
    <3>2. file' \in Docs \cup {Absent} /\ Refused \notin Load(file')
      BY <2>2, <3>1, BootsFrom
    <3>3. pc'[t] = "saved"
      BY <2>2, <1>0 DEF Goto
    <3> QED
      BY <2>1, <2>2, <3>2, <3>3, <1>2, <1>0 DEF Saving, InPlace, FileTyped, FileAlwaysBoots, Contents
  <2>3. CASE mounted /\ doc[t] # NoId /\ Goto(t, "readBack") /\ file' = file
    <3>1. t \notin met => file = found[t] /\ errors[t] = 0
      BY <2>1, <1>u DEF Undisturbed, Saving
    <3>2. pc'[t] = "readBack"
      BY <2>3, <1>0 DEF Goto
    <3> QED
      BY <2>1, <2>3, <3>1, <3>2, <1>2, <1>0 DEF Saving, FileTyped
  <2> QED
    BY <1>4, <2>2, <2>3 DEF Replace
<1>5. CASE ReadBack(t)
  <2>1. /\ pc[t] = "readBack" /\ Goto(t, "truncate")
        /\ \/ previous' = [previous EXCEPT ![t] = file] /\ UNCHANGED errors
           \/ previous' = [previous EXCEPT ![t] = Unread] /\ OSError(t)
        /\ UNCHANGED <<mounted, running, file, doc, found, met>>
    BY <1>5 DEF ReadBack
  <2>2. t \notin met => file = found[t] /\ errors[t] = 0
    BY <2>1, <1>u DEF Undisturbed, Saving
  <2>3. pc'[t] = "truncate" /\ mounted /\ doc[t] # NoId
    BY <2>1, <1>0 DEF Goto, SavesSound, InPlace
  <2>4. /\ previous' \in [Ops -> Contents \cup {Unread}]
        /\ \A u \in Ops \ {t} : previous'[u] = previous[u]
    BY <2>1, <1>0 DEF FileTyped
  <2>5. t \notin met => Knows(previous'[t], errors'[t], found[t])
    BY <2>1, <2>2, <1>e, <1>0 DEF Knows, FileTyped
  <2> QED
    BY <2>1, <2>2, <2>3, <2>4, <2>5, <1>2, <1>0 DEF Saving, FileTyped
<1>6. CASE Truncate(t)
  <2>1. pc[t] = "truncate" /\ UNCHANGED <<mounted, running, doc, previous, found, met>>
    BY <1>6 DEF Truncate
  <2>2. t \notin met => file = found[t] /\ Knows(previous[t], errors[t], found[t])
    BY <2>1, <1>u DEF Undisturbed, Saving
  <2>3. mounted /\ doc[t] # NoId
    BY <2>1, <1>0 DEF SavesSound, InPlace
  <2>4. CASE Goto(t, "write") /\ file' = Empty /\ UNCHANGED errors
    <3>1. pc'[t] = "write"
      BY <2>4, <1>0 DEF Goto
    <3> QED
      BY <2>1, <2>2, <2>3, <2>4, <3>1, <1>2, <1>0 DEF Saving, FileTyped, Contents
  <2>5. CASE NotWritten(t) /\ file' = file
    BY <2>1, <2>2, <2>3, <2>5, <1>w, <1>0 DEF FileTyped
  <2> QED
    BY <1>6, <2>4, <2>5 DEF Truncate
<1>7. CASE WriteDoc(t)
  <2>1. pc[t] = "write" /\ UNCHANGED <<mounted, running, doc, previous, found, met>>
    BY <1>7 DEF WriteDoc
  <2>2. t \notin met => Knows(previous[t], errors[t], found[t]) /\ file = Empty
    BY <2>1, <1>u DEF Undisturbed, Saving
  <2>3. mounted /\ doc[t] # NoId /\ doc[t] \in Docs
    BY <2>1, <1>0 DEF SavesSound, InPlace, FileTyped
  <2>4. CASE /\ file' \in {doc[t]} \cup (IF file = Empty THEN {} ELSE {Torn})
             /\ Goto(t, "saved") /\ UNCHANGED errors
    <3>1. pc'[t] = "saved"
      BY <2>4, <1>0 DEF Goto
    <3> QED
      BY <2>1, <2>2, <2>3, <2>4, <3>1, <1>2, <1>0 DEF Saving, FileTyped, Contents
  <2>5. CASE file' \in {file, Torn, doc[t]} /\ NotWritten(t)
    <3>1. file' \in Contents
      BY <2>3, <2>5, <1>0 DEF FileTyped, Contents
    <3> QED
      BY <2>1, <2>2, <2>3, <2>5, <3>1, <1>w
  <2> QED
    BY <1>7, <2>4, <2>5 DEF WriteDoc
<1>8. CASE Restore(t)
  <2>1. /\ pc[t] = "restore" /\ Goto(t, "failed")
        /\ UNCHANGED <<mounted, running, doc, previous, found, met>>
    BY <1>8 DEF Restore
  <2>2. t \notin met => previous[t] = found[t] /\ errors[t] = 1
    BY <2>1, <1>u DEF Undisturbed, Saving
  <2>3. mounted /\ previous[t] \in Contents
    BY <2>1, <1>0 DEF SavesSound, InPlace, FileTyped
  <2>4. CASE file' = previous[t] /\ UNCHANGED errors
    <3>1. pc'[t] = "failed"
      BY <2>1, <1>0 DEF Goto
    <3> QED
      BY <2>1, <2>2, <2>3, <2>4, <3>1, <1>2, <1>0 DEF Saving, FileTyped, InPlace
  <2>5. CASE file' \in {file, Empty, Torn, previous[t]} /\ OSError(t)
    <3>1. pc'[t] = "failed" /\ file' \in Contents
      BY <2>1, <2>3, <2>5, <1>0 DEF Goto, FileTyped, Contents
    <3>2. t \notin met => errors'[t] = 2
      BY <2>2, <2>5, <1>e
    <3> QED
      BY <2>1, <2>2, <2>3, <2>5, <3>1, <3>2, <1>2, <1>0 DEF Saving, FileTyped, InPlace
  <2> QED
    BY <1>8, <2>4, <2>5 DEF Restore
<1>9. CASE SaveFails(t)
  <2>1. /\ pc[t] \in {"temp", "replace"} /\ Goto(t, "failed") /\ OSError(t)
        /\ UNCHANGED <<mounted, running, file, doc, previous, found, met>>
    BY <1>9 DEF SaveFails
  <2>2. t \notin met => file = found[t]
    BY <2>1, <1>u DEF Undisturbed, Saving
  <2>3. pc'[t] = "failed"
    BY <2>1, <1>0 DEF Goto
  <2> QED
    BY <2>1, <2>2, <2>3, <1>2, <1>0 DEF Saving, InPlace, FileTyped, FileAlwaysBoots
<1>10. CASE LogSave(t)
  <2>1. pc[t] = "saved" /\ Goto(t, "done") /\ UNCHANGED fileVars
    BY <1>10 DEF LogSave
  <2>2. pc' \in [Ops -> Stages] /\ \A u \in Ops : pc'[u] = pc[u] \/ pc'[u] \notin Saving \cup {"idle"}
    BY <2>1, <1>0, <1>s, Moved DEF Saving
  <2> QED
    BY <2>1, <2>2, <1>0, FileElsewhere DEF FileTyped, Saving
<1> QED
  BY <1>1, <1>3, <1>4, <1>5, <1>6, <1>7, <1>8, <1>9, <1>10 DEF FileStep

LEMMA FileStepKept == FileKept /\ [Next]_gateVars => FileKept'
<1> SUFFICES ASSUME FileKept, [Next]_gateVars PROVE FileKept'
  OBVIOUS
<1> USE DEF Same
<1>0. pc \in [Ops -> Stages] /\ running \in [Procs -> Registries \cup {Refused}]
  BY DEF FileKept, FileTyped
<1>1. ASSUME NEW t \in Ops, NEW s \in Stages \ (Saving \cup {"idle"}), Goto(t, s),
             UNCHANGED <<running, mounted, fileVars>>
      PROVE  FileKept'
  BY <1>1, <1>0, Moved, FileElsewhere
<1>2. ASSUME NEW t \in Ops, NEW p \in Procs, NEW c \in Calls, Authenticate(t, p, c) PROVE FileKept'
  <2>1. \E s \in {"window", "punish"} : Goto(t, s)
    BY <1>2 DEF Authenticate
  <2> QED
    BY <1>2, <2>1, <1>1 DEF Authenticate, Stages, Saving
<1>3. ASSUME NEW t \in Ops, CountFailure(t) \/ LogFailure(t) \/ ComputeWindow(t)
                             \/ CountRequest(t) \/ Resolve(t) \/ Serve(t)
      PROVE  FileKept'
  <2>1. \E s \in {"failed", "tell", "count", "resolve", "refused", "serve", "done"} : Goto(t, s)
    BY <1>3 DEF CountFailure, LogFailure, ComputeWindow, CountRequest, Resolve, Serve
  <2>2. UNCHANGED <<running, mounted, fileVars>>
    BY <1>3 DEF CountFailure, LogFailure, ComputeWindow, CountRequest, Resolve, Serve
  <2>3. {"failed", "tell", "count", "resolve", "refused", "serve", "done"} \subseteq Stages \ (Saving \cup {"idle"})
    BY DEF Stages, Saving, Over
  <2> QED
    BY <2>1, <2>2, <2>3, <1>1
<1>4. ASSUME NEW t \in Ops, (\E g \in Pages : AuditLength(t, g)) \/ AuditRange(t) \/ KeyStep(t),
             UNCHANGED <<running, mounted, fileVars>>
      PROVE  FileKept'
  <2>1. \E s \in {"range", "done", "logKey"} \cup KeyStages \cup Over : Goto(t, s)
    BY <1>4, KeyMoves, PageMoves
  <2>2. {"range", "done", "logKey"} \cup KeyStages \cup Over \subseteq Stages \ (Saving \cup {"idle"})
    BY DEF Stages, Saving, Over, KeyStages
  <2> QED
    BY <1>4, <2>1, <2>2, <1>1
<1>5. CASE Tick
  BY <1>5, <1>0, FileElsewhere DEF Tick
<1>6. ASSUME NEW p \in Procs, Restart(p), UNCHANGED mounted PROVE FileKept'
  <2>1. /\ running' \in {[running EXCEPT ![p] = r] : r \in Load(file)}
        /\ pc' = [t \in Ops |-> IF t \in Busy /\ home[t] = p THEN "dead" ELSE pc[t]]
        /\ UNCHANGED fileVars
    BY <1>6 DEF Restart
  <2>2. running' \in [Procs -> Registries \cup {Refused}]
    BY <2>1, <1>0, LoadTyped DEF FileKept, FileTyped
  <2>3. "dead" \in Stages \ (Saving \cup {"idle"})
    BY DEF Stages, Over, Saving
  <2> QED
    BY <1>6, <2>1, <2>2, <2>3, <1>0, FileElsewhere
<1>7. CASE UNCHANGED gateVars
  BY <1>7, <1>0, FileElsewhere DEF gateVars
<1>8. ASSUME NEW t \in Ops, Step(t) PROVE FileKept'
  <2>1. CASE FileStep(t) /\ UNCHANGED <<running, mounted>>
    BY <2>1, SaveStep
  <2> QED
    BY <1>8, <1>2, <1>3, <1>4, <2>1 DEF Step
<1> QED
  BY <1>5, <1>6, <1>7, <1>8 DEF Next

(* Where models.yaml can be replaced, no save, failure or crash leaves a    *)
(* file that the engine refuses to boot with.                               *)
THEOREM FileNeverBreaks == Spec => []FileAlwaysBoots
<1>1. FileKept => FileAlwaysBoots
  BY DEF FileKept
<1> QED
  BY FileInit, FileStepKept, <1>1, PTL DEF Spec

(* A save that met no other one and is answered leaves its whole document   *)
(* in the file, or, as long as no second call on the file fails it, the     *)
(* content it found, be it replaced or written in place.                    *)
THEOREM SavesAtomic == Spec => SavesAllOrNothing
<1> DEFINE Outcome == \A t \in Ops \ met' :
       pc[t] \in Saving /\ pc'[t] # pc[t] =>
         /\ pc'[t] = "saved" => file' = IF doc[t] = NoId THEN Absent ELSE doc[t]
         /\ pc'[t] = "failed" /\ errors'[t] = 1 => file' = found[t]
<1>1. FileKept /\ [Next]_gateVars => [Outcome]_gateVars
  <2> SUFFICES ASSUME FileKept, Next, NEW t \in Ops, t \notin met', pc[t] \in Saving, pc'[t] # pc[t]
               PROVE  /\ pc'[t] = "saved" => file' = IF doc[t] = NoId THEN Absent ELSE doc[t]
                      /\ pc'[t] = "failed" /\ errors'[t] = 1 => file' = found[t]
    OBVIOUS
  <2> USE DEF Same
  <2>0. pc \in [Ops -> Stages]
    BY DEF FileKept, FileTyped
  <2>1. CASE FileStep(t) /\ UNCHANGED <<running, mounted>>
    BY <2>1, SaveStep
  <2>2. ASSUME NEW u \in Ops, NEW s, Goto(u, s), u # t PROVE FALSE
    BY <2>2, <2>0 DEF Goto
  <2>3. ASSUME NEW p \in Procs, Restart(p) PROVE pc'[t] = "dead"
    BY <2>3 DEF Restart
  <2>4. ASSUME NEW u \in Ops, Step(u) PROVE u = t
    <3>1. ASSUME NEW p \in Procs, NEW c \in Calls, Authenticate(u, p, c) PROVE u = t
      BY <3>1, <2>2 DEF Authenticate
    <3>2. CASE \/ CountFailure(u) \/ LogFailure(u) \/ ComputeWindow(u)
               \/ CountRequest(u) \/ Resolve(u) \/ Serve(u)
      BY <3>2, <2>2 DEF CountFailure, LogFailure, ComputeWindow, CountRequest, Resolve, Serve
    <3>3. CASE (\E g \in Pages : AuditLength(u, g)) \/ AuditRange(u) \/ FileStep(u) \/ KeyStep(u)
      BY <3>3, <2>2, FileMoves, KeyMoves, PageMoves
    <3> QED
      BY <2>4, <3>1, <3>2, <3>3 DEF Step
  <2>5. CASE Step(t)
    <3>1. CASE \/ \E p \in Procs, c \in Calls : Authenticate(t, p, c)
               \/ CountFailure(t) \/ LogFailure(t) \/ ComputeWindow(t)
               \/ CountRequest(t) \/ Resolve(t) \/ Serve(t)
      BY <3>1 DEF Authenticate, CountFailure, LogFailure, ComputeWindow, CountRequest, Resolve, Serve, Saving
    <3>2. CASE (\E g \in Pages : AuditLength(t, g)) \/ AuditRange(t)
      BY <3>2 DEF AuditLength, AuditRange, Saving
    <3>3. CASE KeyStep(t)
      BY <3>3 DEF KeyStep, Issue, StoreIssued, RotateRead, StoreRotated, RemoveOld, Revoke, LogKey,
                  KeyFails, Saving
    <3> QED
      BY <2>5, <3>1, <3>2, <3>3, <2>1 DEF Step
  <2>6. CASE Tick
    BY <2>6 DEF Tick
  <2> QED
    BY <2>3, <2>4, <2>5, <2>6 DEF Next
<1> QED
  BY <1>1, FileInit, FileStepKept, PTL DEF Spec, SavesAllOrNothing

-----------------------------------------------------------------------------
LEMMA LeastNat ==
  ASSUME NEW S \in SUBSET Nat, S # {}
  PROVE  \E n \in S : \A i \in S : n <= i
<1> DEFINE less == OpToRel(<, Nat)
<1>1. PICK n \in S : \A i \in S : <<i, n>> \notin less
  BY NatLessThanWellFounded, WFMin
<1>2. \A i \in S : ~(i < n)
  BY <1>1 DEF OpToRel
<1> QED
  BY <1>2

(* resolve_model gives a model that the key may use, or refuses; a model    *)
(* the key may use is given when it is asked for; and it refuses a request  *)
(* without a model only when the key may use none.                          *)
LEMMA ResolvesToPermitted ==
  ASSUME NEW reg \in Registries, NEW requested \in Ids \cup {NoId},
         NEW allowed, NEW default \in Ids \cup {NoId}
  PROVE  LET m == ResolveModel(reg, requested, allowed, default)
         IN /\ m # Refused => m \in Permitted(reg, allowed)
            /\ requested \in Permitted(reg, allowed) => m = requested
            /\ requested = NoId /\ m = Refused => Permitted(reg, allowed) = {}
<1> DEFINE candidates == IF requested # NoId THEN <<requested>>
                                              ELSE <<default, reg.default>> \o reg.models
           hits == {i \in DOMAIN candidates : candidates[i] \in Permitted(reg, allowed)}
           m == ResolveModel(reg, requested, allowed, default)
<1>1. m = IF hits = {} THEN Refused ELSE candidates[Min(hits)]
  BY DEF ResolveModel
<1>2. reg.models \in Seq(Ids) /\ reg.default \in Ids
  BY DEF Registries
<1>3. Permitted(reg, allowed) \subseteq Ids /\ NoId \notin Ids /\ Refused \notin Ids
  BY <1>2, RegistryAssumption DEF Permitted, ToSet
<1>4. hits \subseteq Nat
  <2>1. CASE requested # NoId
    BY <2>1
  <2>2. CASE requested = NoId
    <3>1. candidates \in Seq(Ids \cup {NoId})
      BY <2>2, <1>2
    <3> QED
      BY <3>1
  <2> QED
    BY <2>1, <2>2
<1>5. ASSUME hits # {} PROVE Min(hits) \in hits
  <2>1. PICK n \in hits : \A i \in hits : n <= i
    BY <1>4, <1>5, LeastNat
  <2> QED
    BY <2>1 DEF Min
<1>6. m # Refused => m \in Permitted(reg, allowed)
  BY <1>1, <1>5
<1>7. hits # {} => m \in Permitted(reg, allowed) /\ m # Refused
  BY <1>1, <1>3, <1>5
<1>8. ASSUME requested \in Permitted(reg, allowed) PROVE m = requested
  <2>1. candidates = <<requested>> /\ hits = {1}
    BY <1>3, <1>8
  <2>2. Min(hits) = 1
    BY <2>1, <1>5
  <2> HIDE DEF candidates, hits, m
  <2> QED
    BY <2>1, <2>2, <1>1
<1>9. ASSUME requested = NoId, NEW x \in Permitted(reg, allowed) PROVE m # Refused
  <2>1. PICK i \in DOMAIN reg.models : reg.models[i] = x
    BY DEF Permitted, ToSet
  <2>2. candidates = <<default, reg.default>> \o reg.models
    BY <1>9
  <2>3. i + 2 \in DOMAIN candidates /\ candidates[i + 2] = x
    BY <2>1, <2>2, <1>2
  <2> QED
    BY <2>3, <1>7
<1> QED
  BY <1>6, <1>8, <1>9

LEMMA RequestResolves ==
  ASSUME NEW reg \in Registries, NEW requested \in Ids \cup {NoId},
         NEW session \in Ids \cup {NoId}, NEW scope \in KeyEntries
  PROVE  LET m == ResolveRequest(reg, requested, session, scope)
         IN /\ m # Refused => m \in Permitted(reg, scope.models)
            /\ requested = NoId /\ session \in Permitted(reg, scope.models) => m = session
            /\ requested = NoId /\ m = Refused => Permitted(reg, scope.models) = {}
<1>1. scope.default \in Ids \cup {NoId} /\ NoId \in Ids \cup {NoId}
  BY DEF KeyEntries
<1>2. NoId \notin Permitted(reg, scope.models) /\ Refused \notin Permitted(reg, scope.models)
  BY RegistryAssumption DEF Permitted, ToSet, Registries
<1> QED
  BY <1>1, <1>2, ResolvesToPermitted DEF ResolveRequest

(* A request that has been authenticated carries the scope of its key's     *)
(* root and is served by a process that has a registry; once it has its     *)
(* model, the model is declared there and permitted.                        *)
Serving == {"window", "count", "resolve", "serve"}

ScopeTyped ==
  /\ call \in [Ops -> Requests] /\ entry \in [Ops -> KeyEntries]
  /\ bound \in Ids \cup {NoId} /\ got \in [Ops -> Ids \cup {NoId}]
  /\ home \in [Ops -> Procs]

InScope(t) ==
  /\ pc[t] \in Serving =>
       /\ call[t].key \in Made /\ entry[t] = root[call[t].key]
       /\ running[home[t]] \in Registries
  /\ pc[t] = "serve" => got[t] \in Permitted(running[home[t]], entry[t].models)

Scoped == ScopeTyped /\ \A t \in Ops : InScope(t)

LEMMA ScopedInit == Init => Scoped
<1> SUFFICES ASSUME Init PROVE Scoped
  OBVIOUS
<1>1. PICK b \in Boot : bound = b.bound
  BY DEF Init
<1>2. ScopeTyped
  BY <1>1, GateAssumption, AuditAssumption DEF Init, ScopeTyped, Requests, Keys, KeyEntries
<1>3. pc = [t \in Ops |-> "idle"]
  BY DEF Init
<1> QED
  BY <1>2, <1>3 DEF Scoped, InScope, Serving

(* Roots are given once. *)
(* A key whose reply got lost. *)
StoredUnheard(t) ==
  /\ pc[t] \in {"storeIssued", "storeRotated"}
  /\ root' = [root EXCEPT ![t] = IF pc[t] = "storeIssued" THEN carried[t] ELSE root[target[t]]]

LEMMA RootsStay ==
  ASSUME KeysKept, [Next]_gateVars, NEW k \in Made
  PROVE  k \in Made' /\ root'[k] = root[k]
<1> USE DEF Same
<1>1. UNCHANGED root \/ \E t \in Ops : StoreIssued(t) \/ StoreRotated(t) \/ StoredUnheard(t)
  <2>1. ASSUME NEW t \in Ops, KeyStep(t)
        PROVE  UNCHANGED root \/ StoreIssued(t) \/ StoreRotated(t) \/ StoredUnheard(t)
    BY <2>1 DEF KeyStep, Issue, RotateRead, RemoveOld, Revoke, LogKey, KeyFails, StoredUnheard, keyVars
  <2>2. ASSUME NEW t \in Ops, NEW p \in Procs, NEW c \in Calls, Authenticate(t, p, c) PROVE UNCHANGED root
    BY <2>2 DEF Authenticate, keyVars
  <2>3. ASSUME NEW t \in Ops, CountFailure(t) \/ LogFailure(t) \/ ComputeWindow(t)
                               \/ CountRequest(t) \/ Resolve(t) \/ Serve(t)
        PROVE  UNCHANGED root
    BY <2>3 DEF CountFailure, LogFailure, ComputeWindow, CountRequest, Resolve, Serve, keyVars
  <2>4. CASE Tick
    BY <2>4 DEF Tick, keyVars
  <2> QED
    BY <2>1, <2>2, <2>3, <2>4 DEF Next, Step, keyVars, gateVars
<1>2. ASSUME NEW t \in Ops, StoreIssued(t) \/ StoreRotated(t) \/ StoredUnheard(t)
      PROVE  t \notin Made /\ \A j \in Keys \ {t} : root'[j] = root[j]
  BY <1>2 DEF StoredUnheard, StoreIssued, StoreRotated, KeysKept, KeysTyped, KeysRooted
<1> QED
  BY <1>1, <1>2 DEF Made

LEMMA ScopedElsewhere ==
  ASSUME Scoped, KeysKept, [Next]_gateVars,
         UNCHANGED <<call, entry, got>>, bound' \in Ids \cup {NoId}, home' \in [Ops -> Procs],
         \A t \in Ops : pc'[t] \in Serving =>
            /\ pc'[t] = pc[t] \/ (pc[t] \in Serving /\ pc'[t] # "serve")
            /\ running'[home'[t]] = running[home[t]]
  PROVE  Scoped'
<1>1. ScopeTyped'
  BY DEF Scoped, ScopeTyped
<1>2. ASSUME NEW t \in Ops PROVE InScope(t)'
  <2> SUFFICES ASSUME pc'[t] \in Serving PROVE InScope(t)'
    BY DEF InScope, Serving
  <2>1. InScope(t) /\ pc[t] \in Serving
    BY DEF Scoped
  <2>2. call[t].key \in Made' /\ root'[call[t].key] = root[call[t].key]
    BY <2>1, RootsStay DEF InScope
  <2> QED
    BY <2>1, <2>2 DEF InScope
<1> QED
  BY <1>1, <1>2 DEF Scoped

LEMMA ScopedStep == Scoped /\ KeysKept /\ FileKept /\ [Next]_gateVars => Scoped'
<1> SUFFICES ASSUME Scoped, KeysKept, FileKept, [Next]_gateVars PROVE Scoped'
  OBVIOUS
<1> USE DEF Same
<1>0. /\ pc \in [Ops -> Stages] /\ running \in [Procs -> Registries \cup {Refused}]
      /\ ScopeTyped /\ \A t \in Ops : InScope(t)
  BY DEF FileKept, FileTyped, Scoped
(* Steps of one request that change no other's stage. *)
<1>1. ASSUME NEW t \in Ops, NEW s \in Stages, s \notin Serving \/ (s # "serve" /\ pc[t] \in Serving), Goto(t, s),
             UNCHANGED <<call, entry, got, running>>, bound' \in Ids \cup {NoId},
             home' = home \/ (s \notin Serving /\ \E p \in Procs : home' = [home EXCEPT ![t] = p])
      PROVE  Scoped'
  <2>1. pc'[t] = s /\ \A u \in Ops \ {t} : pc'[u] = pc[u]
    BY <1>1, <1>0 DEF Goto
  <2>2. home' \in [Ops -> Procs] /\ \A u \in Ops \ {t} : home'[u] = home[u]
    BY <1>1, <1>0 DEF ScopeTyped
  <2>3. ASSUME NEW u \in Ops, pc'[u] \in Serving
        PROVE  /\ pc'[u] = pc[u] \/ (pc[u] \in Serving /\ pc'[u] # "serve")
               /\ running'[home'[u]] = running[home[u]]
    <3>1. CASE u = t
      BY <3>1, <1>1, <2>1, <2>3
    <3>2. CASE u # t
      BY <3>2, <1>1, <2>1, <2>2
    <3> QED
      BY <3>1, <3>2
  <2> QED
    BY <1>1, <2>2, <2>3, ScopedElsewhere
<1>2. ASSUME NEW t \in Ops, NEW p \in Procs, NEW c \in Calls, Authenticate(t, p, c) PROVE Scoped'
  <2>1. /\ home' = [home EXCEPT ![t] = p] /\ call' = [call EXCEPT ![t] = c] /\ c \in Requests
        /\ running[p] # Refused /\ UNCHANGED <<bound, got, running, root>>
    BY <1>2, GateAssumption DEF Authenticate, meterVars, keyVars
  <2>2. running[p] \in Registries
    BY <2>1, <1>0
  <2>3. CASE c.key \in Live
    <3>1. entry' = [entry EXCEPT ![t] = keys[c.key]] /\ Goto(t, "window")
      BY <1>2, <2>3 DEF Authenticate
    <3>2. c.key \in Made /\ keys[c.key] = root[c.key] /\ keys[c.key] \in KeyEntries
      BY <2>3 DEF KeysKept, KeysTyped, KeysRooted, Live, Made
    <3>3. ScopeTyped'
      BY <2>1, <3>1, <3>2, <1>0 DEF ScopeTyped
    <3>4. ASSUME NEW u \in Ops PROVE InScope(u)'
      <4>1. CASE u = t
        BY <4>1, <2>1, <2>2, <3>1, <3>2, <1>0 DEF InScope, ScopeTyped, Goto, Made, Serving
      <4>2. CASE u # t
        BY <4>2, <2>1, <3>1, <1>0 DEF InScope, ScopeTyped, Goto, Made
      <4> QED
        BY <4>1, <4>2
    <3> QED
      BY <3>3, <3>4 DEF Scoped
  <2>4. CASE c.key \notin Live
    <3>1. UNCHANGED entry /\ Goto(t, "punish")
      BY <1>2, <2>4 DEF Authenticate
    <3>3. ScopeTyped'
      BY <2>1, <3>1, <1>0 DEF ScopeTyped
    <3>4. ASSUME NEW u \in Ops PROVE InScope(u)'
      <4>1. CASE u = t
        BY <4>1, <3>1, <1>0 DEF InScope, Goto, Serving
      <4>2. CASE u # t
        BY <4>2, <2>1, <3>1, <1>0 DEF InScope, ScopeTyped, Goto, Made
      <4> QED
        BY <4>1, <4>2
    <3> QED
      BY <3>3, <3>4 DEF Scoped
  <2> QED
    BY <2>3, <2>4
<1>3. ASSUME NEW t \in Ops, Resolve(t) PROVE Scoped'
  <2> DEFINE session == IF call[t].session THEN bound ELSE NoId
             m == ResolveRequest(running[home[t]], call[t].model, session, entry[t])
  <2>1. pc[t] = "resolve" /\ UNCHANGED <<home, call, entry, bound, running, root>>
    BY <1>3 DEF Resolve, meterVars, keyVars
  <2>2. InScope(t) /\ running[home[t]] \in Registries /\ entry[t] \in KeyEntries
    BY <2>1, <1>0 DEF InScope, Serving, ScopeTyped
  <2>3. CASE m = Refused
    <3>1. Goto(t, "refused") /\ UNCHANGED got
      BY <1>3, <2>3 DEF Resolve
    <3> QED
      BY <3>1, <2>1, <1>0, <1>1 DEF Serving, ScopeTyped, Stages, Over
  <2>4. CASE m # Refused
    <3>1. Goto(t, "serve") /\ got' = [got EXCEPT ![t] = m]
      BY <1>3, <2>4 DEF Resolve
    <3>2. call[t].model \in Ids \cup {NoId} /\ session \in Ids \cup {NoId}
      BY <1>0 DEF ScopeTyped, Requests
    <3> HIDE DEF session
    <3>3. m \in Permitted(running[home[t]], entry[t].models)
      BY <2>2, <2>4, <3>2, RequestResolves
    <3>4. m \in Ids
      BY <3>3, <2>2 DEF Permitted, Registries, ToSet
    <3> HIDE DEF m
    <3>5. ScopeTyped'
      BY <2>1, <3>1, <3>4, <1>0 DEF ScopeTyped
    <3>6. ASSUME NEW u \in Ops PROVE InScope(u)'
      <4>1. CASE u = t
        BY <4>1, <2>1, <2>2, <3>1, <3>3, <1>0 DEF InScope, ScopeTyped, Goto, Made, Serving
      <4>2. CASE u # t
        BY <4>2, <2>1, <3>1, <1>0 DEF InScope, ScopeTyped, Goto, Made
      <4> QED
        BY <4>1, <4>2
    <3> QED
      BY <3>5, <3>6 DEF Scoped
  <2> QED
    BY <2>3, <2>4
<1>4. ASSUME NEW t \in Ops, CountFailure(t) \/ LogFailure(t) \/ ComputeWindow(t) \/ CountRequest(t)
      PROVE  Scoped'
  <2>1. \E s \in {"failed", "tell", "count", "resolve"} :
          Goto(t, s) /\ (s \notin Serving \/ pc[t] \in Serving)
    BY <1>4 DEF CountFailure, LogFailure, ComputeWindow, CountRequest, Serving
  <2>2. UNCHANGED <<home, call, entry, got, bound, running>>
    BY <1>4 DEF CountFailure, LogFailure, ComputeWindow, CountRequest, requestVars, meterVars
  <2>3. \A s \in {"failed", "tell", "count", "resolve"} : s \in Stages /\ s # "serve"
    BY DEF Stages, Over
  <2> QED
    BY <2>1, <2>2, <2>3, <1>0, <1>1 DEF ScopeTyped
<1>5. ASSUME NEW t \in Ops, Serve(t) PROVE Scoped'
  <2>1. Goto(t, "done") /\ UNCHANGED <<home, call, entry, got, running>>
    BY <1>5 DEF Serve, requestVars
  <2>2. bound' \in Ids \cup {NoId}
    BY <1>5, <1>0 DEF Serve, ScopeTyped
  <2> QED
    BY <2>1, <2>2, <1>1 DEF Serving, Stages, Over
<1>6. ASSUME NEW t \in Ops,
             (\E g \in Pages : AuditLength(t, g)) \/ AuditRange(t) \/ FileStep(t) \/ KeyStep(t),
             UNCHANGED <<running, requestVars, meterVars>>
      PROVE  Scoped'
  <2> DEFINE Others == {"range", "done", "saved", "logKey"} \cup Saving \cup KeyStages \cup Over
  <2>1. \E s \in Others : Goto(t, s)
    BY <1>6, FileMoves, KeyMoves, PageMoves
  <2>2. \A s \in Others : s \in Stages /\ s \notin Serving
    BY DEF Saving, KeyStages, Over, Serving, Stages
  <2>3. home' = home \/ \E p \in Procs : home' = [home EXCEPT ![t] = p]
    <3>1. CASE (\E g \in Pages : AuditLength(t, g)) \/ AuditRange(t)
      BY <3>1 DEF AuditLength, AuditRange
    <3>2. CASE FileStep(t)
      BY <3>2 DEF FileStep, BeginSave, WriteTemp, Replace, ReadBack, Truncate, WriteDoc, Restore, SaveFails, LogSave
    <3>3. CASE KeyStep(t)
      BY <3>3 DEF KeyStep, Issue, StoreIssued, RotateRead, StoreRotated, RemoveOld, Revoke, LogKey, KeyFails
    <3> QED
      BY <1>6, <3>1, <3>2, <3>3
  <2> QED
    BY <1>6, <2>1, <2>2, <2>3, <1>0, <1>1 DEF requestVars, meterVars, ScopeTyped
<1>7. CASE Tick
  BY <1>7, <1>0, ScopedElsewhere DEF Tick, requestVars, ScopeTyped
<1>8. ASSUME NEW p \in Procs, Restart(p), UNCHANGED <<requestVars, meterVars>> PROVE Scoped'
  <2>1. /\ running' \in {[running EXCEPT ![p] = r] : r \in Load(file)}
        /\ pc' = [t \in Ops |-> IF t \in Busy /\ home[t] = p THEN "dead" ELSE pc[t]]
        /\ home' = home
    BY <1>8 DEF Restart
  <2>2. ASSUME NEW t \in Ops, pc'[t] \in Serving
        PROVE  pc'[t] = pc[t] /\ running'[home'[t]] = running[home[t]]
    <3>1. pc'[t] = pc[t] /\ t \in Busy /\ home[t] # p /\ home[t] \in Procs
      BY <2>1, <2>2, <1>0 DEF Serving, Busy, Over, ScopeTyped
    <3>2. PICK r \in Load(file) : running' = [running EXCEPT ![p] = r]
      BY <2>1
    <3> QED
      BY <3>1, <3>2, <2>1, <1>0
  <2> QED
    BY <1>8, <2>1, <2>2, <1>0, ScopedElsewhere DEF requestVars, meterVars, ScopeTyped
<1>9. CASE UNCHANGED gateVars
  BY <1>9, <1>0, ScopedElsewhere DEF gateVars, requestVars, meterVars, ScopeTyped
<1>10. ASSUME NEW t \in Ops, Step(t) PROVE Scoped'
  BY <1>10, <1>2, <1>3, <1>4, <1>5, <1>6 DEF Step
<1> QED
  BY <1>7, <1>8, <1>9, <1>10 DEF Next

(* No chain of rotations, restarts, saved registries and session bindings   *)
(* has a request served with a model its process does not declare or the    *)
(* admin did not allow the key it descends from.                            *)
THEOREM ScopeHolds == Spec => []ScopeKept
<1>1. Scoped => ScopeKept
  BY DEF Scoped, InScope, Serving, ScopeKept, Permitted
<1> QED
  BY KeysInit, KeysStep, FileInit, FileStepKept, ScopedInit, ScopedStep, <1>1, PTL DEF Spec

(* A session keeps its model as long as its key may use it, and a request   *)
(* that names none is only refused when its key has no model left.          *)
THEOREM SessionsKeepModel == Spec => SessionsDowngrade
<1> DEFINE Downgrade == \A t \in Ops :
             pc[t] = "resolve" /\ pc'[t] \in {"serve", "refused"} /\ call[t].model = NoId =>
               /\ pc'[t] = "refused" => \A m \in Ids : ~Allowed(t, m)
               /\ call[t].session /\ Allowed(t, bound) => got'[t] = bound
<1>1. Scoped /\ FileKept /\ [Next]_gateVars => [Downgrade]_gateVars
  <2> SUFFICES ASSUME Scoped, FileKept, Next, NEW t \in Ops,
                      pc[t] = "resolve", pc'[t] \in {"serve", "refused"}, call[t].model = NoId
               PROVE  /\ pc'[t] = "refused" => \A m \in Ids : ~Allowed(t, m)
                      /\ call[t].session /\ Allowed(t, bound) => got'[t] = bound
    OBVIOUS
  <2> USE DEF Same
  <2> DEFINE session == IF call[t].session THEN bound ELSE NoId
             reg == running[home[t]]
             requested == call[t].model
             scope == entry[t]
             m == ResolveRequest(reg, requested, session, scope)
  <2>0. pc \in [Ops -> Stages] /\ ScopeTyped /\ InScope(t)
    BY DEF FileKept, FileTyped, Scoped
  <2>1. Resolve(t)
    <3>1. ASSUME NEW u \in Ops, NEW s, Goto(u, s) PROVE u = t /\ s \in {"serve", "refused"}
      BY <3>1, <2>0 DEF Goto
    <3>2. ASSUME NEW u \in Ops, NEW p \in Procs, NEW c \in Calls, Authenticate(u, p, c) PROVE FALSE
      BY <3>1, <3>2 DEF Authenticate
    <3>3. ASSUME NEW u \in Ops,
                 CountFailure(u) \/ LogFailure(u) \/ ComputeWindow(u) \/ CountRequest(u) \/ Serve(u)
          PROVE  FALSE
      BY <3>1, <3>3 DEF CountFailure, LogFailure, ComputeWindow, CountRequest, Serve
    <3>4. ASSUME NEW u \in Ops, (\E g \in Pages : AuditLength(u, g)) \/ AuditRange(u) PROVE FALSE
      BY <3>1, <3>4, PageMoves
    <3>5. ASSUME NEW u \in Ops, FileStep(u) PROVE FALSE
      BY <3>1, <3>5 DEF FileStep, BeginSave, WriteTemp, Replace, ReadBack, Truncate, WriteDoc, Restore,
                        NotWritten, SaveFails, LogSave
    <3>6. ASSUME NEW u \in Ops, KeyStep(u) PROVE FALSE
      BY <3>1, <3>6 DEF KeyStep, Issue, StoreIssued, RotateRead, StoreRotated, RemoveOld, Revoke,
                        LogKey, KeyFails
    <3>7. ASSUME NEW u \in Ops, Resolve(u) PROVE u = t
      BY <3>1, <3>7 DEF Resolve
    <3>8. ASSUME NEW p \in Procs, Restart(p) PROVE FALSE
      BY <3>8 DEF Restart
    <3>9. ~Tick
      BY DEF Tick
    <3> QED
      BY <3>2, <3>3, <3>4, <3>5, <3>6, <3>7, <3>8, <3>9 DEF Next, Step
  <2>2. /\ pc'[t] = "refused" <=> m = Refused
        /\ m # Refused => got'[t] = m
    BY <2>0, <2>1 DEF Resolve, Goto, ScopeTyped
  <2>3. /\ reg \in Registries /\ scope \in KeyEntries
        /\ requested \in Ids \cup {NoId} /\ session \in Ids \cup {NoId}
    BY <2>0 DEF InScope, Serving, ScopeTyped, Requests
  <2>4. \A x : Allowed(t, x) <=> x \in Permitted(reg, scope.models)
    BY DEF Allowed, Permitted
  <2>n. requested = NoId
    OBVIOUS
  <2> HIDE DEF session, reg, requested, scope
  <2>5. /\ requested = NoId /\ m = Refused => Permitted(reg, scope.models) = {}
        /\ requested = NoId /\ session \in Permitted(reg, scope.models) => m = session
    BY <2>3, RequestResolves
  <2>6. Refused \notin Ids \cup {NoId}
    BY RegistryAssumption
  <2> HIDE DEF m
  <2>7. call[t].session => session = bound
    BY DEF session
  <2> QED
    BY <2>2, <2>3, <2>4, <2>5, <2>6, <2>7, <2>n
<1> QED
  BY <1>1, KeysInit, KeysStep, FileInit, FileStepKept, ScopedInit, ScopedStep, PTL DEF Spec, SessionsDowngrade

=============================================================================
