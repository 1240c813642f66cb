-------------------------------- MODULE Gate --------------------------------
(***************************************************************************)
(* The way into the API: a request is authenticated (dependencies/         *)
(* security.py), counted (utils/system/limiter.py) and given its model     *)
(* (dependencies/models.py), while an admin issues, rotates and revokes    *)
(* keys, saves the model registry and processes restart with it.           *)
(***************************************************************************)
EXTENDS ApiKeys

CONSTANTS
  Unknown,     \* a key that was never issued
  Limit,       \* the requests a key may make in a window
  FailLimit,   \* _AUTH_FAIL_LIMIT
  MaxWindow,   \* bound: windows
  Calls,       \* the requests clients may make
  Boot         \* the deployments to start from, and the requests made of each:
               \* records of mounted, file, entry, bound, clock and plan

Requests == [key : Keys \cup {Unknown}, model : Ids \cup {NoId}, session : BOOLEAN]

ASSUME GateAssumption ==
  /\ Unknown \notin Keys
  /\ Calls \subseteq Requests
  /\ Limit \in Nat \ {0} /\ FailLimit \in Nat \ {0} /\ MaxWindow \in Nat
  /\ \A b \in Boot :
       /\ b.entry \in KeyEntries
       /\ b.clock \in 0..MaxWindow
       /\ b.bound \in Ids \cup {NoId}
       /\ b.plan \in [Ops -> SUBSET Kinds]
       /\ b.mounted \in BOOLEAN
       /\ b.file \in IF b.mounted THEN Contents ELSE Docs \cup {Absent}

VARIABLES
  clock,      \* the index of the current window
  call,       \* call[t]: the key, the model (or NoId) and whether it is in the session
  entry,      \* entry[t]: the key's entry, as verify_api_key stashed it
  window,     \* window[t]: the window it computed
  counts,     \* counts[w][k]: the INCRs of window w on key k's bucket
  admitted,   \* admitted[k][w]: the requests let through since the current window
              \* began, counted in window w
  fails,      \* failed authentications of the client's address
  bound,      \* the model the app's session is bound to
  got         \* got[t]: the model the request resolved to

requestVars == <<call, entry, window, got>>
meterVars   == <<clock, counts, admitted, fails, bound>>
gateVars == <<plan, pc, home, running, mounted, auditVars, pageVars, fileVars, keyVars,
              requestVars, meterVars>>

Stages == Over \cup Saving \cup KeyStages \cup
  {"idle", "range", "saved", "logKey", "punish", "tell", "window", "count", "resolve", "serve"}

Init ==
  /\ \E b \in Boot :
       /\ plan = b.plan
       /\ mounted = b.mounted
       /\ file = b.file
       /\ running \in {[p \in Procs |-> r] : r \in Load(b.file) \ {Refused}}
       /\ keys = [x \in Keys |-> IF x = First THEN b.entry ELSE NoEntry]
       /\ root = [x \in Keys |-> IF x = First THEN b.entry ELSE NoEntry]
       /\ bound = b.bound
       /\ clock = b.clock
  /\ pc = [t \in Ops |-> "idle"]
  /\ home = [t \in Ops |-> CHOOSE p \in Procs : TRUE]
  /\ events = [l \in Lists |-> <<>>] /\ trail = events
  /\ asked = [t \in Ops |-> [list |-> "global", offset |-> 0, total |-> 0, known |-> 0]]
  /\ page = [t \in Ops |-> <<>>]
  /\ doc = [t \in Ops |-> NoId]
  /\ previous = [t \in Ops |-> Empty] /\ found = previous
  /\ errors = [t \in Ops |-> 0]
  /\ met = {}
  /\ target = [t \in Ops |-> First]
  /\ carried = [t \in Ops |-> [models |-> {}, default |-> NoId]]
  /\ issued = {} /\ revoked = {} /\ untidy = FALSE
  /\ call = [t \in Ops |-> [key |-> First, model |-> NoId, session |-> FALSE]]
  /\ entry = [t \in Ops |-> [models |-> {}, default |-> NoId]]
  /\ window = [t \in Ops |-> 0]
  /\ counts = [w \in 0..MaxWindow |-> [k \in Keys |-> 0]]
  /\ admitted = [k \in Keys |-> [w \in 0..MaxWindow |-> 0]]
  /\ fails = 0
  /\ got = [t \in Ops |-> NoId]

Same == UNCHANGED <<plan, running, mounted, pageVars, fileVars, keyVars>>

(* verify_api_key: the entry is looked up first, before any limit counts.   *)
Authenticate(t, p, c) ==
  /\ pc[t] = "idle" /\ "ask" \in plan[t] /\ running[p] # Refused
  /\ home' = [home EXCEPT ![t] = p]
  /\ call' = [call EXCEPT ![t] = c]
  /\ IF c.key \in Live
       THEN /\ entry' = [entry EXCEPT ![t] = keys[c.key]]
            /\ Goto(t, "window")
       ELSE /\ Goto(t, "punish")
            /\ UNCHANGED entry
  /\ UNCHANGED <<auditVars, window, got, meterVars>>
  /\ Same

(* INCR and EXPIRE in one pipeline; beyond the limit nothing is logged.     *)
CountFailure(t) ==
  /\ pc[t] = "punish"
  /\ fails' = fails + 1
  /\ Goto(t, IF fails' > FailLimit THEN "failed" ELSE "tell")
  /\ UNCHANGED <<home, auditVars, requestVars, clock, counts, admitted, bound>>
  /\ Same

LogFailure(t) ==
  /\ pc[t] = "tell"
  /\ LogEvent(t, {"global"})
  /\ Goto(t, "failed")
  /\ UNCHANGED <<home, requestVars, meterVars>>
  /\ Same

(* rate_limit: the window is computed, *)
ComputeWindow(t) ==
  /\ pc[t] = "window"
  /\ window' = [window EXCEPT ![t] = clock]
  /\ Goto(t, "count")
  /\ UNCHANGED <<home, auditVars, call, entry, got, meterVars>>
  /\ Same

CountLate(t) ==      \* mutant: the limit is checked one request late
  /\ pc[t] = "count"
  /\ counts' = [counts EXCEPT ![window[t]][call[t].key] = @ + 1]
  /\ LET over == counts'[window[t]][call[t].key] > Limit + 1
     IN /\ Goto(t, IF over THEN "failed" ELSE "resolve")
        /\ admitted' = IF over THEN admitted
                       ELSE [admitted EXCEPT ![call[t].key][window[t]] = @ + 1]
  /\ UNCHANGED <<home, auditVars, requestVars, clock, fails, bound>>
  /\ Same

(* and counted in the key's bucket of that window, which may have ended     *)
(* since: beyond the limit it is a 429.                                     *)
CountRequest(t) ==
  /\ pc[t] = "count"
  /\ counts' = [counts EXCEPT ![window[t]][call[t].key] = @ + 1]
  /\ LET over == counts'[window[t]][call[t].key] > Limit
     IN /\ Goto(t, IF over THEN "failed" ELSE "resolve")
        /\ admitted' = IF over THEN admitted
                       ELSE [admitted EXCEPT ![call[t].key][window[t]] = @ + 1]
  /\ UNCHANGED <<home, auditVars, requestVars, clock, fails, bound>>
  /\ Same

(* resolve_request_model: the session's binding is read only if the request *)
(* names no model.  No model is a 400.                                      *)
Resolve(t) ==
  /\ pc[t] = "resolve"
  /\ LET session == IF call[t].session THEN bound ELSE NoId
         m == ResolveRequest(running[home[t]], call[t].model, session, entry[t])
     IN IF m = Refused
          THEN Goto(t, "refused") /\ UNCHANGED got
          ELSE Goto(t, "serve") /\ got' = [got EXCEPT ![t] = m]
  /\ UNCHANGED <<home, auditVars, call, entry, window, meterVars>>
  /\ Same

(* The handler runs; a session is bound to a model that was asked for, or   *)
(* to the one it began with, an old one whose binding expired only touched, *)
(* and some endpoints log an event of the app.                              *)
Serve(t) ==
  /\ pc[t] = "serve"
  /\ \/ call[t].session /\ (call[t].model # NoId \/ bound = NoId) /\ bound' = got[t]
     \/ ~(call[t].session /\ call[t].model # NoId) /\ UNCHANGED bound
  /\ LogEvent(t, {"global", "app"}) \/ UNCHANGED auditVars
  /\ Goto(t, "done")
  /\ UNCHANGED <<home, requestVars, clock, counts, admitted, fails>>
  /\ Same

Buckets == {b \in (0..MaxWindow) \X Keys : counts[b[1]][b[2]] > 0}

(* A window passes.  A counter expires a window's length after it was last  *)
(* incremented, so never in the window of the clock in which it was; any    *)
(* may have by the next increment, and so may the counter of failures.      *)
Tick ==
  /\ clock < MaxWindow
  /\ clock' = clock + 1
  /\ admitted' = [k \in Keys |-> [w \in 0..MaxWindow |-> 0]]
  /\ \E expired \in SUBSET Buckets :
       counts' = [w \in 0..MaxWindow |->
                   [k \in Keys |-> IF <<w, k>> \in expired THEN 0 ELSE counts[w][k]]]
  /\ fails' \in {fails, 0}
  /\ UNCHANGED <<pc, home, auditVars, requestVars, bound>>
  /\ Same

Step(t) ==
  \/ \E p \in Procs, c \in Calls : Authenticate(t, p, c)
  \/ CountFailure(t) \/ LogFailure(t) \/ ComputeWindow(t) \/ CountRequest(t) \/ Resolve(t) \/ Serve(t)
  \/ /\ (\E g \in Pages : AuditLength(t, g)) \/ AuditRange(t)
     /\ UNCHANGED <<running, mounted, fileVars, keyVars, requestVars, meterVars>>
  \/ FileStep(t) /\ UNCHANGED <<running, mounted, pageVars, keyVars, requestVars, meterVars>>
  \/ KeyStep(t) /\ UNCHANGED <<running, mounted, pageVars, fileVars, requestVars, meterVars>>

Next ==
  \/ Tick
  \/ \E t \in Ops : Step(t)
  \/ \E p \in Procs : Restart(p) /\ UNCHANGED <<mounted, pageVars, keyVars, requestVars, meterVars>>

Spec == Init /\ [][Next]_gateVars
-----------------------------------------------------------------------------
TypeOK ==
  /\ plan \in [Ops -> SUBSET Kinds]
  /\ pc \in [Ops -> Stages] /\ home \in [Ops -> Procs]
  /\ events \in [Lists -> Seq(Ops)] /\ trail \in [Lists -> Seq(Ops)]
  /\ asked \in [Ops -> [list : Lists, offset : Nat, total : Nat, known : Nat]]
  /\ page \in [Ops -> Seq(Ops)]
  /\ mounted \in BOOLEAN
  /\ \A p \in Procs : running[p] = Refused \/ running[p] \in Registries
  /\ file \in Contents /\ previous \in [Ops -> Contents \cup {Unread}] /\ found \in [Ops -> Contents]
  /\ errors \in [Ops -> Nat]
  /\ doc \in [Ops -> Docs \cup {NoId}] /\ met \subseteq Ops
  /\ \A k \in Keys : {keys[k], root[k]} \subseteq KeyEntries \cup {NoEntry}
  /\ target \in [Ops -> Keys] /\ carried \in [Ops -> KeyEntries]
  /\ issued \subseteq Keys /\ revoked \subseteq Keys /\ untidy \in BOOLEAN
  /\ call \in [Ops -> Requests] /\ entry \in [Ops -> KeyEntries]
  /\ window \in [Ops -> Nat] /\ clock \in Nat /\ fails \in Nat
  /\ counts \in [0..MaxWindow -> [Keys -> Nat]] /\ admitted \in [Keys -> [0..MaxWindow -> Nat]]
  /\ bound \in Ids \cup {NoId} /\ got \in [Ops -> Ids \cup {NoId}]

(* No chain of rotations, session bindings, saved registries and restarts   *)
(* takes an app outside the scope an admin gave it: the model a request is  *)
(* served with is one its process declares and the key it descends from is  *)
(* allowed.                                                                 *)
ScopeKept ==
  \A t \in Ops : pc[t] = "serve" =>
    LET scope == root[call[t].key].models
    IN /\ got[t] \in ToSet(running[home[t]].models)
       /\ scope = {} \/ got[t] \in scope

(* A session keeps its model as long as the key may use it, and falls back  *)
(* when it may not; a request that names no model is only refused when its  *)
(* key has no model left.                                                   *)
Allowed(t, m) ==
  m \in ToSet(running[home[t]].models) /\ (entry[t].models = {} \/ m \in entry[t].models)
SessionsDowngrade ==
  [][\A t \in Ops : pc[t] = "resolve" /\ pc'[t] \in {"serve", "refused"} /\ call[t].model = NoId =>
       /\ pc'[t] = "refused" => \A m \in Ids : ~Allowed(t, m)
       /\ call[t].session /\ Allowed(t, bound) => got'[t] = bound
    ]_gateVars

(* The app never has a window with zero valid keys, whatever rotations      *)
(* overlap, fail or die, as long as nobody revokes one.                     *)
NeverLockedOut == revoked = {} => Live # {}

(* Key operations that did not overlap, fail or die leave exactly the keys  *)
(* an admin expects: a rotation puts one key in the place of one.           *)
KeysAddUp ==
  ~untidy /\ Changing = {} /\ (\A t \in Ops : pc[t] # "dead") =>
    Cardinality(Live) + Cardinality(revoked) = 1 + Cardinality(issued)

(* While one window of the clock lasts, a key gets no more requests through *)
(* than the limit from those that computed this window, and no more than    *)
(* the limit again from those that computed an earlier one and were counted *)
(* late, in a bucket that may have expired meanwhile.                       *)
WindowHolds == \A k \in Keys : \A w \in 0..MaxWindow : admitted[k][w] <= Limit

(* Where models.yaml can be replaced, a save or a crash in one never leaves *)
(* a file the engine would refuse to boot with, or none it had not before.  *)
FileAlwaysBoots == ~mounted => file \in Docs \cup {Absent} /\ Refused \notin Load(file)

(* A save that met no other one and is answered leaves its whole document   *)
(* or, after one failed call on the file, the content it found, on a mount  *)
(* point too; it takes a second failed call to leave anything else.         *)
SavesAllOrNothing ==
  [][\A t \in Ops \ met' :
       pc[t] \in Saving /\ pc'[t] # pc[t] =>
         /\ pc'[t] = "saved" => file' = IF doc[t] = NoId THEN Absent ELSE doc[t]
         /\ pc'[t] = "failed" /\ errors'[t] = 1 => file' = found[t]
    ]_gateVars

(* The two commands of a page: whatever is pushed and trimmed between them, *)
(* the page is a stretch of what was logged, newest first and of the length *)
(* that was promised, and reaches back no further than it was asked to.     *)
AuditPagesContiguous ==
  \A t \in Ops : page[t] # <<>> =>
    LET g == asked[t]
        n == Len(page[t])
    IN /\ n = Min({PageLimit, g.total - g.offset})
       /\ \E i \in 1..(Len(trail[g.list]) - n + 1) :
            /\ Reverse(page[t]) = SubSeq(trail[g.list], i, i + n - 1)
            /\ i + n - 1 >= g.known - g.offset
=============================================================================
