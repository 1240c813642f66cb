----------------------------- MODULE MCLlmCalls -----------------------------
(* Deployments of one process.                                             *)
EXTENDS LlmCalls, TLC

CONSTANTS a, b, c, d, e, f, g, w1, shared, other, hq

MCProcOf == [t \in Tasks |-> w1]
MCWorker == (w1 :> w1)
MCSized == {Slots[w1]}
MCHq == [p \in Procs |-> Slots[p][hq]]
MCOnShared == [t \in Tasks |-> shared]

(* Two pools of one slot, no reserved bucket.  The utility role is on the  *)
(* second pool, and the question pass competes for the first one.          *)
MCPools == <<shared, other, hq>>
MCPoolSlots == [p \in Procs |-> (shared :> 1) @@ (other :> 1) @@ (hq :> 0)]
MCPoolKinds == (a :> "chat") @@ (b :> "ask") @@ (c :> "compact") @@ (e :> "pass") @@ (f :> "hyq")
MCPoolParents == (a :> a) @@ (b :> b) @@ (c :> c) @@ (e :> e) @@ (f :> e)
MCPoolOf == (a :> shared) @@ (b :> other) @@ (c :> shared) @@ (e :> shared) @@ (f :> shared)

(* A comparison that maps two chunks of one document, next to a question   *)
(* pass with a reserved bucket and a chat whose model needs no token.      *)
MCReserved == <<shared, hq>>
MCFanSlots == [p \in Procs |-> (shared :> 1) @@ (hq :> 1)]
MCFanKinds == (a :> "chat") @@ (b :> "chunk") @@ (c :> "compare") @@ (d :> "chunk")
              @@ (e :> "digest") @@ (f :> "pass") @@ (g :> "hyq")
MCFanParents == (a :> a) @@ (b :> c) @@ (c :> c) @@ (d :> c) @@ (e :> c) @@ (f :> f) @@ (g :> f)
MCFanPoolOf == [t \in Tasks |-> IF t = a THEN NoPool ELSE shared]

(* A map of two chunks alone, with room for both. *)
MCRoomySlots == [p \in Procs |-> (shared :> 2) @@ (hq :> 1)]
MCMapKinds == (a :> "summary") @@ (b :> "chunk") @@ (c :> "chunk")
MCMapParents == [t \in Tasks |-> a]
=============================================================================
