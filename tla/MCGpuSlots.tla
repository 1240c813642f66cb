----------------------------- MODULE MCGpuSlots -----------------------------
(* Two buckets of one pool (the shared one and the reserved one).  Of two   *)
(* workers, the first still starts with the old count of the shared bucket  *)
(* (w1) before it is restarted with the new one (n1); the second (w2) has   *)
(* the new one already.                                                     *)
EXTENDS GpuSlots, TLC

CONSTANTS t1, t2, t3, w1, w2, n1, shared, hq

MCWorker == (w1 :> w1) @@ (n1 :> w1) @@ (w2 :> w2)
MCWorkers == (w1 :> w1) @@ (w2 :> w2)
MCProcOf == (t1 :> n1) @@ (t3 :> w2)
MCProcOf2 == (t1 :> w1) @@ (t2 :> w1) @@ (t3 :> w2)
MCBucketSeq == <<shared, hq>>
MCOneBucket == <<shared>>
MCOld == (shared :> 2) @@ (hq :> 1)
MCNew == (shared :> 1) @@ (hq :> 1)
MCSlots == (w1 :> MCOld) @@ (n1 :> MCNew) @@ (w2 :> MCNew)
MCSlots2 == [p \in Procs |-> (shared :> 2)]

(* A first deployment, and one that ran with the old counts. *)
MCFresh == {[b \in Buckets |-> Unset]}
MCAnyStart == MCFresh \cup {MCOld}
=============================================================================
