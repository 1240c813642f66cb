----------------------------- MODULE MCSessions -----------------------------
(* Up to three requests on one session.  One exchange is kept verbatim, so  *)
(* that two are enough to have something to fold.                           *)
EXTENDS Sessions, TLC

CONSTANTS a, b, c, p, q, r, known

MCMay == (a :> {"turn"}) @@ (b :> {"turn", "compact", "undo"}) @@ (c :> {"delete", "wipe"})
MCTurns == [t \in Ops |-> {"turn"}]

(* A summary, a turn that failed before an answer, and an exchange. *)
MCFolded == <<Prompt, [role |-> "summary", tells |-> {<<p, "said">>, <<p, "heard">>}],
              Says(q), Says(r), Reply(r)>>
MCStarts == {MCFolded}
MCShort == {<<Prompt, Says(p), Reply(p)>>}
MCNone == {<<>>}
=============================================================================
