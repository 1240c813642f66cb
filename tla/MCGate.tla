------------------------------- MODULE MCGate -------------------------------
(* Two processes and an app with one key.  What the requests can be comes   *)
(* in five plans: keys change, a file changes, two saves meet, requests     *)
(* compete for a window, and the audit list is read while it grows.         *)
EXTENDS Gate, TLC

CONSTANTS a, b, c, d, p, q, fast, smart, alone, k0, none, noEntry, refused, unknown, absent, empty, torn, unread

MCKeysChange  == (a :> {"rotate"}) @@ (b :> {"rotate", "revoke", "issue"}) @@ (c :> {"ask"}) @@ (d :> {})
MCFilesChange == (a :> {"save"}) @@ (b :> {}) @@ (c :> {"ask"}) @@ (d :> {})
MCTwoFiles    == (a :> {"save"}) @@ (b :> {"save"}) @@ (c :> {}) @@ (d :> {})
MCCrowd       == (a :> {"ask"}) @@ (b :> {"ask"}) @@ (c :> {}) @@ (d :> {})
MCReading     == (a :> {"revoke"}) @@ (b :> {"ask"}) @@ (c :> {"issue"}) @@ (d :> {"audit"})

Sound(id) == [id |-> id, sound |-> TRUE]
MCDoc(entries, default, background) ==
  [entries |-> entries, default |-> default,
   roles |-> ("utility" :> none) @@ ("background" :> background), sound |-> TRUE]
MCBoth   == MCDoc(<<Sound(fast), Sound(smart)>>, smart, none)
MCOther  == MCDoc(<<Sound(smart)>>, none, smart)
MCTwice  == MCDoc(<<Sound(fast), Sound(fast)>>, none, none)
MCDocs   == {MCBoth, MCOther, MCTwice}

Scope(models, default) == [models |-> models, default |-> default]
MCScopes == {Scope({}, smart), Scope({fast}, none), Scope({fast}, smart)}
MCStart(ops, mount, content, scope, model, from) ==
  [plan |-> ops, mounted |-> mount, file |-> content, entry |-> scope, bound |-> model,
   clock |-> from]
MCBoot ==
  {MCStart(MCKeysChange, FALSE, MCBoth, Scope({fast}, none), smart, 2),
   MCStart(MCKeysChange, FALSE, absent, Scope({}, none), fast, 2),
   MCStart(MCFilesChange, FALSE, MCBoth, Scope({fast}, none), smart, 2),
   MCStart(MCTwoFiles, FALSE, absent, Scope({smart, fast}, fast), none, 2),
   MCStart(MCTwoFiles, TRUE, MCBoth, Scope({smart, fast}, fast), none, 2),
   MCStart(MCCrowd, FALSE, MCBoth, Scope({smart, fast}, fast), none, 0),
   MCStart(MCReading, FALSE, MCBoth, Scope({}, smart), none, 2)}

MCAsk(k, id, inSession) == [key |-> k, model |-> id, session |-> inSession]
MCCalls == {MCAsk(k0, none, TRUE), MCAsk(a, smart, TRUE), MCAsk(b, none, FALSE), MCAsk(unknown, fast, FALSE)}
=============================================================================
