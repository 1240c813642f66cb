------------------------------- MODULE ApiKeys -------------------------------
(***************************************************************************)
(* The API keys of one app in Redis: utils/store/api_keys.py under the     *)
(* issue, rotate and revoke handlers of controllers/admin_controller.py.   *)
(* A key is named by the request that made it.                             *)
(***************************************************************************)
EXTENDS RegistryFile

CONSTANTS
  First,      \* the key the app has in the beginning
  NoEntry,    \* no such key
  Scopes      \* the scopes an admin may ask for: models, {} for all, and a default

Keys == Ops \cup {First}
KeyEntries == [models : SUBSET Ids, default : Ids \cup {NoId}]

ASSUME KeysAssumption ==
  First \notin Ops /\ Scopes \subseteq KeyEntries /\ NoEntry \notin KeyEntries

VARIABLES
  keys,       \* keys[k]: the stored entry of key k
  target,     \* target[t]: the key request t rotates
  carried,    \* carried[t]: the entry it has read, or will store
  root,       \* root[k]: the scope an admin gave key k, or the key it was rotated from
  issued, revoked,   \* the keys issued and revoked
  untidy      \* key operations overlapped, or one ended half-way

keyVars == <<keys, target, carried, root, issued, revoked, untidy>>

Live     == {k \in Keys : keys[k] # NoEntry}
KeyStages == {"storeIssued", "storeRotated", "removeOld"}
Changing == {t \in Ops : pc[t] \in KeyStages}
Enter(t) == untidy' = (untidy \/ Changing # {})

(* _validate_model_scope: every model is declared, and the default is one   *)
(* the key would be allowed.                                                *)
ValidScope(reg, scope) ==
  /\ \A m \in scope.models : ResolveModel(reg, m, {}, NoId) # Refused
  /\ scope.default # NoId => ResolveModel(reg, scope.default, scope.models, NoId) # Refused

(* generate_api_key *)
Issue(t, p, scope) ==
  /\ pc[t] = "idle" /\ "issue" \in plan[t] /\ running[p] # Refused
  /\ ValidScope(running[p], scope)
  /\ home' = [home EXCEPT ![t] = p]
  /\ carried' = [carried EXCEPT ![t] = scope]
  /\ Enter(t)
  /\ Goto(t, "storeIssued")
  /\ UNCHANGED <<plan, auditVars, keys, target, root, issued, revoked>>

StoreIssued(t) ==
  /\ pc[t] = "storeIssued"
  /\ keys' = [keys EXCEPT ![t] = carried[t]]
  /\ root' = [root EXCEPT ![t] = carried[t]]
  /\ issued' = issued \cup {t}
  /\ Goto(t, "logKey")
  /\ UNCHANGED <<plan, home, auditVars, target, carried, revoked, untidy>>

(* rotate_api_key: the entry is read, *)
RotateRead(t, p, k) ==
  /\ pc[t] = "idle" /\ "rotate" \in plan[t] /\ running[p] # Refused
  /\ k \in Live
  /\ home' = [home EXCEPT ![t] = p]
  /\ target' = [target EXCEPT ![t] = k]
  /\ carried' = [carried EXCEPT ![t] = keys[k]]
  /\ Enter(t)
  /\ Goto(t, "storeRotated")
  /\ UNCHANGED <<plan, auditVars, keys, root, issued, revoked>>

RemoveEarly(t) ==        \* mutant: the old key goes before the new one is stored
  /\ pc[t] = "storeRotated"
  /\ keys' = [keys EXCEPT ![target[t]] = NoEntry]
  /\ root' = [root EXCEPT ![t] = root[target[t]]]
  /\ Goto(t, "removeOld")
  /\ UNCHANGED <<plan, home, auditVars, target, carried, issued, revoked, untidy>>

(* a new key stored with its scope, *)
StoreRotated(t) ==
  /\ pc[t] = "storeRotated"
  /\ keys' = [keys EXCEPT ![t] = carried[t]]
  /\ root' = [root EXCEPT ![t] = root[target[t]]]
  /\ Goto(t, "removeOld")
  /\ UNCHANGED <<plan, home, auditVars, target, carried, issued, revoked, untidy>>

RemoveNone(t) ==         \* mutant: the old key stays
  /\ pc[t] = "removeOld"
  /\ Goto(t, "logKey")
  /\ UNCHANGED <<plan, home, auditVars, keyVars>>

(* and the old one removed, if it is still there; when Redis fails to       *)
(* answer, the response warns that it may be.                               *)
RemoveOld(t) ==
  /\ pc[t] = "removeOld"
  /\ \/ /\ keys' = [keys EXCEPT ![target[t]] = NoEntry]
        /\ Goto(t, "logKey")
        /\ UNCHANGED untidy
     \/ /\ Goto(t, "warned")
        /\ untidy' = TRUE
        /\ keys' \in {keys, [keys EXCEPT ![target[t]] = NoEntry]}
  /\ UNCHANGED <<plan, home, auditVars, target, carried, root, issued, revoked>>

(* revoke_api_key_by_hash: a DEL that found nothing is a 404. *)
Revoke(t, p, k) ==
  /\ pc[t] = "idle" /\ "revoke" \in plan[t] /\ running[p] # Refused
  /\ k \in Live
  /\ home' = [home EXCEPT ![t] = p]
  /\ keys' = [keys EXCEPT ![k] = NoEntry]
  /\ revoked' = revoked \cup {k}
  /\ Enter(t)
  /\ Goto(t, "logKey")
  /\ UNCHANGED <<plan, auditVars, target, carried, root, issued>>

(* KEY_GENERATED, KEY_ROTATED or KEY_REVOKED; a rotation has its answer     *)
(* whether or not that fails.                                               *)
LogKey(t) ==
  /\ pc[t] = "logKey"
  /\ LogEvent(t, {"global"})
  /\ Goto(t, "done")
  /\ UNCHANGED <<plan, home, keyVars>>

(* Redis fails: the key was not stored; or it was and only the reply got    *)
(* lost, so that a key is valid that nobody was given; or the event was not *)
(* logged.                                                                  *)
KeyFails(t) ==
  /\ pc[t] \in {"storeIssued", "storeRotated", "logKey"}
  /\ Goto(t, "failed")
  /\ \/ UNCHANGED <<keys, root, untidy>>
     \/ /\ pc[t] # "logKey"
        /\ keys' = [keys EXCEPT ![t] = carried[t]]
        /\ root' = [root EXCEPT ![t] = IF pc[t] = "storeIssued" THEN carried[t] ELSE root[target[t]]]
        /\ untidy' = TRUE
  /\ UNCHANGED <<plan, home, auditVars, target, carried, issued, revoked>>

KeyStep(t) ==
  \/ \E p \in Procs : \/ \E s \in Scopes : Issue(t, p, s)
                      \/ \E k \in Keys : RotateRead(t, p, k) \/ Revoke(t, p, k)
  \/ StoreIssued(t) \/ StoreRotated(t) \/ RemoveOld(t) \/ LogKey(t) \/ KeyFails(t)
=============================================================================
