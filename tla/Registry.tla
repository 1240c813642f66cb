------------------------------ MODULE Registry ------------------------------
(***************************************************************************)
(* The model registry as a value: models/registry.py and the order in      *)
(* which dependencies/models.py picks the model of a request.              *)
(*                                                                         *)
(* A document is what models.yaml holds: its entries in order, the default *)
(* and the model of each role, each NoId when left out, and whether its    *)
(* pools and its top-level keys pass.  An entry is its id and whether its  *)
(* other fields pass.                                                      *)
(***************************************************************************)
EXTENDS Naturals, Sequences, FiniteSets, SequencesExt

CONSTANTS
  Ids,          \* model ids
  NoId,         \* no model named
  Synthetic,    \* _SYNTHESIZED_ID, the model of a deployment without a file
  Refused       \* ModelConfigError, or UnknownModelError

ASSUME RegistryAssumption ==
  /\ Synthetic \in Ids
  /\ NoId \notin Ids /\ Refused \notin Ids \cup {NoId}

Entries    == [id : Ids, sound : BOOLEAN]
Roles      == {"utility", "background"}      \* ROLES
Documents  == [entries : Seq(Entries), default : Ids \cup {NoId},
               roles : [Roles -> Ids \cup {NoId}], sound : BOOLEAN]
Registries == [models : Seq(Ids), default : Ids, roles : [Roles -> Ids]]
ASSUME RefusedAssumption == Refused \notin Registries

Declared(doc) == {doc.entries[i].id : i \in DOMAIN doc.entries}

(* build_registry: every entry passes, no id twice, the default and the     *)
(* roles name declared models, and the pools and the keys pass.              *)
Valid(doc) ==
  /\ doc.sound /\ doc.entries # <<>>
  /\ \A i \in DOMAIN doc.entries : doc.entries[i].sound
  /\ Cardinality(Declared(doc)) = Len(doc.entries)
  /\ ({doc.default} \cup {doc.roles[r] : r \in Roles}) \ {NoId} \subseteq Declared(doc)

Or(id, other) == IF id = NoId THEN other ELSE id
BuildUndefaulted(doc) ==      \* mutant: no default is taken from the entries
  IF Valid(doc)
    THEN [models |-> [i \in DOMAIN doc.entries |-> doc.entries[i].id],
          default |-> doc.default, roles |-> [r \in Roles |-> Or(doc.roles[r], doc.default)]]
    ELSE Refused
Build(doc) ==
  LET default == Or(doc.default, doc.entries[1].id)
  IN IF Valid(doc)
       THEN [models |-> [i \in DOMAIN doc.entries |-> doc.entries[i].id],
             default |-> default, roles |-> [r \in Roles |-> Or(doc.roles[r], default)]]
       ELSE Refused

Synthesized ==
  [models |-> <<Synthetic>>, default |-> Synthetic, roles |-> [r \in Roles |-> Synthetic]]

(* The models a key may use; {} is every model. *)
Permitted(reg, allowed) == {m \in ToSet(reg.models) : allowed = {} \/ m \in allowed}

(* resolve_model: the model that was asked for or nothing, else the first   *)
(* permitted one of the key's default, the registry's, and all in order.    *)
ResolveModel(reg, requested, allowed, keyDefault) ==
  LET candidates == IF requested # NoId THEN <<requested>>
                                        ELSE <<keyDefault, reg.default>> \o reg.models
      hits == {i \in DOMAIN candidates : candidates[i] \in Permitted(reg, allowed)}
  IN IF hits = {} THEN Refused ELSE candidates[Min(hits)]

(* Mutants: the session's model is not checked against the key, or is taken *)
(* for one the request asked for.                                           *)
ResolveTrusting(reg, requested, session, entry) ==
  IF requested = NoId /\ session \in ToSet(reg.models)
    THEN session ELSE ResolveModel(reg, requested, entry.models, entry.default)
ResolveStrictly(reg, requested, session, entry) ==
  ResolveModel(reg, Or(requested, session), entry.models, entry.default)

(* resolve_model_or_400: a session's model the key may no longer use counts *)
(* as none.                                                                 *)
ResolveRequest(reg, requested, session, entry) ==
  LET ofSession == ResolveModel(reg, session, entry.models, NoId)
  IN IF requested = NoId /\ session # NoId /\ ofSession # Refused
       THEN ofSession
       ELSE ResolveModel(reg, requested, entry.models, entry.default)
=============================================================================
