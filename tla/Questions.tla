------------------------------ MODULE Questions ------------------------------
(***************************************************************************)
(* Hypothetical questions: the background passes of                        *)
(* utils/vectordb/questions.py, over either vector store.  An upload that  *)
(* asks for improved_search schedules a pass for the chunks it stored; the *)
(* regenerate endpoint schedules one for the chunks it found, only if no   *)
(* pass of the file is pending, and replaces the old questions.  A marker  *)
(* in Redis says that a pass is pending; it expires after _PENDING_TTL.    *)
(***************************************************************************)
EXTENDS PgStore, ChromaStore

(* What the status endpoint reports. *)
GenerationPending(f) == f \in marker

Exclusive(t) == work[t] = "regenerate"

ScheduleAnyway(t) ==      \* mutant: the marker of a regenerate is set without NX
  /\ pc[t] = "schedule"
  /\ marker' = marker \cup {file[t]}
  /\ mixed' = IF Exclusive(t) THEN mixed ELSE mixed \cup {file[t]}
  /\ Goto(t, "generate")
  /\ UNCHANGED <<data, names, locals, missed>>

(* schedule_question_generation: the marker is set, with NX for a           *)
(* regenerate, and the task created.  A regenerate that finds it is a 409.  *)
Schedule(t) ==
  /\ pc[t] = "schedule"
  /\ Exclusive(t) => file[t] \notin marker
  /\ marker' = marker \cup {file[t]}
  /\ mixed' = IF Exclusive(t) THEN mixed ELSE mixed \cup {file[t]}
  /\ Goto(t, "generate")
  /\ UNCHANGED <<data, names, locals, missed>>

AlreadyRunning(t) ==
  /\ pc[t] = "schedule" /\ Exclusive(t) /\ file[t] \in marker
  /\ Return(t, "failed")
  /\ UNCHANGED <<data, marks>>

(* generate_and_store_questions: a chunk whose call fails is skipped; when  *)
(* there is no question at all the old ones stay.                           *)
Generate(t) ==
  /\ pc[t] = "generate"
  /\ \/ Goto(t, "clear")
     \/ Goto(t, IF Exclusive(t) THEN "purgeOld" ELSE "store")
  /\ UNCHANGED <<data, names, locals, marks>>

PurgeNothing(t) ==      \* mutant: the old questions stay
  /\ pc[t] = "purgeOld"
  /\ Goto(t, "store")
  /\ UNCHANGED <<data, names, locals, marks>>
(* delete_questions_for_file: on Chroma a failed lookup skips it, and the   *)
(* pass stores its questions beside the old ones.                           *)
PurgeOld(t) ==
  /\ pc[t] = "purgeOld"
  /\ \/ questions' = questions \ Asked(file[t]) /\ UNCHANGED missed
     \/ backend = "chroma" /\ Unask(t, Asked(file[t]))
  /\ Goto(t, "store")
  /\ UNCHANGED <<backend, chunks, coll, names, locals, marker, mixed>>

(* _run_generation: an exception ends the pass, which clears the marker;    *)
(* a DEL that fails leaves it to its TTL.                                   *)
Abandon(t) ==
  /\ pc[t] \in Passing \ {"clear", "abandon"}
  /\ Goto(t, "abandon")
  /\ UNCHANGED <<data, names, locals, marks>>

Clear(t) ==
  /\ pc[t] \in {"clear", "abandon"}
  /\ marker' \in {marker, marker \ {file[t]}}
  /\ Return(t, IF pc[t] = "clear" THEN "done" ELSE "failed")
  /\ UNCHANGED <<data, mixed, missed>>

(* The process of a pass ends: nobody clears its marker. *)
Die(t) ==
  /\ pc[t] \in Passing
  /\ Return(t, "failed")
  /\ UNCHANGED <<data, marks>>

ExpireNever(f) == FALSE      \* mutant: the marker is set without a TTL
(* _PENDING_TTL is over; a pass may still be running. *)
Expire(f) ==
  /\ f \in marker
  /\ marker' = marker \ {f}
  /\ mixed' = mixed \cup {f}
  /\ UNCHANGED <<data, pc, names, locals, missed>>

PassStep(t) ==
  \/ Schedule(t) \/ AlreadyRunning(t) \/ Generate(t) \/ PurgeOld(t) \/ Abandon(t) \/ Clear(t) \/ Die(t)

Step(t) ==
  \/ \E m \in May[t] : Begin(t, m[1], m[2])
  \/ Collect(t) \/ Fail(t) \/ PgStep(t) \/ ChromaStep(t) \/ PassStep(t)

Next == (\E t \in Ops : Step(t)) \/ (\E f \in Files : Expire(f))

Spec == Init /\ [][Next]_vectorVars

(* Redis expires a key that is not set again. *)
TimedSpec == Spec /\ \A f \in Files : WF_vectorVars(Expire(f))
-----------------------------------------------------------------------------
TypeOK ==
  /\ backend \in {"pg", "chroma"}
  /\ chunks \subseteq Chunks
  /\ questions \subseteq Questions
  /\ coll \in Copies \cup {NoColl}
  /\ pc \in [Ops -> Stages]
  /\ work \in [Ops -> Kinds]
  /\ file \in [Ops -> Files]
  /\ rows \in [Ops -> SUBSET Chunks] /\ held \in [Ops -> SUBSET Chunks]
  /\ handle \in [Ops -> Copies \cup {NoColl}]
  /\ lock \in Ops \cup {NoColl}
  /\ marker \subseteq Files /\ mixed \subseteq Files
  /\ company \subseteq Ops /\ missed \subseteq Ops

(* An upload that replaces a file leaves it searchable all the time: none   *)
(* of its steps takes the last copy of a file away, whatever else runs.     *)
ReplacingNeverEmpties ==
  [][\A t \in Ops, f \in Files :
       work[t] = "upload" /\ pc[t] # "idle" /\ pc'[t] # pc[t] /\ OfFile(f) # {} => OfFile(f)' # {}
    ]_vectorVars

(* The foreign key's promise: no question outlives its chunk. *)
PgKeepsParents ==
  backend = "pg" => \A q \in questions : <<q.file, q.parent>> \in chunks

(* A request that met nobody else leaves its file in order, whatever        *)
(* earlier races and failures left behind.  Its chunks always: an upload    *)
(* leaves its own copy, a delete nothing, and a collection exists exactly   *)
(* as long as it holds chunks.  Its questions unless a lookup of the        *)
(* questions failed under it, which it does not notice: none stays of a     *)
(* chunk that is gone, and those a pass has stored are the only ones.       *)
ChunksHealed(t, f, k) ==
  /\ k = "upload" => OfFile(f) = {<<f, t>>}
  /\ k = "deleteFile" => OfFile(f) = {}
  /\ k = "deleteCollection" => chunks = {}
  /\ CollectionExists <=> chunks # {}
QuestionsHealed(t, f, k) ==
  /\ k = "upload" => \A q \in Asked(f) : q.parent = t /\ q.by = t
  /\ k = "deleteFile" => Asked(f) = {}
  /\ k = "deleteCollection" => questions = {}
  /\ k = "regenerate" =>
       \/ \A q \in Asked(f) : q.by # t
       \/ {<<q.file, q.parent>> : q \in Asked(f)} = OfFile(f) /\ \A q \in Asked(f) : q.by = t
LoneRequestsHeal ==
  [][\A t \in Ops \ company, f \in Files, k \in Kinds :
       file[t] = f /\ work[t] = k /\ pc[t] # "done" /\ pc'[t] = "done" =>
         ChunksHealed(t, f, k)' /\ (t \notin missed => QuestionsHealed(t, f, k))'
    ]_vectorVars

(* Only regenerates have run passes on the file, and no marker expired:     *)
(* then they take turns, the status endpoint sees each one that runs, and   *)
(* a pass that found the questions to replace leaves none of an earlier one *)
(* and gets none of a later one beside it, unless that one missed them.     *)
PassesTakeTurns ==
  \A f \in Files \ mixed :
    /\ Cardinality(Running(f)) <= 1
    /\ Running(f) # {} => GenerationPending(f)
OneIndexPerFile ==
  \A f \in Files \ mixed : \A q, r \in Asked(f) :
    q.by \in Ops /\ {q.by, r.by} \cap missed = {} => r.by = q.by

(* A marker goes away, however its pass ended: a file can always be         *)
(* regenerated again.                                                       *)
PendingEnds == \A f \in Files : []<>(f \notin marker)

(* A collection is only dropped for being empty: chunks whose upload was    *)
(* answered are not dropped with it, except by a delete of the collection.  *)
OnlyEmptyDropped ==
  [][\A t \in Ops : Drop(t) => work[t] = "deleteCollection" \/ chunks = {}]_vectorVars
=============================================================================
