----------------------------- MODULE ChromaStore -----------------------------
(***************************************************************************)
(* The Chroma store: utils/vectordb/chroma.  No transactions and no        *)
(* foreign keys: an operation is a sequence of calls in a worker thread,   *)
(* and each call is one action.  Collections are first-class: a handle of  *)
(* a collection that was dropped is of no use, a drop is by name.  Only    *)
(* add_file_to_rag_db takes _collection_lock, from its emptiness check to  *)
(* the end of its rollback; the requests here share one process.           *)
(*                                                                         *)
(* The __hyq collection is represented by its rows: code that looks it up  *)
(* does the same whether it is missing or empty.  get_questions_collection *)
(* answers None to any exception, so code about to delete questions goes   *)
(* on without deleting them when the lookup itself fails.                  *)
(***************************************************************************)
EXTENDS VectorDb

(* A call through a handle succeeds while its collection exists; otherwise  *)
(* it raises, which is Fail.                                                *)
Good(t) == handle[t] # NoColl /\ handle[t] = coll

(* The questions S are deleted, or the lookup failed and they stay. *)
Unask(t, S) ==
  \/ questions' = questions \ S /\ UNCHANGED missed
  \/ /\ Cardinality(missed) < MissBound
     /\ missed' = missed \cup {t}
     /\ UNCHANGED questions

(* get_or_create_collection for an upload, get_owned_collection for a       *)
(* delete; the latter raises when there is none.                            *)
Open(t) ==
  /\ pc[t] = "open"
  /\ work[t] = "upload" \/ coll # NoColl
  /\ coll' = IF coll = NoColl THEN t ELSE coll
  /\ handle' = [handle EXCEPT ![t] = coll']
  /\ Goto(t, IF work[t] = "deleteCollection" THEN "drop" ELSE "read")
  /\ UNCHANGED <<backend, chunks, questions, names, rows, held, lock, marks>>

(* The ids stored for the file: an upload replaces them later, a delete     *)
(* answers 404 when there are none.                                         *)
Read(t) ==
  /\ pc[t] = "read" /\ work[t] # "regenerate"
  /\ Good(t)
  /\ work[t] = "deleteFile" => OfFile(file[t]) # {}
  /\ rows' = [rows EXCEPT ![t] = OfFile(file[t])]
  /\ Goto(t, IF work[t] = "upload" THEN "count" ELSE "deleteChunks")
  /\ UNCHANGED <<data, names, held, handle, lock, marks>>

CountUnlocked(t) ==      \* mutant: the emptiness check takes no lock
  /\ pc[t] = "count"
  /\ Good(t)
  /\ Goto(t, IF chunks = {} THEN "addFirst" ELSE "add")
  /\ UNCHANGED <<data, names, locals, marks>>
Count(t) ==
  /\ pc[t] = "count" /\ lock = NoColl
  /\ Good(t)
  /\ lock' = t
  /\ Goto(t, IF chunks = {} THEN "addFirst" ELSE "add")
  /\ UNCHANGED <<data, names, rows, held, handle, marks>>

(* The lock is released after the insert, before the old ids are deleted.   *)
Add(t) ==
  /\ pc[t] \in {"add", "addFirst"}
  /\ Good(t)
  /\ chunks' = chunks \cup {MyChunks(t)}
  /\ lock' = NoColl
  /\ Goto(t, IF rows[t] # {} THEN "deleteOld" ELSE "purge")
  /\ UNCHANGED <<backend, questions, coll, names, rows, held, handle, marks>>

(* The insert failed into what was an empty collection; in one that was not *)
(* empty that is Fail.  Only if it is still empty is it rolled back.        *)
AddFails(t) ==
  /\ pc[t] = "addFirst"
  /\ Goto(t, "recheck")
  /\ UNCHANGED <<data, names, locals, marks>>

Recheck(t) ==
  /\ pc[t] = "recheck"
  /\ Good(t) /\ chunks = {}
  /\ Goto(t, "drop")
  /\ UNCHANGED <<data, names, locals, marks>>

DeleteOld(t) ==
  /\ pc[t] = "deleteOld"
  /\ Good(t)
  /\ chunks' = chunks \ rows[t]
  /\ Goto(t, "purge")
  /\ UNCHANGED <<backend, questions, coll, names, locals, marks>>

DeleteChunks(t) ==
  /\ pc[t] = "deleteChunks"
  /\ Good(t)
  /\ chunks' = chunks \ OfFile(file[t])
  /\ Goto(t, "purge")
  /\ UNCHANGED <<backend, questions, coll, names, locals, marks>>

PurgeReplaced(t) ==      \* mutant: only the questions of the chunks it has read
  /\ pc[t] = "purge"
  /\ Unask(t, {q \in questions : <<q.file, q.parent>> \in rows[t]})
  /\ IF work[t] = "upload"
       THEN Stored(t)
       ELSE Goto(t, "countLeft") /\ UNCHANGED <<names, locals>>
  /\ UNCHANGED <<backend, chunks, coll, marker, mixed>>
(* The questions of the file, whichever copy they were made from. *)
Purge(t) ==
  /\ pc[t] = "purge"
  /\ Unask(t, Asked(file[t]))
  /\ IF work[t] = "upload"
       THEN Stored(t)
       ELSE Goto(t, "countLeft") /\ UNCHANGED <<names, locals>>
  /\ UNCHANGED <<backend, chunks, coll, marker, mixed>>

(* A collection that holds no chunks any more is dropped. *)
CountLeft(t) ==
  /\ pc[t] = "countLeft"
  /\ Good(t)
  /\ IF chunks = {}
       THEN Goto(t, "drop") /\ UNCHANGED <<names, locals>>
       ELSE Return(t, "done")
  /\ UNCHANGED <<data, marks>>

(* drop_collection, by name: the chunks, and then the questions. *)
Drop(t) ==
  /\ pc[t] = "drop"
  /\ coll # NoColl
  /\ coll' = NoColl
  /\ chunks' = {}
  /\ Goto(t, "dropQuestions")
  /\ UNCHANGED <<backend, questions, names, locals, marks>>

DropQuestions(t) ==
  /\ pc[t] = "dropQuestions"
  /\ Unask(t, questions)
  /\ Return(t, IF work[t] = "upload" THEN "failed" ELSE "done")
  /\ UNCHANGED <<backend, chunks, coll, marker, mixed>>

(* store_questions: the chunks that still exist, StaleChunksError if there  *)
(* are none; their questions are written after that check.                  *)
CheckParents(t) ==
  /\ pc[t] = "store" /\ backend = "chroma"
  /\ rows' = [rows EXCEPT ![t] = @ \cap chunks]
  /\ Goto(t, IF rows'[t] = {} THEN "abandon" ELSE "write")
  /\ UNCHANGED <<data, names, held, handle, lock, marks>>

Write(t) ==
  /\ pc[t] = "write"
  /\ questions' = questions \cup {[file |-> r[1], parent |-> r[2], by |-> t] : r \in rows[t]}
  /\ Goto(t, "clear")
  /\ UNCHANGED <<backend, chunks, coll, names, locals, marks>>

ChromaStep(t) ==
  \/ Open(t) \/ Read(t) \/ Count(t) \/ Add(t) \/ AddFails(t) \/ Recheck(t) \/ DeleteOld(t)
  \/ DeleteChunks(t) \/ Purge(t) \/ CountLeft(t) \/ Drop(t) \/ DropQuestions(t)
  \/ CheckParents(t) \/ Write(t)
=============================================================================
