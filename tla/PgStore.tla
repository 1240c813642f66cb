------------------------------- MODULE PgStore -------------------------------
(***************************************************************************)
(* The pgvector store: utils/vectordb/pg.  PostgreSQL runs each statement  *)
(* READ COMMITTED: a DELETE sees the rows that were committed when it      *)
(* began, waits for transactions that have locked one of them, and leaves  *)
(* alone what they committed meanwhile.  Deleting a chunk deletes its      *)
(* questions.                                                              *)
(***************************************************************************)
EXTENDS VectorDb

Locked(t, S) == \E u \in Ops \ {t} : held[u] \cap S # {}

(* ON DELETE CASCADE: the questions left when chunks S are deleted. *)
AskedStill(S) == questions      \* mutant: the foreign key does not cascade
AskedWithout(S) == {q \in questions : <<q.file, q.parent>> \notin S}

(* The statement begins: DELETE_FILE, or DELETE_COLLECTION. *)
See(t) ==
  /\ pc[t] = "see"
  /\ rows' = [rows EXCEPT ![t] =
                IF work[t] = "deleteCollection" THEN chunks ELSE OfFile(file[t])]
  /\ Goto(t, IF work[t] = "upload" THEN "lockRows" ELSE "erase")
  /\ UNCHANGED <<data, names, held, handle, lock, marks>>

(* add_file_to_rag_db: one transaction, the DELETE and then the INSERT. *)
LockRows(t) ==
  /\ pc[t] = "lockRows"
  /\ ~Locked(t, rows[t])
  /\ held' = [held EXCEPT ![t] = rows[t] \cap chunks]
  /\ Goto(t, "commit")
  /\ UNCHANGED <<data, names, rows, handle, lock, marks>>

Commit(t) ==
  /\ pc[t] = "commit"
  /\ chunks' = (chunks \ held[t]) \cup {MyChunks(t)}
  /\ questions' = AskedWithout(held[t])
  /\ Stored(t)
  /\ UNCHANGED <<backend, coll, marks>>

(* delete_file_from_collection and delete_collection: a statement that      *)
(* deleted nothing is a 404.                                                *)
Erase(t) ==
  /\ pc[t] = "erase"
  /\ ~Locked(t, rows[t])
  /\ chunks' = chunks \ rows[t]
  /\ questions' = AskedWithout(rows[t])
  /\ Return(t, IF rows[t] \cap chunks = {} THEN "failed" ELSE "done")
  /\ UNCHANGED <<backend, coll, marks>>

(* store_questions: every parent row must exist when it is inserted, and is *)
(* locked against a DELETE; otherwise StaleChunksError and nothing stored.  *)
PgStoreQuestions(t) ==
  /\ pc[t] = "store" /\ backend = "pg"
  /\ ~Locked(t, rows[t])
  /\ IF rows[t] \subseteq chunks
       THEN /\ questions' = questions \cup {[file |-> r[1], parent |-> r[2], by |-> t] : r \in rows[t]}
            /\ Goto(t, "clear")
       ELSE /\ Goto(t, "abandon")
            /\ UNCHANGED questions
  /\ UNCHANGED <<backend, chunks, coll, names, locals, marks>>

PgStep(t) == See(t) \/ LockRows(t) \/ Commit(t) \/ Erase(t) \/ PgStoreQuestions(t)
=============================================================================
