------------------------------ MODULE VectorDb ------------------------------
(***************************************************************************)
(* What the two vector stores have in common: one collection of one app,   *)
(* its chunks, the hypothetical questions about them, and the requests at  *)
(* work on them (controllers/rag_controller.py).                           *)
(*                                                                         *)
(* The chunks of one upload are written and deleted together and are one   *)
(* copy of the file, named by the request that uploaded it.  A question    *)
(* remembers its file, the copy its parent chunk belongs to, and the pass  *)
(* that wrote it.                                                          *)
(***************************************************************************)
EXTENDS Naturals, FiniteSets

CONSTANTS
  Ops,      \* requests; an upload or a regenerate goes on as a background pass
  May,      \* May[t]: what request t can be, and about which file
  Past,     \* uploads and passes that were over before the model starts
  Files,    \* file names
  NoColl,   \* no Chroma collection, and no handle of one
  MissBound,  \* bound: the requests a lookup of the questions may fail under
  Starts    \* the states the store may be in at first: backend, chunks, questions

Kinds  == {"upload", "deleteFile", "deleteCollection", "regenerate"}
Copies == Ops \cup Past
Chunks == Files \X Copies
Questions == [file : Files, parent : Copies, by : Copies]

ASSUME VectorDbAssumption ==
  /\ IsFiniteSet(Ops) /\ IsFiniteSet(Past) /\ IsFiniteSet(Files) /\ Files # {}
  /\ May \in [Ops -> SUBSET (Kinds \X Files)]
  /\ Ops \cap Past = {}
  /\ NoColl \notin Copies /\ MissBound \in Nat
  /\ Starts \subseteq [backend : {"pg", "chroma"}, chunks : SUBSET (Files \X Past),
                       questions : SUBSET [file : Files, parent : Past, by : Past],
                       coll : Past \cup {NoColl}]
  /\ \A s \in Starts :
       IF s.backend = "pg" THEN \A q \in s.questions : <<q.file, q.parent>> \in s.chunks
                           ELSE s.chunks # {} => s.coll # NoColl

VARIABLES
  backend,    \* get_vector_store: chosen once
  chunks,     \* the stored copies
  questions,  \* the stored questions
  coll,       \* Chroma's chunk collection, named by the upload that created it
  pc,         \* pc[t]: the call request t is about to make
  work,       \* work[t]: what it is
  file,       \* file[t]: the file it is about
  rows,       \* rows[t]: the copies it has read: to replace, or to ask questions about
  held,       \* held[t]: the rows its transaction has locked
  handle,     \* handle[t]: the collection object it works with
  lock,       \* the request that holds _collection_lock, NoColl when it is free
  marker,     \* the files with a pending marker in Redis
  mixed,      \* the files an upload's pass ever ran on, or whose marker expired
  company,    \* the requests in progress that ever ran beside another one
  missed      \* the requests a failed lookup of the questions ever told there are none

data   == <<backend, chunks, questions, coll>>
marks  == <<marker, mixed, missed>>
locals == <<rows, held, handle, lock>>
names  == <<work, file, company>>
vectorVars == <<data, pc, names, locals, marks>>

Passing == {"generate", "purgeOld", "store", "write", "clear", "abandon"}
Over    == {"done", "failed"}
Stages  == Passing \cup Over \cup
  {"idle", "see", "lockRows", "commit", "erase", "open", "read", "count", "add", "addFirst",
   "recheck", "drop", "dropQuestions", "deleteOld", "deleteChunks", "purge", "countLeft", "schedule"}

Busy == {t \in Ops : pc[t] \notin Over \cup {"idle"}}
Running(f) == {t \in Ops : pc[t] \in Passing /\ file[t] = f}
OfFile(f) == {r \in chunks : r[1] = f}
Asked(f) == {q \in questions : q.file = f}
MyChunksSwapped(t) == <<t, file[t]>>      \* mutant: the two are swapped
MyChunks(t) == <<file[t], t>>


(* collection_exists: Postgres derives it from the rows. *)
CollectionExists == IF backend = "pg" THEN chunks # {} ELSE coll # NoColl

Default == CHOOSE f \in Files : TRUE
Goto(t, stage) == pc' = [pc EXCEPT ![t] = stage]

(* The request is over, or its pass begins: what it held and knew is gone. *)
Let(t) ==
  /\ held' = [held EXCEPT ![t] = {}]
  /\ handle' = [handle EXCEPT ![t] = NoColl]
  /\ lock' = IF lock = t THEN NoColl ELSE lock
Return(t, stage) ==
  /\ Goto(t, stage)
  /\ rows' = [rows EXCEPT ![t] = {}]
  /\ work' = [work EXCEPT ![t] = "upload"]
  /\ file' = [file EXCEPT ![t] = Default]
  /\ company' = company \ {t}
  /\ Let(t)

(* After add_file: a pass is scheduled when improved_search was asked for   *)
(* and the deployment generates questions.                                  *)
Stored(t) ==
  \/ /\ rows' = [rows EXCEPT ![t] = {MyChunks(t)}]
     /\ Let(t)
     /\ Goto(t, "schedule")
     /\ UNCHANGED names
  \/ Return(t, "done")

Init ==
  /\ \E s \in Starts :
       /\ backend = s.backend
       /\ chunks = s.chunks
       /\ questions = s.questions
       /\ coll = s.coll
  /\ pc = [t \in Ops |-> "idle"]
  /\ work = [t \in Ops |-> "upload"]
  /\ file = [t \in Ops |-> Default]
  /\ rows = [t \in Ops |-> {}]
  /\ held = [t \in Ops |-> {}]
  /\ handle = [t \in Ops |-> NoColl]
  /\ lock = NoColl
  /\ marker = {}
  /\ mixed = {}
  /\ company = {}
  /\ missed = {}

(* A request arrives: handle_rag_upload and handle_upload_text (once per    *)
(* file), handle_delete_file, handle_delete_collection and                  *)
(* handle_regenerate_questions.  A 422 or a 404 found here changes nothing. *)
Begin(t, k, f) ==
  /\ pc[t] = "idle"
  /\ work' = [work EXCEPT ![t] = k]
  /\ file' = [file EXCEPT ![t] = f]
  /\ company' = IF Busy = {} THEN company ELSE company \cup Busy \cup {t}
  /\ Goto(t, IF k = "regenerate" THEN "read" ELSE IF backend = "pg" THEN "see" ELSE "open")
  /\ UNCHANGED <<data, locals, marks>>

(* file_chunks, before a regenerate: a file without chunks is a 404. *)
Collect(t) ==
  /\ pc[t] = "read" /\ work[t] = "regenerate"
  /\ OfFile(file[t]) # {}
  /\ rows' = [rows EXCEPT ![t] = OfFile(file[t])]
  /\ Goto(t, "schedule")
  /\ UNCHANGED <<data, names, held, handle, lock, marks>>

(* A call fails or raises, or its process ends: the request answers an      *)
(* error, and the transaction, the lock and the handle go with it.          *)
Fail(t) ==
  /\ t \in Busy /\ pc[t] \notin Passing
  /\ Return(t, "failed")
  /\ UNCHANGED <<data, marks>>
=============================================================================
