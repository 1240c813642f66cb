--------------------------- MODULE QuestionsProofs ---------------------------
(***************************************************************************)
(* Proofs about the vector stores and the background passes over them, for *)
(* any number of requests, files and copies.                               *)
(***************************************************************************)
EXTENDS Questions, FiniteSetTheorems, TLAPS

LEMMA Places ==
  /\ Default \in Files
  /\ NoColl \in Copies \cup {NoColl} /\ Ops \subseteq Copies
  /\ \A r \in Chunks : r[1] \in Files /\ r[2] \in Copies /\ r = <<r[1], r[2]>>
BY VectorDbAssumption DEF Default, Copies, Chunks

LEMMA OverAreStages == {"done", "failed"} \subseteq Stages
BY DEF Stages, Over

(* What is left of a request that is over, and the pass an upload becomes.  *)
LEMMA Returned ==
  ASSUME TypeOK, NEW t \in Ops, NEW s \in Stages, Return(t, s)
  PROVE  /\ pc' \in [Ops -> Stages] /\ work' \in [Ops -> Kinds] /\ file' \in [Ops -> Files]
         /\ rows' \in [Ops -> SUBSET Chunks] /\ held' \in [Ops -> SUBSET Chunks]
         /\ handle' \in [Ops -> Copies \cup {NoColl}] /\ lock' \in Ops \cup {NoColl}
         /\ company' \subseteq Ops
         /\ pc'[t] = s /\ rows'[t] = {}
         /\ \A u \in Ops \ {t} : /\ pc'[u] = pc[u] /\ work'[u] = work[u]
                                /\ file'[u] = file[u] /\ rows'[u] = rows[u]
BY Places DEF TypeOK, Return, Let, Goto, Kinds

LEMMA StoredTyped ==
  ASSUME TypeOK, NEW t \in Ops, Stored(t)
  PROVE  /\ pc' \in [Ops -> Stages] /\ work' \in [Ops -> Kinds] /\ file' \in [Ops -> Files]
         /\ rows' \in [Ops -> SUBSET Chunks] /\ held' \in [Ops -> SUBSET Chunks]
         /\ handle' \in [Ops -> Copies \cup {NoColl}] /\ lock' \in Ops \cup {NoColl}
         /\ company' \subseteq Ops
         /\ \/ /\ pc'[t] = "schedule" /\ file'[t] = file[t] /\ work'[t] = work[t]
               /\ rows'[t] = {MyChunks(t)}
            \/ pc'[t] = "done" /\ rows'[t] = {}
         /\ \A u \in Ops \ {t} : /\ pc'[u] = pc[u] /\ work'[u] = work[u]
                                /\ file'[u] = file[u] /\ rows'[u] = rows[u]
<1>1. CASE Return(t, "done")
  BY <1>1, Returned, OverAreStages
<1>2. CASE /\ rows' = [rows EXCEPT ![t] = {MyChunks(t)}]
           /\ Let(t) /\ Goto(t, "schedule") /\ UNCHANGED names
  <2>1. MyChunks(t) \in Chunks
    BY Places DEF MyChunks, Chunks, TypeOK
  <2>2. "schedule" \in Stages
    BY DEF Stages
  <2> QED
    BY <1>2, <2>1, <2>2, Places DEF TypeOK, Let, Goto, names
<1> QED
  BY <1>1, <1>2 DEF Stored

LEMMA MovedOn ==
  ASSUME NEW t \in Ops, NEW s \in Stages, pc \in [Ops -> Stages], Goto(t, s)
  PROVE  pc' \in [Ops -> Stages] /\ pc'[t] = s /\ \A u \in Ops \ {t} : pc'[u] = pc[u]
BY DEF Goto

(* The questions of a pass have the types of the table. *)
LEMMA AskedTyped ==
  ASSUME NEW t \in Ops, NEW S \in SUBSET Chunks
  PROVE  {[file |-> r[1], parent |-> r[2], by |-> t] : r \in S} \subseteq Questions
BY Places DEF Questions

LEMMA TypeInit == Init => TypeOK
<1> SUFFICES ASSUME Init PROVE TypeOK
  OBVIOUS
<1>1. PICK s \in Starts : /\ backend = s.backend /\ chunks = s.chunks
                          /\ questions = s.questions /\ coll = s.coll
  BY DEF Init
<1>2. /\ backend \in {"pg", "chroma"} /\ chunks \subseteq Files \X Past
      /\ questions \subseteq [file : Files, parent : Past, by : Past] /\ coll \in Past \cup {NoColl}
  BY <1>1, VectorDbAssumption
<1>3. chunks \subseteq Chunks /\ questions \subseteq Questions /\ coll \in Copies \cup {NoColl}
  BY <1>2 DEF Chunks, Questions, Copies
<1> QED
  BY <1>2, <1>3, Places DEF Init, TypeOK, Stages, Kinds

(* A lookup that failed is not forgotten. *)
LEMMA MissedGrows ==
  ASSUME TypeOK, [Next]_vectorVars
  PROVE  missed \subseteq missed' /\ missed' \subseteq Ops
<1> USE DEF data, marks, locals, names
<1>a. missed \subseteq Ops
  BY DEF TypeOK
<1>1. ASSUME NEW t \in Ops, NEW S, Unask(t, S) PROVE missed \subseteq missed' /\ missed' \subseteq Ops
  BY <1>1, <1>a DEF Unask
<1>2. ASSUME NEW t \in Ops, Purge(t) \/ DropQuestions(t) \/ PurgeOld(t)
      PROVE  missed \subseteq missed' /\ missed' \subseteq Ops
  <2>1. UNCHANGED missed \/ \E S \in {Asked(file[t]), questions} : Unask(t, S)
    BY <1>2 DEF Purge, DropQuestions, PurgeOld
  <2> QED
    BY <2>1, <1>1, <1>a
<1>3. ASSUME NEW t \in Ops, Step(t), ~(Purge(t) \/ DropQuestions(t) \/ PurgeOld(t))
      PROVE  UNCHANGED missed
  BY <1>3 DEF Step, Begin, Collect, Fail, PgStep, See, LockRows, Commit, Erase, PgStoreQuestions,
              ChromaStep, Open, Read, Count, Add, AddFails, Recheck, DeleteOld, DeleteChunks,
              CountLeft, Drop, CheckParents, Write, PassStep, Schedule, AlreadyRunning,
              Generate, Abandon, Clear, Die
<1>4. ASSUME NEW f \in Files, Expire(f) PROVE UNCHANGED missed
  BY <1>4 DEF Expire
<1>5. CASE UNCHANGED vectorVars
  BY <1>5, <1>a DEF vectorVars
<1> QED
  BY <1>2, <1>3, <1>4, <1>5, <1>a DEF Next

(* Deleting questions leaves a part of them. *)
LEMMA UnaskedLess ==
  ASSUME NEW t, NEW S, Unask(t, S)
  PROVE  questions' \subseteq questions
BY DEF Unask

LEMMA TypeStep == TypeOK /\ [Next]_vectorVars => TypeOK'
<1> SUFFICES ASSUME TypeOK, [Next]_vectorVars PROVE TypeOK'
  OBVIOUS
<1> USE DEF data, marks, locals, names
<1>m. missed' \subseteq Ops
  BY MissedGrows
<1>a. /\ pc \in [Ops -> Stages] /\ questions \subseteq Questions /\ chunks \subseteq Chunks
      /\ marker \subseteq Files /\ mixed \subseteq Files /\ coll \in Copies \cup {NoColl}
      /\ rows \in [Ops -> SUBSET Chunks] /\ file \in [Ops -> Files]
  BY DEF TypeOK
<1>1. ASSUME NEW t \in Ops, NEW m \in May[t], Begin(t, m[1], m[2]) PROVE TypeOK'
  <2>1. m[1] \in Kinds /\ m[2] \in Files
    BY VectorDbAssumption
  <2>2. \E s \in {"read", "see", "open"} : Goto(t, s)
    BY <1>1 DEF Begin
  <2>3. {"read", "see", "open"} \subseteq Stages /\ Busy \subseteq Ops
    BY DEF Stages, Busy
  <2>4. pc' \in [Ops -> Stages]
    BY <2>2, <2>3, <1>a, MovedOn
  <2> QED
    BY <1>1, <2>1, <2>3, <2>4 DEF Begin, TypeOK
<1>2. ASSUME NEW t \in Ops, Collect(t) PROVE TypeOK'
  <2>1. OfFile(file[t]) \subseteq Chunks /\ "schedule" \in Stages
    BY <1>a DEF OfFile, Stages
  <2>2. pc' \in [Ops -> Stages]
    BY <1>2, <2>1, <1>a, MovedOn DEF Collect
  <2> QED
    BY <1>2, <2>1, <2>2 DEF Collect, TypeOK
<1>3. ASSUME NEW t \in Ops, NEW s \in {"done", "failed"}, Return(t, s),
             backend' = backend, coll' = coll, chunks' \subseteq Chunks,
             questions' \subseteq Questions, marker' \subseteq Files, mixed' = mixed
      PROVE  TypeOK'
  BY <1>3, <1>m, Returned, OverAreStages DEF TypeOK
<1>4. ASSUME NEW t \in Ops, Fail(t) \/ AlreadyRunning(t) \/ Die(t) PROVE TypeOK'
  BY <1>4, <1>3, <1>a DEF Fail, AlreadyRunning, Die
<1>5. ASSUME NEW t \in Ops, Clear(t) PROVE TypeOK'
  BY <1>5, <1>3, <1>a DEF Clear
<1>6. ASSUME NEW t \in Ops, NEW s \in Stages, Goto(t, s), UNCHANGED <<backend, names, held>>,
             chunks' \subseteq Chunks, questions' \subseteq Questions, coll' \in Copies \cup {NoColl},
             rows' \in [Ops -> SUBSET Chunks], handle' \in [Ops -> Copies \cup {NoColl}],
             lock' \in Ops \cup {NoColl}, marker' \subseteq Files, mixed' \subseteq Files
      PROVE  TypeOK'
  BY <1>6, <1>a, <1>m, MovedOn DEF TypeOK
<1>7. ASSUME NEW t \in Ops, NEW s \in Stages, Goto(t, s), UNCHANGED <<data, names, locals, marks>>
      PROVE  TypeOK'
  BY <1>7, <1>a, MovedOn DEF TypeOK
<1>8. ASSUME NEW t \in Ops, Generate(t) \/ Abandon(t) \/ AddFails(t) \/ Recheck(t) PROVE TypeOK'
  <2>1. \E s \in {"clear", "purgeOld", "store", "abandon", "recheck", "drop"} :
          Goto(t, s) /\ UNCHANGED <<data, names, locals, marks>>
    BY <1>8 DEF Generate, Abandon, AddFails, Recheck
  <2>2. {"clear", "purgeOld", "store", "abandon", "recheck", "drop"} \subseteq Stages
    BY DEF Stages, Passing
  <2> QED
    BY <2>1, <2>2, <1>7
<1>9. ASSUME NEW t \in Ops, Schedule(t) \/ PurgeOld(t) PROVE TypeOK'
  <2>1. {"generate", "store"} \subseteq Stages
    BY DEF Stages, Passing
  <2>2. pc' \in [Ops -> Stages]
    BY <1>9, <2>1, <1>a, MovedOn DEF Schedule, PurgeOld
  <2>3. PurgeOld(t) => questions' \subseteq questions
    BY UnaskedLess DEF PurgeOld
  <2> QED
    BY <1>9, <2>2, <2>3, <1>a, <1>m DEF Schedule, PurgeOld, TypeOK
<1>10. ASSUME NEW t \in Ops, See(t) \/ LockRows(t) \/ Erase(t) \/ Commit(t) \/ PgStoreQuestions(t)
       PROVE  TypeOK'
  <2>1. \A S : AskedWithout(S) \subseteq Questions
    BY <1>a DEF AskedWithout
  <2>2. OfFile(file[t]) \subseteq Chunks /\ MyChunks(t) \in Chunks
    BY <1>a, Places DEF OfFile, MyChunks, Chunks
  <2>3. CASE See(t) \/ LockRows(t)
    <3>1. {"lockRows", "erase", "commit"} \subseteq Stages
      BY DEF Stages
    <3>2. pc' \in [Ops -> Stages]
      BY <2>3, <3>1, <1>a, MovedOn DEF See, LockRows
    <3> QED
      BY <2>2, <2>3, <3>2, <1>a DEF See, LockRows, TypeOK
  <2>4. CASE Erase(t)
    <3>1. \E s \in {"done", "failed"} : Return(t, s)
      BY <2>4 DEF Erase
    <3> QED
      BY <2>1, <2>4, <3>1, <1>3, <1>a DEF Erase
  <2>5. CASE Commit(t)
    <3>1. chunks' \subseteq Chunks /\ questions' \subseteq Questions
      BY <2>1, <2>2, <2>5, <1>a DEF Commit
    <3> QED
      BY <2>5, <3>1, StoredTyped DEF Commit, TypeOK
  <2>6. CASE PgStoreQuestions(t)
    <3>1. {"clear", "abandon"} \subseteq Stages
      BY DEF Stages, Passing
    <3>2. \E s \in {"clear", "abandon"} : Goto(t, s)
      BY <2>6 DEF PgStoreQuestions
    <3>3. rows[t] \subseteq Chunks
      BY <1>a
    <3>4. questions' \subseteq Questions
      BY <2>6, <3>3, <1>a, AskedTyped DEF PgStoreQuestions
    <3>5. pc' \in [Ops -> Stages]
      BY <3>1, <3>2, <1>a, MovedOn
    <3> QED
      BY <2>6, <3>4, <3>5 DEF PgStoreQuestions, TypeOK
  <2> QED
    BY <1>10, <2>3, <2>4, <2>5, <2>6
<1>11. ASSUME NEW t \in Ops, Open(t) \/ Read(t) \/ Count(t) \/ Add(t) \/ DeleteOld(t) \/ DeleteChunks(t)
                             \/ Drop(t) \/ CheckParents(t)
       PROVE  TypeOK'
  <2>1. {"drop", "read", "count", "deleteChunks", "addFirst", "add", "deleteOld", "purge",
         "dropQuestions", "abandon", "write"} \subseteq Stages
    BY DEF Stages, Passing
  <2>2. \E s \in Stages : Goto(t, s)
    BY <1>11, <2>1 DEF Open, Read, Count, Add, DeleteOld, DeleteChunks, Drop, CheckParents
  <2>3. OfFile(file[t]) \subseteq Chunks /\ MyChunks(t) \in Chunks /\ t \in Copies
    BY <1>a, Places DEF OfFile, MyChunks, Chunks
  <2>4. pc' \in [Ops -> Stages]
    BY <2>2, <1>a, MovedOn
  <2>5. CASE Open(t) \/ Read(t) \/ Count(t)
    BY <2>3, <2>4, <2>5 DEF Open, Read, Count, TypeOK
  <2>6. CASE Add(t) \/ DeleteOld(t) \/ DeleteChunks(t)
    BY <2>3, <2>4, <2>6 DEF Add, DeleteOld, DeleteChunks, TypeOK
  <2>7. CASE Drop(t) \/ CheckParents(t)
    BY <2>4, <2>7 DEF Drop, CheckParents, TypeOK
  <2> QED
    BY <1>11, <2>5, <2>6, <2>7
<1>12. ASSUME NEW t \in Ops, Purge(t) PROVE TypeOK'
  <2>1. questions' \subseteq Questions
    BY <1>12, <1>a, UnaskedLess DEF Purge
  <2>2. "countLeft" \in Stages
    BY DEF Stages
  <2>3. CASE Stored(t)
    BY <1>12, <1>m, <2>1, <2>3, StoredTyped DEF Purge, TypeOK
  <2>4. CASE Goto(t, "countLeft") /\ UNCHANGED <<names, locals>>
    BY <1>12, <2>1, <2>2, <2>4, <1>6, <1>a DEF Purge, TypeOK
  <2> QED
    BY <1>12, <2>3, <2>4 DEF Purge
<1>13. ASSUME NEW t \in Ops, CountLeft(t) PROVE TypeOK'
  <2>1. "drop" \in Stages
    BY DEF Stages
  <2> QED
    BY <1>13, <2>1, <1>3, <1>7, <1>a DEF CountLeft
<1>14. ASSUME NEW t \in Ops, DropQuestions(t) PROVE TypeOK'
  <2>1. \E s \in {"done", "failed"} : Return(t, s)
    BY <1>14 DEF DropQuestions
  <2>2. questions' \subseteq questions
    BY <1>14, UnaskedLess DEF DropQuestions
  <2> QED
    BY <1>14, <2>1, <2>2, <1>3, <1>a DEF DropQuestions
<1>15. ASSUME NEW t \in Ops, Write(t) PROVE TypeOK'
  <2>1. "clear" \in Stages /\ rows[t] \subseteq Chunks
    BY <1>a DEF Stages, Passing
  <2>2. questions' \subseteq Questions
    BY <1>15, <2>1, <1>a, AskedTyped DEF Write
  <2>3. pc' \in [Ops -> Stages]
    BY <1>15, <2>1, <1>a, MovedOn DEF Write
  <2> QED
    BY <1>15, <2>2, <2>3 DEF Write, TypeOK
<1>16. ASSUME NEW f \in Files, Expire(f) PROVE TypeOK'
  BY <1>16 DEF Expire, TypeOK
<1>17. CASE UNCHANGED vectorVars
  BY <1>17 DEF vectorVars, TypeOK
<1>18. ASSUME NEW t \in Ops, Step(t) PROVE TypeOK'
  BY <1>18, <1>1, <1>2, <1>4, <1>5, <1>8, <1>9, <1>10, <1>11, <1>12, <1>13, <1>14, <1>15
     DEF Step, PgStep, ChromaStep, PassStep
<1> QED
  BY <1>16, <1>17, <1>18 DEF Next

(* Every reachable state of the stores, the requests and the markers has    *)
(* the types of the tables, the collections and the Python objects.         *)
THEOREM TypeCorrect == Spec => []TypeOK
BY TypeInit, TypeStep, PTL DEF Spec

-----------------------------------------------------------------------------
(* On pgvector no request is ever at a call of the Chroma store. *)
PgStages == Over \cup (Passing \ {"write"}) \cup
              {"idle", "see", "lockRows", "commit", "erase", "read", "schedule"}
OnPg ==
  backend = "pg" =>
    /\ \A t \in Ops : pc[t] \in PgStages /\ (pc[t] = "read" => work[t] = "regenerate")
    /\ \A q \in questions : <<q.file, q.parent>> \in chunks

LEMMA OnPgInit == Init => OnPg
<1> SUFFICES ASSUME Init PROVE OnPg
  OBVIOUS
<1>1. PICK s \in Starts : /\ backend = s.backend /\ chunks = s.chunks /\ questions = s.questions
  BY DEF Init
<1>2. backend = "pg" => \A q \in questions : <<q.file, q.parent>> \in chunks
  BY <1>1, VectorDbAssumption
<1>3. \A t \in Ops : pc[t] = "idle"
  BY DEF Init
<1> QED
  BY <1>2, <1>3 DEF OnPg, PgStages

LEMMA BackendStays == [Next]_vectorVars => UNCHANGED backend
<1> USE DEF data, marks, locals, names
<1>1. ASSUME NEW t \in Ops, Step(t) PROVE UNCHANGED backend
  BY <1>1 DEF Step, Begin, Collect, Fail, PgStep, See, LockRows, Commit, Erase, PgStoreQuestions,
              ChromaStep, Open, Read, Count, Add, AddFails, Recheck, DeleteOld, DeleteChunks, Purge,
              CountLeft, Drop, DropQuestions, CheckParents, Write, PassStep, Schedule, AlreadyRunning,
              Generate, PurgeOld, Abandon, Clear, Die
<1>2. ASSUME NEW f \in Files, Expire(f) PROVE UNCHANGED backend
  BY <1>2 DEF Expire
<1> QED
  BY <1>1, <1>2 DEF Next, vectorVars

LEMMA OnPgStep == TypeOK /\ OnPg /\ [Next]_vectorVars => OnPg'
<1> SUFFICES ASSUME TypeOK, OnPg, [Next]_vectorVars, backend' = "pg" PROVE OnPg'
  BY DEF OnPg
<1> USE DEF data, marks, locals, names
<1>a. /\ pc \in [Ops -> Stages] /\ work \in [Ops -> Kinds] /\ file \in [Ops -> Files]
      /\ rows \in [Ops -> SUBSET Chunks]
  BY DEF TypeOK
<1>b. backend = "pg"
  BY BackendStays
<1>c. /\ \A t \in Ops : pc[t] \in PgStages /\ (pc[t] = "read" => work[t] = "regenerate")
      /\ \A q \in questions : <<q.file, q.parent>> \in chunks
  BY <1>b DEF OnPg
(* A step that keeps the parents and goes to a stage of this store. *)
<1>1. ASSUME NEW t \in Ops, NEW s \in PgStages \ {"read"}, Goto(t, s),
             \A u \in Ops \ {t} : work'[u] = work[u],
             \A q \in questions' : <<q.file, q.parent>> \in chunks'
      PROVE  OnPg'
  <2>1. pc'[t] = s /\ \A u \in Ops \ {t} : pc'[u] = pc[u]
    BY <1>1, <1>a DEF Goto
  <2> QED
    BY <1>1, <2>1, <1>c DEF OnPg
<1>2. ASSUME NEW t \in Ops, NEW s \in {"done", "failed"}, Return(t, s),
             \A q \in questions' : <<q.file, q.parent>> \in chunks'
      PROVE  OnPg'
  <2>1. Goto(t, s) /\ \A u \in Ops \ {t} : work'[u] = work[u]
    BY <1>2, <1>a DEF Return
  <2> QED
    BY <1>2, <2>1, <1>1 DEF PgStages, Over
<1>3. ASSUME NEW t \in Ops, NEW m \in May[t], Begin(t, m[1], m[2]) PROVE OnPg'
  <2>1. /\ work' = [work EXCEPT ![t] = m[1]]
        /\ Goto(t, IF m[1] = "regenerate" THEN "read" ELSE "see")
        /\ UNCHANGED <<questions, chunks>>
    BY <1>3, <1>b DEF Begin
  <2>2. /\ pc'[t] = (IF m[1] = "regenerate" THEN "read" ELSE "see") /\ work'[t] = m[1]
        /\ \A u \in Ops \ {t} : pc'[u] = pc[u] /\ work'[u] = work[u]
    BY <2>1, <1>a DEF Goto
  <2> QED
    BY <2>1, <2>2, <1>c DEF OnPg, PgStages
<1>4. ASSUME NEW t \in Ops,
             Collect(t) \/ See(t) \/ LockRows(t) \/ Schedule(t) \/ Generate(t) \/ Abandon(t)
      PROVE  OnPg'
  <2>1. \E s \in {"schedule", "lockRows", "erase", "commit", "generate", "clear", "purgeOld", "store", "abandon"} :
          Goto(t, s)
    BY <1>4 DEF Collect, See, LockRows, Schedule, Generate, Abandon
  <2>2. UNCHANGED <<questions, chunks, work>>
    BY <1>4 DEF Collect, See, LockRows, Schedule, Generate, Abandon
  <2>3. {"schedule", "lockRows", "erase", "commit", "generate", "clear", "purgeOld", "store", "abandon"}
          \subseteq PgStages \ {"read"}
    BY DEF PgStages, Passing
  <2> QED
    BY <2>1, <2>2, <2>3, <1>1, <1>c
<1>5. ASSUME NEW t \in Ops, Fail(t) \/ AlreadyRunning(t) \/ Clear(t) \/ Die(t) PROVE OnPg'
  <2>1. (\E s \in {"done", "failed"} : Return(t, s)) /\ UNCHANGED <<questions, chunks>>
    BY <1>5 DEF Fail, AlreadyRunning, Clear, Die
  <2> QED
    BY <2>1, <1>2, <1>c
<1>6. ASSUME NEW t \in Ops, Commit(t) PROVE OnPg'
  <2>1. \A q \in questions' : <<q.file, q.parent>> \in chunks'
    BY <1>6, <1>c DEF Commit, AskedWithout
  <2>2. CASE Return(t, "done")
    BY <2>1, <2>2, <1>2
  <2>3. CASE Goto(t, "schedule") /\ UNCHANGED names
    BY <2>1, <2>3, <1>1 DEF PgStages
  <2> QED
    BY <1>6, <2>2, <2>3 DEF Commit, Stored
<1>7. ASSUME NEW t \in Ops, Erase(t) PROVE OnPg'
  <2>1. \A q \in questions' : <<q.file, q.parent>> \in chunks'
    BY <1>7, <1>c DEF Erase, AskedWithout
  <2>2. \E s \in {"done", "failed"} : Return(t, s)
    BY <1>7 DEF Erase
  <2> QED
    BY <2>1, <2>2, <1>2
<1>8. ASSUME NEW t \in Ops, PgStoreQuestions(t) PROVE OnPg'
  <2>1. UNCHANGED <<chunks, work>> /\ \E s \in {"clear", "abandon"} : Goto(t, s)
    BY <1>8 DEF PgStoreQuestions
  <2>2. ASSUME NEW q \in questions' PROVE <<q.file, q.parent>> \in chunks'
    <3>1. CASE q \in questions
      BY <3>1, <2>1, <1>c
    <3>2. CASE q \notin questions
      <4>1. /\ rows[t] \subseteq chunks
            /\ q \in {[file |-> r[1], parent |-> r[2], by |-> t] : r \in rows[t]}
        BY <1>8, <2>2, <3>2 DEF PgStoreQuestions
      <4>2. PICK r \in rows[t] : q = [file |-> r[1], parent |-> r[2], by |-> t]
        BY <4>1
      <4>3. r = <<r[1], r[2]>>
        BY <1>a, Places
      <4> QED
        BY <4>1, <4>2, <4>3, <2>1
    <3> QED
      BY <3>1, <3>2
  <2> QED
    BY <2>1, <2>2, <1>1 DEF PgStages, Passing
<1>9. ASSUME NEW t \in Ops, PurgeOld(t) PROVE OnPg'
  <2>1. Goto(t, "store") /\ UNCHANGED <<chunks, work>> /\ questions' \subseteq questions
    BY <1>9, UnaskedLess DEF PurgeOld
  <2> QED
    BY <2>1, <1>1, <1>c DEF PgStages, Passing
<1>10. ASSUME NEW t \in Ops, ChromaStep(t) PROVE FALSE
  <2>1. pc[t] \in {"open", "count", "add", "addFirst", "recheck", "deleteOld", "deleteChunks", "purge",
                   "countLeft", "drop", "dropQuestions", "write"}
        \/ (pc[t] = "read" /\ work[t] # "regenerate") \/ backend = "chroma"
    BY <1>10 DEF ChromaStep, Open, Read, Count, Add, AddFails, Recheck, DeleteOld, DeleteChunks, Purge,
                 CountLeft, Drop, DropQuestions, CheckParents, Write
  <2> QED
    BY <2>1, <1>b, <1>c DEF PgStages, Over, Passing
<1>11. ASSUME NEW f \in Files, Expire(f) PROVE OnPg'
  BY <1>11, <1>c DEF Expire, OnPg
<1>12. CASE UNCHANGED vectorVars
  BY <1>12, <1>c DEF vectorVars, OnPg
<1>13. ASSUME NEW t \in Ops, Step(t) PROVE OnPg'
  BY <1>13, <1>3, <1>4, <1>5, <1>6, <1>7, <1>8, <1>9, <1>10 DEF Step, PgStep, PassStep
<1> QED
  BY <1>11, <1>12, <1>13 DEF Next

(* The foreign key, the cascade and the check of the parents together: on   *)
(* pgvector no question ever outlives its chunk, however uploads, deletes   *)
(* and passes interleave and fail.                                          *)
THEOREM PgParentsKept == Spec => []PgKeepsParents
<1>1. OnPg => PgKeepsParents
  BY DEF OnPg, PgKeepsParents
<1> QED
  BY TypeInit, TypeStep, OnPgInit, OnPgStep, <1>1, PTL DEF Spec

-----------------------------------------------------------------------------
(* What is true of passes: they keep to their file, and while only          *)
(* regenerates have run on it and no marker expired, one runs at a time,    *)
(* under the marker, and stores into an empty index unless it missed the    *)
(* questions that were there.                                               *)
KeepsToFile(t) ==
  pc[t] \in Passing \cup {"schedule"} => \A r \in rows[t] : r[1] = file[t]

Alone(f) ==
  f \notin mixed =>
    /\ \A t, u \in Running(f) : t = u
    /\ \A t \in Running(f) :
         /\ Exclusive(t) /\ f \in marker
         /\ pc[t] \in {"store", "write"} /\ t \notin missed => Asked(f) = {}
    /\ \A q, r \in Asked(f) : q.by \in Ops /\ {q.by, r.by} \cap missed = {} => r.by = q.by

Orderly == (\A t \in Ops : KeepsToFile(t)) /\ \A f \in Files : Alone(f)

LEMMA OrderlyInit == Init => Orderly
<1> SUFFICES ASSUME Init PROVE Orderly
  OBVIOUS
<1>1. PICK s \in Starts : questions = s.questions
  BY DEF Init
<1>2. \A q \in questions : q.by \notin Ops
  BY <1>1, VectorDbAssumption
<1>3. \A t \in Ops : pc[t] = "idle" /\ rows[t] = {}
  BY DEF Init
<1> QED
  BY <1>2, <1>3 DEF Orderly, KeepsToFile, Alone, Running, Asked, Passing

(* A step of request t that ends or moves a pass, or is none of its passes: *)
(* it takes no question's place, and if it removes a marker, its own.       *)
LEMMA OrderlyElsewhere ==
  ASSUME TypeOK, Orderly, NEW t \in Ops, mixed' = mixed, questions' \subseteq questions,
         missed \subseteq missed',
         \A u \in Ops \ {t} : /\ pc'[u] = pc[u] /\ work'[u] = work[u]
                              /\ file'[u] = file[u] /\ rows'[u] = rows[u],
         pc'[t] \in Passing =>
            /\ pc[t] \in Passing /\ file'[t] = file[t] /\ work'[t] = work[t] /\ marker' = marker
            /\ pc'[t] \in {"store", "write"} => pc[t] \in {"store", "write"} \/ Asked(file[t])' = {} \/ ~Exclusive(t)
                                                \/ t \in missed',
         pc'[t] \in Passing \cup {"schedule"} => \A r \in rows'[t] : r[1] = file'[t],
         marker' = marker \/ (pc[t] \in Passing /\ marker' \in {marker, marker \ {file[t]}})
  PROVE  Orderly'
<1>1. ASSUME NEW u \in Ops PROVE KeepsToFile(u)'
  BY <1>1 DEF Orderly, KeepsToFile
<1>2. ASSUME NEW f \in Files PROVE Alone(f)'
  <2> SUFFICES ASSUME f \notin mixed' PROVE Alone(f)'
    BY DEF Alone
  <2>1. /\ \A u, v \in Running(f) : u = v
        /\ \A u \in Running(f) : /\ Exclusive(u) /\ f \in marker
                                 /\ pc[u] \in {"store", "write"} /\ u \notin missed => Asked(f) = {}
        /\ \A q, r \in Asked(f) : q.by \in Ops /\ {q.by, r.by} \cap missed = {} => r.by = q.by
    BY DEF Orderly, Alone
  <2>2. Running(f)' \subseteq Running(f)
    BY DEF Running
  <2>3. Asked(f)' \subseteq Asked(f)
    BY DEF Asked
  <2>4. ASSUME NEW u \in Running(f)'
        PROVE  Exclusive(u)' /\ f \in marker'
               /\ (pc'[u] \in {"store", "write"} /\ u \notin missed' => Asked(f)' = {})
    <3>1. u \in Running(f) /\ Exclusive(u) /\ f \in marker
      BY <2>1, <2>2
    <3>2. CASE u = t
      BY <3>1, <3>2, <2>1, <2>3, <2>4 DEF Running, Exclusive
    <3>3. CASE u # t
      <4>1. t \notin Running(f)
        BY <2>1, <3>1, <3>3
      <4>2. f \in marker'
        BY <3>1, <4>1 DEF Running
      <4> QED
        BY <3>1, <3>3, <4>2, <2>1, <2>3 DEF Running, Exclusive
    <3> QED
      BY <3>2, <3>3
  <2> QED
    BY <2>1, <2>2, <2>3, <2>4 DEF Alone
<1> QED
  BY <1>1, <1>2 DEF Orderly

LEMMA OrderlyStep == TypeOK /\ Orderly /\ [Next]_vectorVars => Orderly'
<1> SUFFICES ASSUME TypeOK, Orderly, [Next]_vectorVars PROVE Orderly'
  OBVIOUS
<1> USE DEF data, marks, locals, names
<1>m. missed \subseteq missed'
  BY MissedGrows
<1>a. /\ pc \in [Ops -> Stages] /\ work \in [Ops -> Kinds] /\ file \in [Ops -> Files]
      /\ rows \in [Ops -> SUBSET Chunks]
  BY DEF TypeOK
<1>1. ASSUME NEW t \in Ops, NEW m \in May[t], Begin(t, m[1], m[2]) PROVE Orderly'
  <2>1. \E s \in {"read", "see", "open"} : Goto(t, s)
    BY <1>1 DEF Begin
  <2>2. pc'[t] \notin Passing \cup {"schedule"} /\ \A u \in Ops \ {t} : pc'[u] = pc[u]
    BY <2>1, <1>a DEF Goto, Passing
  <2> QED
    BY <1>1, <2>2, <1>a, <1>m, OrderlyElsewhere DEF Begin
<1>2. ASSUME NEW t \in Ops, Collect(t) PROVE Orderly'
  <2>1. /\ pc'[t] = "schedule" /\ \A u \in Ops \ {t} : pc'[u] = pc[u] /\ rows'[u] = rows[u]
        /\ \A r \in rows'[t] : r[1] = file[t]
    BY <1>2, <1>a DEF Collect, Goto, OfFile
  <2>2. "schedule" \notin Passing
    BY DEF Passing
  <2> QED
    BY <1>2, <2>1, <2>2, <1>m, OrderlyElsewhere DEF Collect
<1>3. ASSUME NEW t \in Ops, NEW s \in {"done", "failed"}, Return(t, s), mixed' = mixed,
             questions' \subseteq questions,
             marker' = marker \/ (pc[t] \in Passing /\ marker' \in {marker, marker \ {file[t]}})
      PROVE  Orderly'
  <2>1. pc'[t] \notin Passing \cup {"schedule"}
    BY <1>3, Returned, OverAreStages DEF Passing
  <2> QED
    BY <1>3, <2>1, Returned, OverAreStages, <1>m, OrderlyElsewhere
<1>4. ASSUME NEW t \in Ops, Fail(t) \/ AlreadyRunning(t) \/ Die(t) PROVE Orderly'
  BY <1>4, <1>3 DEF Fail, AlreadyRunning, Die
<1>5. ASSUME NEW t \in Ops, Clear(t) PROVE Orderly'
  BY <1>5, <1>3 DEF Clear, Passing
<1>6. ASSUME NEW t \in Ops, Schedule(t) PROVE Orderly'
  <2>1. /\ pc[t] = "schedule" /\ (Exclusive(t) => file[t] \notin marker)
        /\ marker' = marker \cup {file[t]}
        /\ mixed' = (IF Exclusive(t) THEN mixed ELSE mixed \cup {file[t]})
        /\ pc'[t] = "generate" /\ \A u \in Ops \ {t} : pc'[u] = pc[u]
        /\ UNCHANGED <<questions, work, file, rows, missed>>
    BY <1>6, <1>a DEF Schedule, Goto
  <2>2. ASSUME NEW u \in Ops PROVE KeepsToFile(u)'
    BY <2>1, <2>2 DEF Orderly, KeepsToFile
  <2>3. ASSUME NEW f \in Files, f \notin mixed' PROVE Alone(f)'
    <3>1. Alone(f) /\ f \notin mixed
      BY <2>1, <2>3 DEF Orderly
    <3>2. CASE f # file[t]
      <4>1. Running(f)' = Running(f) /\ Asked(f)' = Asked(f) /\ t \notin Running(f)
        BY <2>1, <3>2 DEF Running, Asked
      <4>2. \A u \in Running(f) : pc'[u] = pc[u] /\ Exclusive(u)' = Exclusive(u)
        BY <2>1, <4>1 DEF Running, Exclusive
      <4> QED
        BY <2>1, <3>1, <4>1, <4>2 DEF Alone
    <3>3. CASE f = file[t]
      <4>1. Exclusive(t) /\ Running(f) = {}
        BY <2>1, <2>3, <3>1, <3>3 DEF Alone
      <4>2. Running(f)' = {t} /\ Asked(f)' = Asked(f)
        BY <2>1, <3>3, <4>1 DEF Running, Asked, Passing
      <4> QED
        BY <2>1, <3>1, <3>3, <4>1, <4>2 DEF Alone, Exclusive
    <3> QED
      BY <3>2, <3>3
  <2> QED
    BY <2>2, <2>3 DEF Orderly, Alone
<1>7. ASSUME NEW t \in Ops, Generate(t) PROVE Orderly'
  <2>1. \E s \in {"clear", "purgeOld", "store"} : Goto(t, s) /\ (s = "store" => ~Exclusive(t))
    BY <1>7 DEF Generate
  <2>2. pc[t] \in Passing /\ UNCHANGED <<questions, marker, mixed, work, file, rows>>
    BY <1>7 DEF Generate, Passing
  <2>3. /\ pc'[t] \in {"clear", "purgeOld", "store"} /\ (pc'[t] = "store" => ~Exclusive(t))
        /\ \A u \in Ops \ {t} : pc'[u] = pc[u]
    BY <2>1, <1>a DEF Goto
  <2>4. \A r \in rows[t] : r[1] = file[t]
    BY <2>2 DEF Orderly, KeepsToFile
  <2> QED
    BY <2>2, <2>3, <2>4, <1>m, OrderlyElsewhere
<1>8. ASSUME NEW t \in Ops, Abandon(t) \/ PurgeOld(t) PROVE Orderly'
  <2>1. /\ pc[t] \in Passing /\ UNCHANGED <<marker, mixed, work, file, rows>>
        /\ questions' \subseteq questions
    BY <1>8, UnaskedLess DEF Abandon, PurgeOld, Passing
  <2>2. \/ Goto(t, "abandon")
        \/ Goto(t, "store") /\ (Asked(file[t])' = {} \/ t \in missed')
    BY <1>8 DEF Abandon, PurgeOld, Asked, Unask
  <2>3. /\ pc'[t] \in {"abandon", "store"} /\ (pc'[t] = "store" => Asked(file[t])' = {} \/ t \in missed')
        /\ \A u \in Ops \ {t} : pc'[u] = pc[u]
    BY <2>2, <1>a DEF Goto
  <2>4. \A r \in rows[t] : r[1] = file[t]
    BY <2>1 DEF Orderly, KeepsToFile
  <2> QED
    BY <2>1, <2>3, <2>4, <1>m, OrderlyElsewhere
<1>9. ASSUME NEW t \in Ops, CheckParents(t) PROVE Orderly'
  <2>1. /\ pc[t] = "store" /\ pc'[t] \in {"abandon", "write"} /\ "store" \in Passing
        /\ \A u \in Ops \ {t} : pc'[u] = pc[u] /\ rows'[u] = rows[u]
        /\ rows'[t] \subseteq rows[t] /\ UNCHANGED <<questions, marker, mixed, work, file>>
    BY <1>9, <1>a DEF CheckParents, Goto, Passing
  <2>2. \A r \in rows[t] : r[1] = file[t]
    BY <2>1 DEF Orderly, KeepsToFile
  <2> QED
    BY <2>1, <2>2, <1>m, OrderlyElsewhere
(* The questions are stored: where no other pass may be, they are the only  *)
(* ones.                                                                    *)
<1>10. ASSUME NEW t \in Ops, pc[t] \in {"store", "write"}, Goto(t, "clear"),
              questions' = questions \cup {[file |-> r[1], parent |-> r[2], by |-> t] : r \in rows[t]},
              UNCHANGED <<marker, mixed, missed, work, file, rows>>
       PROVE  Orderly'
  <2>1. /\ {"store", "write", "clear"} \subseteq Passing
        /\ pc'[t] = "clear" /\ \A u \in Ops \ {t} : pc'[u] = pc[u]
    BY <1>10, <1>a DEF Goto, Passing
  <2>2. \A r \in rows[t] : r[1] = file[t]
    BY <1>10, <2>1 DEF Orderly, KeepsToFile
  <2>3. ASSUME NEW u \in Ops PROVE KeepsToFile(u)'
    BY <1>10, <2>1, <2>2, <2>3 DEF Orderly, KeepsToFile
  <2>4. \A q \in questions' \ questions : q.file = file[t] /\ q.by = t
    BY <1>10, <2>2
  <2>5. ASSUME NEW f \in Files, f \notin mixed' PROVE Alone(f)'
    <3>1. Alone(f) /\ f \notin mixed
      BY <1>10, <2>5 DEF Orderly
    <3>2. Running(f)' = Running(f)
      BY <1>10, <2>1 DEF Running
    <3>3. CASE f # file[t]
      <4>1. Asked(f)' = Asked(f) /\ t \notin Running(f)
        BY <1>10, <2>4, <3>3 DEF Asked, Running
      <4>2. \A u \in Running(f) : pc'[u] = pc[u] /\ Exclusive(u)' = Exclusive(u)
        BY <1>10, <2>1, <4>1 DEF Running, Exclusive
      <4> QED
        BY <1>10, <3>1, <3>2, <4>1, <4>2 DEF Alone
    <3>4. CASE f = file[t]
      <4>1. /\ Running(f) = {t} /\ Exclusive(t) /\ f \in marker
            /\ t \notin missed => Asked(f) = {}
            /\ \A q, r \in Asked(f) : q.by \in Ops /\ {q.by, r.by} \cap missed = {} => r.by = q.by
        BY <1>10, <2>1, <3>1, <3>4 DEF Alone, Running
      <4>2. \A q \in Asked(f)' : q \in Asked(f) \/ q.by = t
        BY <2>4 DEF Asked
      <4>3. ASSUME NEW q \in Asked(f)', NEW r \in Asked(f)', q.by \in Ops, {q.by, r.by} \cap missed = {}
            PROVE  r.by = q.by
        BY <4>1, <4>2, <4>3
      <4>4. pc'[t] = "clear" /\ Exclusive(t)' /\ f \in marker' /\ Running(f)' = {t}
        BY <1>10, <2>1, <3>2, <4>1 DEF Exclusive
      <4> QED
        BY <1>10, <4>3, <4>4 DEF Alone
    <3> QED
      BY <3>3, <3>4
  <2> QED
    BY <2>3, <2>5 DEF Orderly, Alone
<1>11. ASSUME NEW t \in Ops, PgStoreQuestions(t) \/ Write(t) PROVE Orderly'
  <2>1. CASE PgStoreQuestions(t) /\ ~(rows[t] \subseteq chunks)
    <3>1. /\ pc[t] = "store" /\ pc'[t] = "abandon" /\ "store" \in Passing
          /\ \A u \in Ops \ {t} : pc'[u] = pc[u]
          /\ UNCHANGED <<questions, marker, mixed, work, file, rows>>
      BY <2>1, <1>a DEF PgStoreQuestions, Goto, Passing
    <3>2. \A r \in rows[t] : r[1] = file[t]
      BY <3>1 DEF Orderly, KeepsToFile
    <3> QED
      BY <3>1, <3>2, <1>m, OrderlyElsewhere
  <2> QED
    BY <1>11, <2>1, <1>10 DEF PgStoreQuestions, Write
<1>12. ASSUME NEW t \in Ops, pc'[t] \notin Passing \cup {"schedule"}, UNCHANGED <<marker, mixed>>,
              questions' \subseteq questions,
              \A u \in Ops \ {t} : /\ pc'[u] = pc[u] /\ work'[u] = work[u]
                                   /\ file'[u] = file[u] /\ rows'[u] = rows[u]
       PROVE  Orderly'
  BY <1>12, <1>m, OrderlyElsewhere
<1>13. ASSUME NEW t \in Ops, See(t) \/ LockRows(t) \/ Open(t) \/ Read(t) \/ Count(t) \/ Add(t)
                              \/ AddFails(t) \/ Recheck(t) \/ DeleteOld(t) \/ DeleteChunks(t) \/ Drop(t)
       PROVE  Orderly'
  <2>1. \E s \in {"lockRows", "erase", "commit", "read", "drop", "count", "deleteChunks", "add", "addFirst",
                 "deleteOld", "purge", "recheck", "dropQuestions"} : Goto(t, s)
    BY <1>13 DEF See, LockRows, Open, Read, Count, Add, AddFails, Recheck, DeleteOld, DeleteChunks, Drop
  <2>2. pc'[t] \notin Passing \cup {"schedule"} /\ \A u \in Ops \ {t} : pc'[u] = pc[u]
    BY <2>1, <1>a DEF Goto, Passing
  <2>3. UNCHANGED <<questions, marker, mixed, work, file>> /\ \A u \in Ops \ {t} : rows'[u] = rows[u]
    BY <1>13, <1>a DEF See, LockRows, Open, Read, Count, Add, AddFails, Recheck, DeleteOld, DeleteChunks, Drop
  <2> QED
    BY <2>2, <2>3, <1>12
<1>14. ASSUME NEW t \in Ops, Stored(t), questions' \subseteq questions, UNCHANGED <<marker, mixed>>
       PROVE  Orderly'
  <2>1. CASE pc'[t] = "schedule" /\ file'[t] = file[t] /\ rows'[t] = {MyChunks(t)}
    <3>1. "schedule" \notin Passing /\ \A r \in rows'[t] : r[1] = file[t]
      BY <2>1 DEF Passing, MyChunks
    <3> QED
      BY <1>14, <2>1, <3>1, StoredTyped, <1>m, OrderlyElsewhere
  <2>2. CASE pc'[t] = "done"
    BY <1>14, <2>2, <1>12, StoredTyped DEF Passing
  <2> QED
    BY <1>14, <2>1, <2>2, StoredTyped
<1>15. ASSUME NEW t \in Ops, Commit(t) \/ Purge(t) PROVE Orderly'
  <2>1. questions' \subseteq questions /\ UNCHANGED <<marker, mixed>>
    BY <1>15, UnaskedLess DEF Commit, Purge, AskedWithout
  <2>2. CASE Goto(t, "countLeft") /\ UNCHANGED <<names, locals>>
    <3>1. pc'[t] \notin Passing \cup {"schedule"} /\ \A u \in Ops \ {t} : pc'[u] = pc[u]
      BY <2>2, <1>a DEF Goto, Passing
    <3> QED
      BY <2>1, <2>2, <3>1, <1>12
  <2> QED
    BY <1>15, <2>1, <2>2, <1>14 DEF Commit, Purge
<1>16. ASSUME NEW t \in Ops, Erase(t) \/ CountLeft(t) \/ DropQuestions(t) PROVE Orderly'
  <2>1. questions' \subseteq questions /\ UNCHANGED <<marker, mixed>>
    BY <1>16, UnaskedLess DEF Erase, CountLeft, DropQuestions, AskedWithout
  <2>2. CASE Goto(t, "drop") /\ UNCHANGED <<names, locals>>
    <3>1. pc'[t] \notin Passing \cup {"schedule"} /\ \A u \in Ops \ {t} : pc'[u] = pc[u]
      BY <2>2, <1>a DEF Goto, Passing
    <3> QED
      BY <2>1, <2>2, <3>1, <1>12
  <2>3. CASE \E s \in {"done", "failed"} : Return(t, s)
    BY <2>1, <2>3, <1>3
  <2> QED
    BY <1>16, <2>2, <2>3 DEF Erase, CountLeft, DropQuestions
<1>17. ASSUME NEW g \in Files, Expire(g) PROVE Orderly'
  <2>1. /\ marker' = marker \ {g} /\ mixed' = mixed \cup {g}
        /\ UNCHANGED <<questions, pc, work, file, rows, missed>>
    BY <1>17 DEF Expire
  <2>2. ASSUME NEW t \in Ops PROVE KeepsToFile(t)'
    BY <2>1, <2>2 DEF Orderly, KeepsToFile
  <2>3. ASSUME NEW f \in Files PROVE Alone(f)'
    <3>1. Running(f)' = Running(f) /\ Asked(f)' = Asked(f)
      BY <2>1 DEF Running, Asked
    <3>2. \A t \in Ops : Exclusive(t)' = Exclusive(t)
      BY <2>1 DEF Exclusive
    <3>3. Alone(f) /\ (f \in marker /\ f \notin mixed' => f \in marker')
      BY <2>1 DEF Orderly
    <3> QED
      BY <2>1, <3>1, <3>2, <3>3 DEF Alone, Running
  <2> QED
    BY <2>2, <2>3 DEF Orderly
<1>18. CASE UNCHANGED vectorVars
  BY <1>18 DEF vectorVars, Orderly, KeepsToFile, Alone, Running, Asked, Exclusive
<1>19. ASSUME NEW t \in Ops, Step(t) PROVE Orderly'
  BY <1>19, <1>1, <1>2, <1>4, <1>5, <1>6, <1>7, <1>8, <1>9, <1>11, <1>13, <1>15, <1>16
     DEF Step, PgStep, ChromaStep, PassStep
<1> QED
  BY <1>17, <1>18, <1>19 DEF Next

(* NX on the marker makes regenerates of a file take turns: at most one     *)
(* pass runs, and the status endpoint sees it, as long as the marker is     *)
(* not taken away by its TTL or shared with an upload's pass.               *)
THEOREM RegeneratesTakeTurns == Spec => []PassesTakeTurns
<1>1. ASSUME TypeOK, Orderly PROVE PassesTakeTurns
  <2> SUFFICES ASSUME NEW f \in Files \ mixed
               PROVE  Cardinality(Running(f)) <= 1 /\ (Running(f) # {} => GenerationPending(f))
    BY DEF PassesTakeTurns
  <2>1. CASE Running(f) = {}
    BY <2>1, FS_EmptySet
  <2>2. CASE Running(f) # {}
    <3>1. PICK t \in Running(f) : Running(f) = {t}
      BY <1>1, <2>2 DEF Orderly, Alone
    <3>2. Cardinality(Running(f)) = 1
      BY <3>1, FS_Singleton
    <3> QED
      BY <1>1, <3>1, <3>2 DEF Orderly, Alone, GenerationPending
  <2> QED
    BY <2>1, <2>2
<1> QED
  BY TypeInit, TypeStep, OrderlyInit, OrderlyStep, <1>1, PTL DEF Spec

(* And then no pass that found the questions to replace leaves any of an    *)
(* earlier pass in the index of its file.                                   *)
THEOREM IndexesStayPure == Spec => []OneIndexPerFile
<1>1. Orderly => OneIndexPerFile
  BY DEF Orderly, Alone, OneIndexPerFile
<1> QED
  BY TypeInit, TypeStep, OrderlyInit, OrderlyStep, <1>1, PTL DEF Spec

-----------------------------------------------------------------------------
(* Why an upload never takes the last copy of its file away.  On pgvector   *)
(* it deletes rows of its file only, in the transaction that inserts its    *)
(* own.  On Chroma the copies it deletes are all older than its own, and    *)
(* the newest copy is there as long as any is; the collection it may drop   *)
(* is one that nobody can have added to under the lock.                     *)
Replacers == {"lockRows", "commit", "count", "add", "addFirst", "recheck", "deleteOld"}
LockHeld  == {"add", "addFirst", "recheck"}
Unborn    == {"idle", "open", "read", "count", "add", "addFirst"}

InPlace(t) ==
  /\ backend = "chroma" => pc[t] \notin {"see", "lockRows", "commit", "erase"}
  /\ pc[t] \in Replacers => work[t] = "upload" /\ \A r \in rows[t] : r[1] = file[t]
  /\ pc[t] = "commit" => \A r \in held[t] : r[1] = file[t]
  /\ pc[t] \in {"erase", "deleteChunks", "countLeft"} => work[t] # "upload"
  /\ pc[t] \in LockHeld => lock = t
  /\ pc[t] = "drop" /\ work[t] = "upload" => lock = t /\ chunks = {}

Fresh ==
  \A t \in Ops : pc[t] \in Unborn =>
    /\ \A r \in chunks : r[2] # t
    /\ \A u \in Ops : \A r \in rows[u] : r[2] # t

(* The copies by age. *)
Newest(rank, f, n) ==
  <<f, n>> \in chunks /\ \A t \in Ops : pc[t] = "deleteOld" /\ file[t] = f => rank[t] <= rank[n]
Aged(rank, top) ==
  /\ \A c \in Copies : rank[c] <= top
  /\ \A t \in Ops : pc[t] = "deleteOld" => \A r \in rows[t] : rank[r[2]] < rank[t]
  /\ \A f \in Files : OfFile(f) # {} => \E n \in Copies : Newest(rank, f, n)
NewestStays == backend = "chroma" => \E rank \in [Copies -> Nat], top \in Nat : Aged(rank, top)

Replacing == (\A t \in Ops : InPlace(t)) /\ Fresh /\ NewestStays

OthersStay(t) ==
  \A u \in Ops \ {t} : /\ pc'[u] = pc[u] /\ work'[u] = work[u] /\ file'[u] = file[u]
                       /\ rows'[u] = rows[u] /\ held'[u] = held[u]

LEMMA ReplacingInit == Init => Replacing
<1> SUFFICES ASSUME Init PROVE Replacing
  OBVIOUS
<1>1. PICK s \in Starts : chunks = s.chunks
  BY DEF Init
<1>2. chunks \subseteq Files \X Past
  BY <1>1, VectorDbAssumption
<1>3. \A t \in Ops : pc[t] = "idle" /\ rows[t] = {}
  BY DEF Init
<1>4. \A r \in chunks : r[2] \notin Ops
  BY <1>2, VectorDbAssumption
<1>5. Aged([c \in Copies |-> 0], 0)
  <2>1. ASSUME NEW f \in Files, OfFile(f) # {} PROVE \E n \in Copies : <<f, n>> \in chunks
    <3>1. PICK r \in chunks : r[1] = f
      BY <2>1 DEF OfFile
    <3>2. r = <<f, r[2]>> /\ r[2] \in Copies
      BY <1>2, <3>1 DEF Copies
    <3> QED
      BY <3>1, <3>2
  <2> QED
    BY <1>3, <2>1 DEF Aged, Newest
<1>6. [c \in Copies |-> 0] \in [Copies -> Nat]
  OBVIOUS
<1> QED
  BY <1>3, <1>4, <1>5, <1>6 DEF Replacing, InPlace, Fresh, NewestStays, Replacers, LockHeld

LEMMA OthersInPlace ==
  ASSUME TypeOK, OnPg, Replacing, NEW t \in Ops, OthersStay(t), UNCHANGED backend,
         lock' = lock \/ lock \in {NoColl, t},
         chunks' \subseteq chunks \/ lock = t \/ backend = "pg",
         NEW u \in Ops \ {t}
  PROVE  InPlace(u)'
<1>1. InPlace(u) /\ u # NoColl
  BY VectorDbAssumption DEF Replacing, Copies
<1>2. /\ pc'[u] = pc[u] /\ work'[u] = work[u] /\ file'[u] = file[u]
      /\ rows'[u] = rows[u] /\ held'[u] = held[u]
  BY DEF OthersStay
<1>3. lock = u => lock' = u
  BY <1>1
<1>4. backend = "pg" => pc[u] # "drop"
  BY DEF OnPg, PgStages, Over, Passing
<1>5. pc[u] = "drop" /\ work[u] = "upload" => chunks' = {}
  BY <1>1, <1>4 DEF InPlace
<1> QED
  BY <1>1, <1>2, <1>3, <1>5 DEF InPlace

LEMMA FreshKept ==
  ASSUME Replacing, NEW t \in Ops, OthersStay(t),
         chunks' \cup rows'[t] \subseteq chunks \cup rows[t] \cup {MyChunks(t)},
         pc'[t] \in Unborn => pc[t] \in Unborn /\ chunks' \cup rows'[t] \subseteq chunks \cup rows[t]
  PROVE  Fresh'
<1> SUFFICES ASSUME NEW u \in Ops, pc'[u] \in Unborn
             PROVE  /\ \A r \in chunks' : r[2] # u
                    /\ \A v \in Ops : \A r \in rows'[v] : r[2] # u
  BY DEF Fresh
<1>1. pc[u] \in Unborn
  BY DEF OthersStay
<1>2. \A r \in chunks : r[2] # u
  BY <1>1 DEF Replacing, Fresh
<1>3. \A v \in Ops : \A r \in rows[v] : r[2] # u
  BY <1>1 DEF Replacing, Fresh
<1>4. \A r \in chunks' \cup rows'[t] : r[2] # u
  <2>1. CASE u = t
    BY <2>1, <1>2, <1>3
  <2>2. CASE u # t
    <3>1. MyChunks(t)[2] # u
      BY <2>2 DEF MyChunks
    <3> QED
      BY <3>1, <1>2, <1>3
  <2> QED
    BY <2>1, <2>2
<1>5. ASSUME NEW v \in Ops, NEW r \in rows'[v] PROVE r[2] # u
  <2>1. CASE v = t
    BY <2>1, <1>4, <1>5
  <2>2. CASE v # t
    BY <2>2, <1>3, <1>5 DEF OthersStay
  <2> QED
    BY <2>1, <2>2
<1> QED
  BY <1>4, <1>5

(* A step that deletes files whole, or nothing. *)
LEMMA NewestKept ==
  ASSUME Replacing, NEW t \in Ops, OthersStay(t), UNCHANGED backend, pc'[t] # "deleteOld",
         \A f \in Files : OfFile(f)' \in {{}, OfFile(f)}
  PROVE  NewestStays'
<1> SUFFICES ASSUME backend = "chroma"
             PROVE  \E rank \in [Copies -> Nat], top \in Nat : Aged(rank, top)'
  BY DEF NewestStays
<1>1. PICK rank \in [Copies -> Nat], top \in Nat : Aged(rank, top)
  BY DEF Replacing, NewestStays
<1>2. \A u \in Ops : pc'[u] = "deleteOld" =>
        u # t /\ pc[u] = "deleteOld" /\ file'[u] = file[u] /\ rows'[u] = rows[u]
  BY DEF OthersStay
<1>3. ASSUME NEW f \in Files, OfFile(f)' # {} PROVE \E n \in Copies : Newest(rank, f, n)'
  <2>1. OfFile(f)' = OfFile(f)
    BY <1>3
  <2>2. PICK n \in Copies : Newest(rank, f, n)
    BY <1>1, <1>3, <2>1 DEF Aged
  <2>3. <<f, n>> \in chunks'
    BY <2>1, <2>2 DEF Newest, OfFile
  <2> QED
    BY <1>2, <2>2, <2>3 DEF Newest
<1>4. Aged(rank, top)'
  BY <1>1, <1>2, <1>3 DEF Aged
<1> QED
  BY <1>4

LEMMA Quiet ==
  ASSUME TypeOK, OnPg, Replacing, NEW t \in Ops, OthersStay(t), UNCHANGED <<backend, chunks>>,
         lock' = lock \/ lock \in {NoColl, t},
         rows'[t] \subseteq chunks \cup rows[t] \cup {MyChunks(t)},
         pc'[t] \in Unborn => pc[t] \in Unborn /\ rows'[t] \subseteq chunks \cup rows[t],
         pc'[t] # "deleteOld", InPlace(t)'
  PROVE  Replacing'
<1>1. \A u \in Ops : InPlace(u)'
  BY OthersInPlace
<1>2. Fresh'
  BY FreshKept
<1>3. \A f \in Files : OfFile(f)' = OfFile(f)
  BY DEF OfFile
<1>4. NewestStays'
  BY <1>3, NewestKept
<1> QED
  BY <1>1, <1>2, <1>4 DEF Replacing

(* Stages at which nothing is claimed of a request. *)
Neutral == Passing \cup Over \cup {"schedule", "purge", "dropQuestions"}
LEMMA NeutralInPlace ==
  ASSUME NEW t \in Ops, pc'[t] \in Neutral
  PROVE  InPlace(t)' /\ pc'[t] \notin Unborn /\ pc'[t] # "deleteOld"
BY DEF Neutral, InPlace, Passing, Over, Replacers, LockHeld, Unborn

LEMMA ReplacingStep == TypeOK /\ OnPg /\ Replacing /\ [Next]_vectorVars => Replacing'
<1> SUFFICES ASSUME TypeOK, OnPg, Replacing, [Next]_vectorVars PROVE Replacing'
  OBVIOUS
<1> USE DEF data, marks, locals, names
<1>a. /\ pc \in [Ops -> Stages] /\ work \in [Ops -> Kinds] /\ file \in [Ops -> Files]
      /\ rows \in [Ops -> SUBSET Chunks] /\ held \in [Ops -> SUBSET Chunks] /\ chunks \subseteq Chunks
      /\ backend \in {"pg", "chroma"}
  BY DEF TypeOK
<1>b. UNCHANGED backend
  BY BackendStays
<1>c. \A t \in Ops : InPlace(t)
  BY DEF Replacing
<1>d. ASSUME NEW t \in Ops, NEW s, Goto(t, s) PROVE pc'[t] = s /\ \A u \in Ops \ {t} : pc'[u] = pc[u]
  BY <1>d, <1>a DEF Goto
<1>1. ASSUME NEW t \in Ops, NEW m \in May[t], Begin(t, m[1], m[2]) PROVE Replacing'
  <2>1. /\ pc[t] = "idle" /\ UNCHANGED <<chunks, rows, held, lock>> /\ OthersStay(t)
        /\ pc'[t] \in {"read", "see", "open"} /\ (pc'[t] = "see" => backend = "pg")
    BY <1>1, <1>a, <1>d DEF Begin, OthersStay
  <2>2. InPlace(t)' /\ pc[t] \in Unborn
    BY <2>1, <1>b DEF InPlace, Replacers, LockHeld, Unborn
  <2> QED
    BY <2>1, <2>2, <1>b, Quiet
(* Steps that end in a stage at which nothing is claimed. *)
<1>2. ASSUME NEW t \in Ops, OthersStay(t), pc'[t] \in Neutral, UNCHANGED chunks,
             lock' = lock \/ lock \in {NoColl, t},
             rows'[t] \subseteq chunks \cup rows[t] \cup {MyChunks(t)}
      PROVE  Replacing'
  BY <1>2, <1>b, NeutralInPlace, Quiet
<1>3. ASSUME NEW t \in Ops, NEW s \in {"done", "failed"}, Return(t, s), UNCHANGED chunks PROVE Replacing'
  <2>1. OthersStay(t) /\ pc'[t] = s /\ rows'[t] = {} /\ (lock' = lock \/ lock \in {NoColl, t})
    BY <1>3, <1>a DEF Return, Let, Goto, OthersStay
  <2> QED
    BY <1>3, <2>1, <1>2 DEF Neutral, Over
<1>4. ASSUME NEW t \in Ops, Fail(t) \/ AlreadyRunning(t) \/ Die(t) \/ Clear(t) \/ DropQuestions(t)
      PROVE  Replacing'
  <2>1. UNCHANGED chunks /\ \E s \in {"done", "failed"} : Return(t, s)
    BY <1>4 DEF Fail, AlreadyRunning, Die, Clear, DropQuestions
  <2> QED
    BY <2>1, <1>3
<1>5. ASSUME NEW t \in Ops,
             Schedule(t) \/ Generate(t) \/ PurgeOld(t) \/ Abandon(t) \/ PgStoreQuestions(t) \/ Write(t)
      PROVE  Replacing'
  <2>1. \E s \in Passing : Goto(t, s)
    BY <1>5 DEF Schedule, Generate, PurgeOld, Abandon, PgStoreQuestions, Write, Passing
  <2>2. UNCHANGED <<chunks, work, file, rows, held, lock>>
    BY <1>5 DEF Schedule, Generate, PurgeOld, Abandon, PgStoreQuestions, Write
  <2>3. OthersStay(t) /\ pc'[t] \in Passing
    BY <2>1, <2>2, <1>a, <1>d DEF OthersStay
  <2> QED
    BY <2>2, <2>3, <1>2 DEF Neutral
<1>6. ASSUME NEW t \in Ops, Collect(t) \/ CheckParents(t) PROVE Replacing'
  <2>1. \E s \in Passing \cup {"schedule"} : Goto(t, s)
    BY <1>6 DEF Collect, CheckParents, Passing
  <2>2. UNCHANGED <<chunks, work, file, held, lock>> /\ \A u \in Ops \ {t} : rows'[u] = rows[u]
    BY <1>6, <1>a DEF Collect, CheckParents
  <2>3. rows'[t] \subseteq chunks
    BY <1>6, <1>a DEF Collect, CheckParents, OfFile
  <2>4. OthersStay(t) /\ pc'[t] \in Passing \cup {"schedule"}
    BY <2>1, <2>2, <1>a, <1>d DEF OthersStay
  <2> QED
    BY <2>2, <2>3, <2>4, <1>2 DEF Neutral
<1>7. ASSUME NEW t \in Ops, Purge(t) PROVE Replacing'
  <2>1. UNCHANGED chunks
    BY <1>7 DEF Purge
  <2>2. CASE work[t] = "upload" /\ Stored(t)
    <3>1. CASE Return(t, "done")
      BY <2>1, <3>1, <1>3
    <3>2. CASE /\ rows' = [rows EXCEPT ![t] = {MyChunks(t)}]
               /\ Let(t) /\ Goto(t, "schedule") /\ UNCHANGED names
      <4>1. OthersStay(t) /\ pc'[t] = "schedule" /\ (lock' = lock \/ lock \in {NoColl, t})
            /\ rows'[t] = {MyChunks(t)}
        BY <3>2, <1>a, <1>d DEF Let, OthersStay
      <4> QED
        BY <2>1, <4>1, <1>2 DEF Neutral
    <3> QED
      BY <2>2, <3>1, <3>2 DEF Stored
  <2>3. CASE work[t] # "upload" /\ Goto(t, "countLeft") /\ UNCHANGED <<names, locals>>
    <3>1. OthersStay(t) /\ pc'[t] = "countLeft"
      BY <2>3, <1>a, <1>d DEF OthersStay
    <3>2. InPlace(t)' /\ pc'[t] \notin Unborn
      BY <3>1, <2>3 DEF InPlace, Replacers, LockHeld, Unborn
    <3> QED
      BY <2>1, <2>3, <3>1, <3>2, <1>b, Quiet
  <2> QED
    BY <1>7, <2>2, <2>3 DEF Purge
<1>8. ASSUME NEW t \in Ops, CountLeft(t) PROVE Replacing'
  <2>1. pc[t] = "countLeft" /\ UNCHANGED chunks /\ work[t] # "upload"
    BY <1>8, <1>c DEF CountLeft, InPlace
  <2>2. CASE Goto(t, "drop") /\ UNCHANGED <<names, locals>>
    <3>1. OthersStay(t) /\ pc'[t] = "drop"
      BY <2>2, <1>a, <1>d DEF OthersStay
    <3>2. InPlace(t)' /\ pc'[t] \notin Unborn
      BY <3>1, <2>1, <2>2 DEF InPlace, Replacers, LockHeld, Unborn
    <3> QED
      BY <2>1, <2>2, <3>1, <3>2, <1>b, Quiet
  <2> QED
    BY <1>8, <2>1, <2>2, <1>3 DEF CountLeft
<1>9. ASSUME NEW t \in Ops, See(t) PROVE Replacing'
  <2>1. /\ pc'[t] \in {"lockRows", "erase"} /\ OthersStay(t) /\ UNCHANGED <<chunks, work, file, lock>>
        /\ rows'[t] \subseteq chunks
        /\ (pc'[t] = "lockRows" => work[t] = "upload" /\ rows'[t] = OfFile(file[t]))
        /\ (pc'[t] = "erase" => work[t] # "upload")
    BY <1>9, <1>a, <1>d DEF See, OthersStay, OfFile
  <2>2. backend # "chroma"
    BY <1>9, <1>c DEF See, InPlace
  <2>3. InPlace(t)' /\ pc'[t] \notin Unborn
    BY <2>1, <2>2, <1>b DEF InPlace, Replacers, LockHeld, Unborn, OfFile
  <2> QED
    BY <2>1, <2>3, <1>b, Quiet
<1>10. ASSUME NEW t \in Ops, LockRows(t) PROVE Replacing'
  <2>1. /\ pc[t] = "lockRows" /\ pc'[t] = "commit" /\ OthersStay(t)
        /\ UNCHANGED <<chunks, work, file, rows, lock>> /\ held'[t] \subseteq rows[t]
    BY <1>10, <1>a, <1>d DEF LockRows, OthersStay
  <2>2. InPlace(t)' /\ pc'[t] \notin Unborn
    BY <2>1, <1>b, <1>c DEF InPlace, Replacers, LockHeld, Unborn
  <2> QED
    BY <2>1, <2>2, <1>b, Quiet
<1>11. ASSUME NEW t \in Ops, Open(t) PROVE Replacing'
  <2>1. /\ pc[t] = "open" /\ pc'[t] \in {"drop", "read"} /\ OthersStay(t)
        /\ UNCHANGED <<chunks, work, file, rows, held, lock>> /\ (pc'[t] = "drop" => work[t] # "upload")
    BY <1>11, <1>a, <1>d DEF Open, OthersStay
  <2>2. InPlace(t)' /\ pc[t] \in Unborn
    BY <2>1, <1>b, <1>c DEF InPlace, Replacers, LockHeld, Unborn
  <2> QED
    BY <2>1, <2>2, <1>b, Quiet
<1>12. ASSUME NEW t \in Ops, Read(t) PROVE Replacing'
  <2>1. /\ pc[t] = "read" /\ pc'[t] \in {"count", "deleteChunks"} /\ OthersStay(t)
        /\ UNCHANGED <<chunks, work, file, held, lock>> /\ rows'[t] = OfFile(file[t])
        /\ (pc'[t] = "count" <=> work[t] = "upload")
    BY <1>12, <1>a, <1>d DEF Read, OthersStay
  <2>2. InPlace(t)' /\ pc[t] \in Unborn /\ rows'[t] \subseteq chunks
    BY <2>1, <1>b, <1>c DEF InPlace, Replacers, LockHeld, Unborn, OfFile
  <2> QED
    BY <2>1, <2>2, <1>b, Quiet
<1>13. ASSUME NEW t \in Ops, Count(t) PROVE Replacing'
  <2>1. /\ pc[t] = "count" /\ pc'[t] \in {"addFirst", "add"} /\ OthersStay(t)
        /\ UNCHANGED <<chunks, work, file, rows, held>> /\ lock = NoColl /\ lock' = t
    BY <1>13, <1>a, <1>d DEF Count, OthersStay
  <2>2. InPlace(t)' /\ pc[t] \in Unborn
    BY <2>1, <1>b, <1>c DEF InPlace, Replacers, LockHeld, Unborn
  <2> QED
    BY <2>1, <2>2, <1>b, Quiet
<1>14. ASSUME NEW t \in Ops, AddFails(t) \/ Recheck(t) PROVE Replacing'
  <2>1. /\ OthersStay(t) /\ UNCHANGED <<chunks, work, file, rows, held, lock>>
        /\ \/ pc[t] = "addFirst" /\ pc'[t] = "recheck"
           \/ pc[t] = "recheck" /\ pc'[t] = "drop" /\ chunks = {}
    BY <1>14, <1>a, <1>d DEF AddFails, Recheck, OthersStay
  <2>2. InPlace(t)' /\ pc'[t] \notin Unborn
    BY <2>1, <1>b, <1>c DEF InPlace, Replacers, LockHeld, Unborn
  <2> QED
    BY <2>1, <2>2, <1>b, Quiet
<1>15. ASSUME NEW t \in Ops, Erase(t) \/ Commit(t) PROVE Replacing'
  <2>1. pc[t] \in {"erase", "commit"} /\ backend = "pg"
    BY <1>15, <1>a, <1>c DEF Erase, Commit, InPlace
  <2>2. /\ pc'[t] \in {"done", "failed", "schedule"} /\ OthersStay(t)
        /\ (lock' = lock \/ lock \in {NoColl, t}) /\ rows'[t] \subseteq {MyChunks(t)}
    <3>1. ASSUME NEW s \in {"done", "failed"}, Return(t, s)
          PROVE  pc'[t] = s /\ OthersStay(t) /\ (lock' = lock \/ lock \in {NoColl, t}) /\ rows'[t] = {}
      BY <3>1, <1>a DEF Return, Let, Goto, OthersStay
    <3>2. CASE Erase(t)
      <4>1. \E s \in {"done", "failed"} : Return(t, s)
        BY <3>2 DEF Erase
      <4> QED
        BY <4>1, <3>1
    <3>3. CASE Commit(t) /\ ~Return(t, "done")
      BY <3>3, <1>a, <1>d DEF Commit, Stored, Let, OthersStay
    <3> QED
      BY <1>15, <3>1, <3>2, <3>3
  <2>3. chunks' \subseteq chunks \cup {MyChunks(t)}
    BY <1>15 DEF Erase, Commit
  <2>4. InPlace(t)' /\ pc'[t] \notin Unborn
    BY <2>2, NeutralInPlace DEF Neutral, Over
  <2>5. \A u \in Ops : InPlace(u)'
    BY <2>1, <2>2, <2>4, <1>b, OthersInPlace
  <2>6. Fresh'
    BY <2>2, <2>3, <2>4, FreshKept
  <2>7. NewestStays'
    BY <2>1, <1>b DEF NewestStays
  <2> QED
    BY <2>5, <2>6, <2>7 DEF Replacing
<1>16. ASSUME NEW t \in Ops, DeleteChunks(t) \/ Drop(t) PROVE Replacing'
  <2>1. /\ pc'[t] \in {"purge", "dropQuestions"} /\ OthersStay(t)
        /\ UNCHANGED <<work, file, rows, held, lock>>
    BY <1>16, <1>a, <1>d DEF DeleteChunks, Drop, OthersStay
  <2>2. chunks' \subseteq chunks /\ \A f \in Files : OfFile(f)' \in {{}, OfFile(f)}
    BY <1>16 DEF DeleteChunks, Drop, OfFile
  <2>3. InPlace(t)' /\ pc'[t] \notin Unborn /\ pc'[t] # "deleteOld"
    BY <2>1, NeutralInPlace DEF Neutral
  <2>4. \A u \in Ops : InPlace(u)'
    BY <2>1, <2>2, <2>3, <1>b, OthersInPlace
  <2>5. Fresh'
    BY <2>1, <2>2, <2>3, FreshKept
  <2>6. NewestStays'
    BY <2>1, <2>2, <2>3, <1>b, NewestKept
  <2> QED
    BY <2>4, <2>5, <2>6 DEF Replacing
<1>17. ASSUME NEW t \in Ops, DeleteOld(t) PROVE Replacing'
  <2>1. /\ pc[t] = "deleteOld" /\ pc'[t] = "purge" /\ OthersStay(t) /\ chunks' = chunks \ rows[t]
        /\ UNCHANGED <<work, file, rows, held, lock>>
    BY <1>17, <1>a, <1>d DEF DeleteOld, OthersStay
  <2>2. InPlace(t)' /\ pc'[t] \notin Unborn /\ pc'[t] # "deleteOld"
    BY <2>1, NeutralInPlace DEF Neutral
  <2>3. \A u \in Ops : InPlace(u)'
    BY <2>1, <2>2, <1>b, OthersInPlace
  <2>4. Fresh'
    BY <2>1, <2>2, FreshKept
  <2>5. NewestStays'
    <3> SUFFICES ASSUME backend = "chroma"
                 PROVE  \E rank \in [Copies -> Nat], top \in Nat : Aged(rank, top)'
      BY <1>b DEF NewestStays
    <3>1. PICK rank \in [Copies -> Nat], top \in Nat : Aged(rank, top)
      BY DEF Replacing, NewestStays
    <3>2. \A u \in Ops : pc'[u] = "deleteOld" => u # t /\ pc[u] = "deleteOld"
      BY <2>1 DEF OthersStay
    <3>3. ASSUME NEW f \in Files, OfFile(f)' # {} PROVE \E n \in Copies : Newest(rank, f, n)'
      <4>1. OfFile(f) # {}
        BY <2>1, <3>3 DEF OfFile
      <4>2. PICK n \in Copies : Newest(rank, f, n)
        BY <3>1, <4>1 DEF Aged
      <4>3. ASSUME <<f, n>> \in rows[t] PROVE FALSE
        <5>1. file[t] = f
          BY <2>1, <4>3, <1>c DEF InPlace, Replacers
        <5>2. rank[n] < rank[t] /\ rank[t] <= rank[n]
          BY <2>1, <3>1, <4>2, <4>3, <5>1 DEF Aged, Newest
        <5> QED
          BY <5>2, Places
      <4> QED
        BY <2>1, <3>2, <4>2, <4>3 DEF Newest
    <3>4. Aged(rank, top)'
      BY <2>1, <3>1, <3>2, <3>3 DEF Aged
    <3> QED
      BY <3>4
  <2> QED
    BY <2>3, <2>4, <2>5 DEF Replacing
<1>18. ASSUME NEW t \in Ops, Add(t) PROVE Replacing'
  <2>1. /\ pc[t] \in {"add", "addFirst"} /\ pc'[t] \in {"deleteOld", "purge"} /\ OthersStay(t)
        /\ chunks' = chunks \cup {MyChunks(t)} /\ lock' = NoColl
        /\ UNCHANGED <<work, file, rows, held>>
    BY <1>18, <1>a, <1>d DEF Add, OthersStay
  <2>2. lock = t /\ work[t] = "upload" /\ \A r \in rows[t] : r[1] = file[t]
    BY <2>1, <1>c DEF InPlace, LockHeld, Replacers
  <2>3. InPlace(t)' /\ pc'[t] \notin Unborn
    BY <2>1, <2>2, <1>b DEF InPlace, Replacers, LockHeld, Unborn
  <2>4. \A u \in Ops : InPlace(u)'
    BY <2>1, <2>2, <2>3, <1>b, OthersInPlace
  <2>5. Fresh'
    BY <2>1, <2>3, FreshKept
  <2>6. NewestStays'
    <3> SUFFICES ASSUME backend = "chroma"
                 PROVE  \E rank \in [Copies -> Nat], top \in Nat : Aged(rank, top)'
      BY <1>b DEF NewestStays
    <3>1. PICK rank \in [Copies -> Nat], top \in Nat : Aged(rank, top)
      BY DEF Replacing, NewestStays
    <3> DEFINE older == [rank EXCEPT ![t] = top + 1]
    <3>2. /\ older \in [Copies -> Nat] /\ t \in Copies /\ older[t] = top + 1
          /\ \A c \in Copies \ {t} : older[c] = rank[c] /\ rank[c] <= top
      BY <3>1, Places DEF Aged
    <3> HIDE DEF older
    <3>3. \A u \in Ops : \A r \in rows[u] : r[2] # t /\ r[2] \in Copies
      BY <2>1, <1>a, Places DEF Replacing, Fresh, Unborn
    <3>4. \A u \in Ops \ {t} : pc'[u] = "deleteOld" => pc[u] = "deleteOld" /\ u \in Copies
      BY <2>1, Places DEF OthersStay
    <3>5. \A c \in Copies : older[c] <= top + 1
      BY <3>2
    <3>6. ASSUME NEW u \in Ops, pc'[u] = "deleteOld", NEW r \in rows'[u] PROVE older[r[2]] < older[u]
      <4>1. r[2] \in Copies \ {t}
        BY <2>1, <3>3, <3>6
      <4>2. CASE u = t
        BY <4>1, <4>2, <3>2
      <4>3. CASE u # t
        BY <2>1, <4>1, <4>3, <3>1, <3>2, <3>4, <3>6 DEF Aged
      <4> QED
        BY <4>2, <4>3
    <3>7. ASSUME NEW f \in Files, OfFile(f)' # {} PROVE \E n \in Copies : Newest(older, f, n)'
      <4>1. CASE f = file[t]
        <5>1. <<f, t>> \in chunks'
          BY <2>1, <4>1 DEF MyChunks
        <5>2. \A u \in Ops : older[u] <= older[t]
          BY <3>2, <3>5, Places
        <5> QED
          BY <5>1, <5>2, <3>2 DEF Newest
      <4>2. CASE f # file[t]
        <5>1. OfFile(f) # {}
          BY <2>1, <3>7, <4>2 DEF OfFile, MyChunks
        <5>2. PICK n \in Copies : Newest(rank, f, n)
          BY <3>1, <5>1 DEF Aged
        <5>3. n # t
          BY <2>1, <5>2 DEF Newest, Replacing, Fresh, Unborn
        <5>4. ASSUME NEW u \in Ops, pc'[u] = "deleteOld", file'[u] = f PROVE older[u] <= older[n]
          <6>1. u # t /\ pc[u] = "deleteOld" /\ file[u] = f /\ u \in Copies
            BY <2>1, <4>2, <5>4, <3>4
          <6> QED
            BY <6>1, <5>2, <5>3, <3>2 DEF Newest
        <5> QED
          BY <2>1, <5>2, <5>4 DEF Newest
      <4> QED
        BY <4>1, <4>2
    <3>8. Aged(older, top + 1)'
      BY <3>5, <3>6, <3>7 DEF Aged
    <3> QED
      BY <3>2, <3>8
  <2> QED
    BY <2>4, <2>5, <2>6 DEF Replacing
<1>19. ASSUME UNCHANGED <<backend, chunks, pc, names, locals>> PROVE Replacing'
  <2>1. \A t \in Ops : InPlace(t)'
    BY <1>19, <1>c DEF InPlace
  <2>2. Fresh'
    BY <1>19 DEF Replacing, Fresh
  <2>3. NewestStays'
    BY <1>19 DEF Replacing, NewestStays, Aged, Newest, OfFile
  <2> QED
    BY <2>1, <2>2, <2>3 DEF Replacing
<1>20. ASSUME NEW f \in Files, Expire(f) PROVE Replacing'
  BY <1>20, <1>19 DEF Expire
<1>21. CASE UNCHANGED vectorVars
  BY <1>21, <1>19 DEF vectorVars
<1>22. ASSUME NEW t \in Ops, Step(t) PROVE Replacing'
  BY <1>22, <1>1, <1>4, <1>5, <1>6, <1>7, <1>8, <1>9, <1>10, <1>11, <1>12, <1>13, <1>14, <1>15, <1>16,
     <1>17, <1>18 DEF Step, PgStep, ChromaStep, PassStep
<1> QED
  BY <1>20, <1>21, <1>22 DEF Next

(* The steps of an upload itself. *)
LEMMA UploadStepKeeps ==
  ASSUME TypeOK, OnPg, Replacing, NEW t \in Ops, Step(t), work[t] = "upload", pc[t] # "idle",
         NEW f \in Files, OfFile(f) # {}
  PROVE  OfFile(f)' # {}
<1>a. /\ pc \in [Ops -> Stages] /\ held \in [Ops -> SUBSET Chunks] /\ rows \in [Ops -> SUBSET Chunks]
      /\ file \in [Ops -> Files] /\ backend \in {"pg", "chroma"}
  BY DEF TypeOK
<1>b. InPlace(t)
  BY DEF Replacing
<1>1. CASE UNCHANGED chunks
  BY <1>1 DEF OfFile
<1>2. CASE Commit(t)
  <2>1. chunks' = (chunks \ held[t]) \cup {<<file[t], t>>}
    BY <1>2 DEF Commit, MyChunks
  <2>2. \A r \in held[t] : r[1] = file[t]
    BY <1>2, <1>b DEF Commit, InPlace
  <2>3. CASE f = file[t]
    <3>1. <<f, t>> \in chunks' /\ <<f, t>>[1] = f
      BY <2>1, <2>3
    <3> QED
      BY <3>1 DEF OfFile
  <2>4. CASE f # file[t]
    <3>1. PICK r \in chunks : r[1] = f
      BY DEF OfFile
    <3>2. r \in chunks'
      BY <2>1, <2>2, <2>4, <3>1
    <3> QED
      BY <3>1, <3>2 DEF OfFile
  <2> QED
    BY <2>3, <2>4
<1>3. CASE Add(t)
  BY <1>3 DEF Add, OfFile
<1>4. CASE DeleteOld(t)
  <2>1. pc[t] = "deleteOld" /\ chunks' = chunks \ rows[t]
    BY <1>4 DEF DeleteOld
  <2>2. backend = "chroma"
    BY <2>1, <1>a DEF OnPg, PgStages, Over, Passing
  <2>3. PICK rank \in [Copies -> Nat], top \in Nat : Aged(rank, top)
    BY <2>2 DEF Replacing, NewestStays
  <2>4. PICK n \in Copies : Newest(rank, f, n)
    BY <2>3 DEF Aged
  <2>5. ASSUME <<f, n>> \in rows[t] PROVE FALSE
    <3>1. file[t] = f
      BY <2>1, <2>5, <1>b DEF InPlace, Replacers
    <3>2. rank[n] < rank[t] /\ rank[t] <= rank[n]
      BY <2>1, <2>3, <2>4, <2>5, <3>1 DEF Aged, Newest
    <3> QED
      BY <3>2, Places
  <2>6. <<f, n>> \in chunks'
    BY <2>1, <2>4, <2>5 DEF Newest
  <2> QED
    BY <2>6 DEF OfFile
<1>5. CASE Drop(t)
  <2>1. chunks = {}
    BY <1>5, <1>b DEF Drop, InPlace
  <2> QED
    BY <2>1 DEF OfFile
<1>6. ~Erase(t) /\ ~DeleteChunks(t)
  BY <1>b DEF Erase, DeleteChunks, InPlace
<1>7. ~(\E m \in May[t] : Begin(t, m[1], m[2]))
  BY DEF Begin
<1>8. CASE PassStep(t) \/ Collect(t) \/ Fail(t) \/ See(t) \/ LockRows(t) \/ PgStoreQuestions(t)
  BY <1>8, <1>1 DEF PassStep, Schedule, AlreadyRunning, Generate, PurgeOld, Abandon, Clear, Die, Collect,
     Fail, See, LockRows, PgStoreQuestions, data
<1>9. CASE \/ Open(t) \/ Read(t) \/ Count(t) \/ AddFails(t) \/ Recheck(t) \/ Purge(t) \/ CountLeft(t)
           \/ DropQuestions(t) \/ CheckParents(t) \/ Write(t)
  BY <1>9, <1>1 DEF Open, Read, Count, AddFails, Recheck, Purge, CountLeft, DropQuestions, CheckParents,
     Write, data
<1> QED
  BY <1>2, <1>3, <1>4, <1>5, <1>6, <1>7, <1>8, <1>9 DEF Step, PgStep, ChromaStep

(* Only its own steps move a request on. *)
LEMMA OwnSteps ==
  ASSUME TypeOK, NEW t \in Ops, pc'[t] # pc[t], Next
  PROVE  Step(t)
<1>a. pc \in [Ops -> Stages]
  BY DEF TypeOK
<1>1. ASSUME NEW u \in Ops, Step(u) PROVE \E s : Goto(u, s)
  BY <1>1 DEF Step, Begin, Collect, Fail, PgStep, See, LockRows, Commit, Erase, PgStoreQuestions, ChromaStep,
     Open, Read, Count, Add, AddFails, Recheck, DeleteOld, DeleteChunks, Purge, CountLeft, Drop,
     DropQuestions, CheckParents, Write, PassStep, Schedule, AlreadyRunning, Generate, PurgeOld, Abandon,
     Clear, Die, Stored, Return
<1>2. ASSUME NEW u \in Ops, Step(u) PROVE u = t
  <2>1. PICK s : Goto(u, s)
    BY <1>1, <1>2
  <2> QED
    BY <2>1, <1>a DEF Goto
<1>3. ASSUME NEW f \in Files, Expire(f) PROVE FALSE
  BY <1>3 DEF Expire
<1> QED
  BY <1>2, <1>3 DEF Next

(* An upload that replaces a file leaves it searchable all the time: none   *)
(* of its steps takes the last copy of any file away, on either store and   *)
(* whatever else runs (add_file_to_rag_db of pg and of Chroma).             *)
THEOREM ReplacingKeepsCopies == Spec => ReplacingNeverEmpties
<1>1. ASSUME TypeOK, OnPg, Replacing, Next
      PROVE  \A t \in Ops, f \in Files :
               work[t] = "upload" /\ pc[t] # "idle" /\ pc'[t] # pc[t] /\ OfFile(f) # {} => OfFile(f)' # {}
  BY <1>1, OwnSteps, UploadStepKeeps
<1>2. TypeOK /\ OnPg /\ Replacing /\ [Next]_vectorVars =>
        [\A t \in Ops, f \in Files :
           work[t] = "upload" /\ pc[t] # "idle" /\ pc'[t] # pc[t] /\ OfFile(f) # {} => OfFile(f)' # {}
        ]_vectorVars
  BY <1>1
<1> QED
  BY <1>2, TypeInit, TypeStep, OnPgInit, OnPgStep, ReplacingInit, ReplacingStep, PTL
  DEF Spec, ReplacingNeverEmpties

-----------------------------------------------------------------------------
(* Why a request that met nobody else leaves its file in order.  While it   *)
(* is the only one at work, what it has read is what is stored; its own     *)
(* copy and its questions are new.  What is said of questions holds as long *)
(* as no lookup of them has failed under it.                                *)
Deletes(t) == work[t] \in {"deleteFile", "deleteCollection"}
Asking     == {"schedule", "generate", "purgeOld", "store", "write"}

Uploading(t) ==
  work[t] = "upload" =>
    /\ pc[t] \in {"lockRows", "count", "add", "addFirst"} => rows[t] = OfFile(file[t])
    /\ pc[t] = "commit" => held[t] = OfFile(file[t])
    /\ pc[t] = "deleteOld" =>
         OfFile(file[t]) = rows[t] \cup {MyChunks(t)} /\ MyChunks(t) \notin rows[t]
    /\ pc[t] \in {"purge", "clear"} \cup Asking => OfFile(file[t]) = {MyChunks(t)}
    /\ pc[t] \in Asking /\ t \notin missed => Asked(file[t]) = {}
    /\ pc[t] = "clear" /\ t \notin missed => \A q \in Asked(file[t]) : q.parent = t /\ q.by = t
    /\ pc[t] \notin {"erase", "deleteChunks", "countLeft", "purgeOld"}

Deleting(t) ==
  Deletes(t) =>
    /\ pc[t] \in {"see", "erase", "open", "read", "deleteChunks", "purge", "countLeft", "drop",
                  "dropQuestions"}
    /\ pc[t] = "erase" =>
         rows[t] = IF work[t] = "deleteFile" THEN OfFile(file[t]) ELSE chunks
    /\ pc[t] \in {"read", "deleteChunks", "purge", "countLeft"} => work[t] = "deleteFile"
    /\ pc[t] \in {"purge", "countLeft"} => OfFile(file[t]) = {}
    /\ pc[t] = "countLeft" /\ t \notin missed => Asked(file[t]) = {}

Regenerating(t) ==
  work[t] = "regenerate" =>
    /\ pc[t] \in {"read", "schedule"} \cup Passing
    /\ pc[t] \in {"clear"} \cup Asking => OfFile(file[t]) # {}
    /\ pc[t] \in {"store", "write"} /\ t \notin missed => Asked(file[t]) = {}
    /\ pc[t] = "clear" /\ t \notin missed =>
         \/ \A q \in Asked(file[t]) : q.by # t
         \/ /\ {<<q.file, q.parent>> : q \in Asked(file[t])} = OfFile(file[t])
            /\ \A q \in Asked(file[t]) : q.by = t

InOrder(t) ==
  /\ Uploading(t) /\ Deleting(t) /\ Regenerating(t)
  /\ pc[t] \in Asking => rows[t] = OfFile(file[t])
  /\ pc[t] = "dropQuestions" => chunks = {} /\ coll = NoColl

Unasked(t) == pc[t] \notin Over \cup {"clear", "abandon"} => \A q \in questions : q.by # t
Shelved    == backend = "chroma" /\ chunks # {} => coll # NoColl

LoneInOrder ==
  /\ \A t \in Busy \ company : Busy = {t} /\ InOrder(t)
  /\ \A t \in Ops : Unasked(t)
  /\ Shelved

LEMMA LoneInit == Init => LoneInOrder
<1> SUFFICES ASSUME Init PROVE LoneInOrder
  OBVIOUS
<1>1. PICK s \in Starts : /\ backend = s.backend /\ chunks = s.chunks
                          /\ questions = s.questions /\ coll = s.coll
  BY DEF Init
<1>2. questions \subseteq [file : Files, parent : Past, by : Past]
  BY <1>1, VectorDbAssumption
<1>3. \A t \in Ops : Unasked(t)
  BY <1>2, VectorDbAssumption DEF Unasked
<1>4. Shelved
  BY <1>1, VectorDbAssumption DEF Shelved
<1>5. Busy = {}
  BY DEF Init, Busy
<1> QED
  BY <1>3, <1>4, <1>5 DEF LoneInOrder

Whole == Over \cup {"clear", "abandon"}

(* A step of a request leaves what is claimed of the others true.           *)
LEMMA OthersInOrder ==
  ASSUME LoneInOrder, NEW t \in Busy, OthersStay(t), pc'[t] # "idle",
         pc'[t] \in Over \/ UNCHANGED company, company \ {t} \subseteq company',
         \A q \in questions' : q \in questions \/ q.by = t,
         pc'[t] \notin Whole => pc[t] \notin Whole /\ questions' \subseteq questions,
         Shelved', Busy = {t} /\ InOrder(t) /\ pc'[t] \notin Over => InOrder(t)'
  PROVE  LoneInOrder'
<1>1. t \in Ops
  BY DEF Busy
<1>2. ASSUME NEW u \in Busy', u \notin company' PROVE Busy' = {u} /\ InOrder(u)'
  <2>1. u \in Ops /\ pc'[u] \notin Over \cup {"idle"}
    BY <1>2 DEF Busy
  <2>2. CASE u # t
    <3>1. u \in Busy /\ u \notin company
      BY <1>1, <1>2, <2>1, <2>2 DEF OthersStay, Busy
    <3> QED
      BY <2>2, <3>1 DEF LoneInOrder
  <2>3. CASE u = t
    <3>1. t \notin company
      BY <1>2, <2>1, <2>3
    <3>2. Busy = {t} /\ InOrder(t)
      BY <3>1 DEF LoneInOrder
    <3>3. Busy' = {t}
      BY <1>1, <2>1, <2>3, <3>2 DEF OthersStay, Busy
    <3> QED
      BY <2>1, <2>3, <3>2, <3>3
  <2> QED
    BY <2>2, <2>3
<1>3. ASSUME NEW u \in Ops, pc'[u] \notin Whole, NEW q \in questions' PROVE q.by # u
  <2>1. pc[u] \notin Whole
    BY <1>1, <1>3 DEF OthersStay
  <2>2. \A r \in questions : r.by # u
    BY <2>1 DEF LoneInOrder, Unasked, Whole
  <2> QED
    BY <2>2, <1>1, <1>3
<1>4. \A u \in Ops : Unasked(u)'
  BY <1>3 DEF Unasked, Whole
<1> QED
  BY <1>2, <1>4 DEF LoneInOrder

(* A request that begins is the only one at work, or was never alone.       *)
LEMMA BeginsInOrder ==
  ASSUME TypeOK, LoneInOrder, NEW t \in Ops, NEW m \in May[t], Begin(t, m[1], m[2])
  PROVE  LoneInOrder'
<1>1. /\ pc \in [Ops -> Stages] /\ work \in [Ops -> Kinds] /\ file \in [Ops -> Files]
      /\ m[1] \in Kinds
  BY VectorDbAssumption DEF TypeOK
<1>2. PICK s \in {"read", "see", "open"} : Goto(t, s) /\ (s = "read" <=> m[1] = "regenerate")
  BY DEF Begin
<1>3. /\ pc[t] = "idle" /\ pc'[t] = s /\ work'[t] = m[1]
      /\ \A u \in Ops \ {t} : pc'[u] = pc[u]
  BY <1>1, <1>2 DEF Begin, Goto
<1>4. Busy' = Busy \cup {t}
  BY <1>3 DEF Busy, Over
<1>5. ASSUME NEW u \in Busy', u \notin company' PROVE Busy' = {u} /\ InOrder(u)'
  <2>1. Busy = {} /\ u = t
    BY <1>4, <1>5 DEF Begin
  <2>2. InOrder(t)'
    BY <1>1, <1>2, <1>3
    DEF InOrder, Uploading, Deleting, Regenerating, Deletes, Asking, Kinds, Passing
  <2> QED
    BY <1>4, <2>1, <2>2
<1>6. UNCHANGED <<backend, chunks, questions, coll>>
  BY DEF Begin, data
<1>7. \A u \in Ops : Unasked(u)'
  <2>1. ASSUME NEW u \in Ops, pc'[u] \notin Whole PROVE pc[u] \notin Whole
    BY <1>3, <2>1 DEF Whole, Over
  <2> QED
    BY <2>1, <1>6 DEF LoneInOrder, Unasked, Whole
<1> QED
  BY <1>5, <1>6, <1>7 DEF LoneInOrder, Shelved

(* What an upload leaves of its file.                                       *)
OnlyMine(t) ==
  /\ {r \in chunks' : r[1] = file[t]} = {MyChunks(t)}
  /\ t \notin missed' => {q \in questions' : q.file = file[t]} = {}

LEMMA CommitLeaves ==
  ASSUME TypeOK, OnPg, Replacing, NEW t \in Ops, InOrder(t), Commit(t)
  PROVE  OnlyMine(t)
<1>1. /\ pc[t] = "commit" /\ chunks' = (chunks \ held[t]) \cup {MyChunks(t)}
      /\ questions' = AskedWithout(held[t])
  BY DEF Commit
<1>2. backend = "pg" /\ work[t] = "upload"
  BY <1>1 DEF TypeOK, Replacing, InPlace, Replacers
<1>3. held[t] = OfFile(file[t])
  BY <1>1, <1>2 DEF InOrder, Uploading
<1>4. {r \in chunks' : r[1] = file[t]} = {MyChunks(t)}
  BY <1>1, <1>3 DEF OfFile, MyChunks
<1>5. ASSUME NEW q \in questions', q.file = file[t] PROVE FALSE
  <2>1. q \in questions /\ <<q.file, q.parent>> \notin held[t]
    BY <1>1, <1>5 DEF AskedWithout
  <2>2. <<q.file, q.parent>> \in chunks
    BY <1>2, <2>1 DEF OnPg
  <2> QED
    BY <1>3, <1>5, <2>1, <2>2 DEF OfFile
<1> QED
  BY <1>4, <1>5 DEF OnlyMine

LEMMA PurgeLeaves ==
  ASSUME NEW t \in Ops, InOrder(t), Purge(t), work[t] = "upload"
  PROVE  OnlyMine(t)
<1>1. /\ pc[t] = "purge" /\ UNCHANGED chunks
      /\ t \notin missed' => questions' = questions \ Asked(file[t])
  BY DEF Purge, Unask
<1>2. OfFile(file[t]) = {MyChunks(t)}
  BY <1>1 DEF InOrder, Uploading
<1> QED
  BY <1>1, <1>2 DEF OnlyMine, OfFile, Asked

LEMMA LoneStep ==
  TypeOK /\ OnPg /\ Replacing /\ LoneInOrder /\ [Next]_vectorVars => LoneInOrder'
<1> SUFFICES ASSUME TypeOK, OnPg, Replacing, LoneInOrder, [Next]_vectorVars PROVE LoneInOrder'
  OBVIOUS
<1> USE DEF data, marks, locals, names
<1>a. /\ pc \in [Ops -> Stages] /\ work \in [Ops -> Kinds] /\ file \in [Ops -> Files]
      /\ rows \in [Ops -> SUBSET Chunks] /\ held \in [Ops -> SUBSET Chunks] /\ chunks \subseteq Chunks
      /\ backend \in {"pg", "chroma"}
  BY DEF TypeOK
<1>b. UNCHANGED backend /\ Shelved /\ \A t \in Ops : InPlace(t)
  BY BackendStays DEF LoneInOrder, Replacing
<1>m. missed \subseteq missed'
  BY MissedGrows
<1>d. ASSUME NEW t \in Ops, NEW s, Goto(t, s) PROVE pc'[t] = s /\ \A u \in Ops \ {t} : pc'[u] = pc[u]
  BY <1>d, <1>a DEF Goto
<1>e. ASSUME NEW t \in Ops, pc[t] \notin Over \cup {"idle"} PROVE t \in Busy
  BY <1>e DEF Busy
(* The step that ends a request. *)
<1>1. ASSUME NEW t \in Busy, NEW s \in {"done", "failed"}, Return(t, s), questions' \subseteq questions, Shelved'
      PROVE  LoneInOrder'
  <2>1. t \in Ops
    BY DEF Busy
  <2>2. /\ OthersStay(t) /\ pc'[t] = s /\ company' = company \ {t}
    BY <1>1, <2>1, <1>a DEF Return, Let, Goto, OthersStay
  <2> QED
    BY <1>1, <2>2, OthersInOrder DEF Over, Whole
(* A step that goes on. *)
<1>2. ASSUME NEW t \in Busy, OthersStay(t), pc'[t] \notin Over \cup {"idle"}, UNCHANGED company,
             \A q \in questions' : q \in questions \/ q.by = t,
             pc'[t] \in {"clear", "abandon"} \/ (pc[t] \notin Whole /\ questions' \subseteq questions),
             Shelved', InOrder(t) => InOrder(t)'
      PROVE  LoneInOrder'
  BY <1>2, OthersInOrder DEF Whole
<1>3. ASSUME NEW t \in Ops, Fail(t) \/ AlreadyRunning(t) \/ Die(t) \/ Clear(t) PROVE LoneInOrder'
  <2>1. UNCHANGED <<chunks, coll, questions>> /\ \E s \in {"done", "failed"} : Return(t, s)
    BY <1>3 DEF Fail, AlreadyRunning, Die, Clear
  <2>2. t \in Busy
    BY <1>3 DEF Fail, AlreadyRunning, Die, Clear, Busy, Over, Passing
  <2> QED
    BY <2>1, <2>2, <1>1, <1>b DEF Shelved
<1>4. ASSUME NEW t \in Ops, Collect(t) \/ Schedule(t) PROVE LoneInOrder'
  <2>1. /\ pc[t] \in {"read", "schedule"} /\ pc'[t] \in {"schedule", "generate"}
        /\ pc[t] = "read" => OfFile(file[t]) # {} /\ work[t] = "regenerate" /\ pc'[t] = "schedule"
        /\ pc[t] = "schedule" => pc'[t] = "generate" /\ rows'[t] = rows[t]
        /\ pc[t] = "read" => rows'[t] = OfFile(file[t])
        /\ UNCHANGED <<chunks, questions, coll, work, file, company>> /\ OthersStay(t)
    BY <1>4, <1>a, <1>d DEF Collect, Schedule, OthersStay
  <2>2. InOrder(t) => InOrder(t)'
    BY <2>1, <1>m DEF InOrder, Uploading, Deleting, Regenerating, Deletes, Asking, OfFile, Asked, MyChunks, Passing
  <2> QED
    BY <2>1, <2>2, <1>2, <1>b, <1>e DEF Shelved, Over, Whole
<1>5. ASSUME NEW t \in Ops, Generate(t) \/ Abandon(t) PROVE LoneInOrder'
  <2>1. /\ pc[t] \in Passing /\ pc'[t] \in {"clear", "purgeOld", "store", "abandon"}
        /\ pc'[t] # "abandon" => pc[t] = "generate"
        /\ pc'[t] = "purgeOld" => work[t] = "regenerate"
        /\ pc'[t] = "store" => work[t] # "regenerate"
        /\ pc[t] \notin {"clear", "abandon"}
        /\ UNCHANGED <<chunks, questions, coll, work, file, rows, company>> /\ OthersStay(t)
    BY <1>5, <1>a, <1>d DEF Generate, Abandon, OthersStay, Exclusive, Passing
  <2>2. InOrder(t) => InOrder(t)'
    <3>1. \A q \in questions : pc[t] = "generate" => q.by # t
      BY DEF LoneInOrder, Unasked, Over
    <3>2. work[t] \in Kinds
      BY <1>a
    <3> QED
      BY <2>1, <3>1, <3>2, <1>m
      DEF InOrder, Uploading, Deleting, Regenerating, Deletes, Asking, OfFile, Asked, MyChunks, Passing, Kinds
  <2>3. t \in Busy
    BY <2>1, <1>e DEF Passing, Over
  <2>4. pc'[t] \notin Over \cup {"idle"} /\ pc[t] \notin Whole
    BY <2>1 DEF Over, Whole, Passing
  <2> QED
    BY <2>1, <2>2, <2>3, <2>4, <1>2, <1>b DEF Shelved
<1>6. ASSUME NEW t \in Ops, PurgeOld(t) PROVE LoneInOrder'
  <2>1. /\ pc[t] = "purgeOld" /\ pc'[t] = "store" /\ questions' \subseteq questions
        /\ t \notin missed' => questions' = questions \ Asked(file[t])
        /\ UNCHANGED <<chunks, coll, work, file, rows, company>> /\ OthersStay(t)
    BY <1>6, <1>a, <1>d DEF PurgeOld, Unask, OthersStay
  <2>2. t \notin missed' => Asked(file[t])' = {}
    BY <2>1 DEF Asked
  <2>3. InOrder(t) => InOrder(t)'
    BY <2>1, <2>2, <1>m DEF InOrder, Uploading, Deleting, Regenerating, Deletes, Asking, OfFile, MyChunks, Passing
  <2> QED
    BY <2>1, <2>3, <1>2, <1>b, <1>e DEF Shelved, Over, Whole
<1>7. ASSUME NEW t \in Ops, CheckParents(t) PROVE LoneInOrder'
  <2>1. /\ pc[t] = "store" /\ pc'[t] \in {"abandon", "write"} /\ rows'[t] = rows[t] \cap chunks
        /\ UNCHANGED <<chunks, coll, questions, work, file, company>> /\ OthersStay(t)
    BY <1>7, <1>a, <1>d DEF CheckParents, OthersStay
  <2>2. InOrder(t) => InOrder(t)'
    BY <2>1, <1>m DEF InOrder, Uploading, Deleting, Regenerating, Deletes, Asking, OfFile, Asked, MyChunks, Passing
  <2> QED
    BY <2>1, <2>2, <1>2, <1>b, <1>e DEF Shelved, Over, Whole
(* The questions of a pass, and no others. *)
<1>8. ASSUME NEW t \in Ops, PgStoreQuestions(t) \/ Write(t) PROVE LoneInOrder'
  <2>1. /\ pc[t] \in {"store", "write"} /\ pc'[t] \in {"abandon", "clear"}
        /\ UNCHANGED <<chunks, coll, work, file, rows, company, missed>> /\ OthersStay(t)
        /\ IF pc'[t] = "clear"
             THEN questions' = questions \cup {[file |-> r[1], parent |-> r[2], by |-> t] : r \in rows[t]}
             ELSE questions' = questions
    BY <1>8, <1>a, <1>d DEF PgStoreQuestions, Write, OthersStay
  <2>2. \A q \in questions' : q \in questions \/ q.by = t
    BY <2>1
  <2>3. ASSUME InOrder(t) PROVE InOrder(t)'
    <3>1. CASE pc'[t] = "abandon"
      BY <2>1, <2>3, <3>1, <1>m
      DEF InOrder, Uploading, Deleting, Regenerating, Deletes, Asking, Passing
    <3>2. CASE pc'[t] = "clear" /\ t \in missed
      <4>1. OfFile(file[t])' = OfFile(file[t]) /\ MyChunks(t)' = MyChunks(t) /\ work[t] \in Kinds
        BY <2>1, <1>a DEF OfFile, MyChunks
      <4> QED
        BY <2>1, <2>3, <3>2, <4>1
        DEF InOrder, Uploading, Deleting, Regenerating, Deletes, Asking, Passing, Kinds
    <3>3. CASE pc'[t] = "clear" /\ t \notin missed
      <4>1. /\ work[t] \in {"upload", "regenerate"} /\ rows[t] = OfFile(file[t]) /\ Asked(file[t]) = {}
            /\ work[t] = "upload" => OfFile(file[t]) = {MyChunks(t)}
            /\ OfFile(file[t]) # {}
        BY <2>1, <2>3, <3>3, <1>a
        DEF InOrder, Uploading, Deleting, Regenerating, Deletes, Asking, Kinds
      <4>2. \A r \in rows[t] : r = <<file[t], r[2]>> /\ r[1] = file[t]
        BY <4>1, <1>a, Places DEF OfFile
      <4>3. Asked(file[t])' = {[file |-> r[1], parent |-> r[2], by |-> t] : r \in rows[t]}
        <5>1. \A q \in Asked(file[t])' : q \in {[file |-> r[1], parent |-> r[2], by |-> t] : r \in rows[t]}
          BY <2>1, <3>3, <4>1 DEF Asked
        <5>2. \A r \in rows[t] : [file |-> r[1], parent |-> r[2], by |-> t] \in Asked(file[t])'
          BY <2>1, <3>3, <4>2 DEF Asked
        <5> QED
          BY <5>1, <5>2
      <4>4. \A q \in Asked(file[t])' : q.by = t /\ <<q.file, q.parent>> \in rows[t]
        BY <4>2, <4>3
      <4>5. \A r \in rows[t] : \E q \in Asked(file[t])' : r = <<q.file, q.parent>>
        <5> SUFFICES ASSUME NEW r \in rows[t] PROVE \E q \in Asked(file[t])' : r = <<q.file, q.parent>>
          OBVIOUS
        <5>1. [file |-> r[1], parent |-> r[2], by |-> t] \in Asked(file[t])'
          BY <4>3
        <5>2. r = <<r[1], r[2]>>
          BY <4>2
        <5> QED
          BY <5>1, <5>2
      <4>6. {<<q.file, q.parent>> : q \in Asked(file[t])'} = rows[t]
        BY <4>4, <4>5
      <4>7. /\ OfFile(file[t])' = rows[t]
            /\ work'[t] = work[t] /\ MyChunks(t)' = MyChunks(t) /\ MyChunks(t)[2] = t
        BY <2>1, <4>1 DEF OfFile, MyChunks
      <4>8. work[t] = "upload" => \A q \in Asked(file[t])' : q.parent = t /\ q.by = t
        <5> SUFFICES ASSUME work[t] = "upload", NEW q \in Asked(file[t])' PROVE q.parent = t /\ q.by = t
          OBVIOUS
        <5>1. <<q.file, q.parent>> = <<file[t], t>> /\ q.by = t
          BY <4>1, <4>4 DEF MyChunks
        <5> QED
          BY <5>1
      <4> QED
        BY <3>3, <4>1, <4>4, <4>6, <4>7, <4>8, <1>m
        DEF InOrder, Uploading, Deleting, Regenerating, Deletes, Asking, Passing
    <3> QED
      BY <2>1, <3>1, <3>3, <3>2
  <2>4. t \in Busy /\ pc'[t] \notin Over \cup {"idle"} /\ pc'[t] \in {"clear", "abandon"} /\ Shelved'
    BY <2>1, <1>b, <1>e DEF Over, Shelved
  <2> QED
    BY <2>1, <2>2, <2>3, <2>4, <1>2
(* pgvector. *)
<1>9. ASSUME NEW t \in Ops, See(t) PROVE LoneInOrder'
  <2>1. /\ pc[t] = "see" /\ pc'[t] = (IF work[t] = "upload" THEN "lockRows" ELSE "erase")
        /\ rows'[t] = (IF work[t] = "deleteCollection" THEN chunks ELSE OfFile(file[t]))
        /\ UNCHANGED <<chunks, coll, questions, work, file, company>> /\ OthersStay(t)
    BY <1>9, <1>a, <1>d DEF See, OthersStay
  <2>2. InOrder(t) => InOrder(t)'
    BY <2>1, <1>a, <1>m
    DEF InOrder, Uploading, Deleting, Regenerating, Deletes, Asking, OfFile, Asked, MyChunks, Passing, Kinds
  <2> QED
    BY <2>1, <2>2, <1>2, <1>b, <1>e DEF Shelved, Over, Whole
<1>10. ASSUME NEW t \in Ops, LockRows(t) PROVE LoneInOrder'
  <2>1. /\ pc[t] = "lockRows" /\ pc'[t] = "commit" /\ held'[t] = rows[t] \cap chunks
        /\ UNCHANGED <<chunks, coll, questions, work, file, rows, company>> /\ OthersStay(t)
    BY <1>10, <1>a, <1>d DEF LockRows, OthersStay
  <2>2. work[t] = "upload"
    BY <2>1, <1>b DEF InPlace, Replacers
  <2>3. InOrder(t) => InOrder(t)'
    BY <2>1, <2>2, <1>m DEF InOrder, Uploading, Deleting, Regenerating, Deletes, Asking, OfFile, Asked, MyChunks
  <2> QED
    BY <2>1, <2>3, <1>2, <1>b, <1>e DEF Shelved, Over, Whole
(* An upload is stored: of its file only its copy is left, unasked about.   *)
<1>11. ASSUME NEW t \in Busy, Stored(t), work[t] = "upload", UNCHANGED coll, questions' \subseteq questions,
              Shelved', pc[t] \notin Whole,
              InOrder(t) => OnlyMine(t)
       PROVE  LoneInOrder'
  <2>0. t \in Ops
    BY DEF Busy
  <2>1. CASE Return(t, "done")
    BY <1>11, <2>1, <1>1
  <2>2. CASE /\ rows' = [rows EXCEPT ![t] = {MyChunks(t)}]
             /\ Let(t) /\ Goto(t, "schedule") /\ UNCHANGED names
    <3>1. /\ pc'[t] = "schedule" /\ rows'[t] = {MyChunks(t)} /\ OthersStay(t)
          /\ UNCHANGED <<work, file, company>>
      BY <2>0, <2>2, <1>a, <1>d DEF Let, OthersStay
    <3>2. InOrder(t) => InOrder(t)'
      <4> SUFFICES ASSUME InOrder(t) PROVE InOrder(t)'
        OBVIOUS
      <4>1. /\ {r \in chunks' : r[1] = file'[t]} = {MyChunks(t)}
            /\ t \notin missed' => {q \in questions' : q.file = file'[t]} = {}
            /\ MyChunks(t)' = MyChunks(t)
        BY <1>11, <3>1 DEF OnlyMine, MyChunks
      <4> QED
        BY <1>11, <3>1, <4>1, <1>m DEF InOrder, Uploading, Deleting, Regenerating, Deletes, Asking, OfFile, Asked
    <3> QED
      BY <1>11, <3>1, <3>2, <1>2 DEF Over
  <2> QED
    BY <1>11, <2>1, <2>2 DEF Stored
<1>12. ASSUME NEW t \in Ops, Commit(t) PROVE LoneInOrder'
  <2>1. /\ pc[t] = "commit" /\ chunks' = (chunks \ held[t]) \cup {MyChunks(t)}
        /\ questions' = AskedWithout(held[t]) /\ UNCHANGED coll /\ Stored(t)
    BY <1>12 DEF Commit
  <2>2. backend = "pg" /\ work[t] = "upload" /\ t \in Busy /\ pc[t] \notin Whole
    BY <2>1, <1>a, <1>b, <1>e DEF InPlace, Replacers, Over, Whole
  <2>3. questions' \subseteq questions /\ Shelved'
    BY <2>1, <2>2, <1>b DEF AskedWithout, Shelved
  <2> QED
    BY <1>12, <2>1, <2>2, <2>3, CommitLeaves, <1>11
<1>13. ASSUME NEW t \in Ops, Erase(t) PROVE LoneInOrder'
  <2>1. pc[t] = "erase" /\ questions' \subseteq questions /\ \E s \in {"done", "failed"} : Return(t, s)
    BY <1>13 DEF Erase, AskedWithout
  <2>2. t \in Busy /\ backend = "pg"
    BY <2>1, <1>a, <1>b, <1>e DEF InPlace, Over
  <2> QED
    BY <2>1, <2>2, <1>1, <1>b DEF Shelved
(* Chroma. *)
<1>14. ASSUME NEW t \in Ops, Open(t) PROVE LoneInOrder'
  <2>1. /\ pc[t] = "open" /\ pc'[t] = (IF work[t] = "deleteCollection" THEN "drop" ELSE "read")
        /\ coll' # NoColl
        /\ UNCHANGED <<chunks, questions, work, file, rows, company>> /\ OthersStay(t)
    BY <1>14, <1>a, <1>d, Places, VectorDbAssumption DEF Open, OthersStay, Copies
  <2>2. InOrder(t) => InOrder(t)'
    BY <2>1, <1>a, <1>m
    DEF InOrder, Uploading, Deleting, Regenerating, Deletes, Asking, OfFile, Asked, MyChunks, Passing, Kinds
  <2> QED
    BY <2>1, <2>2, <1>2, <1>b, <1>e DEF Shelved, Over, Whole
<1>15. ASSUME NEW t \in Ops, Read(t) PROVE LoneInOrder'
  <2>1. /\ pc[t] = "read" /\ pc'[t] = (IF work[t] = "upload" THEN "count" ELSE "deleteChunks")
        /\ work[t] # "regenerate" /\ rows'[t] = OfFile(file[t])
        /\ UNCHANGED <<chunks, coll, questions, work, file, company>> /\ OthersStay(t)
    BY <1>15, <1>a, <1>d DEF Read, OthersStay
  <2>2. InOrder(t) => InOrder(t)'
    BY <2>1, <1>a, <1>m
    DEF InOrder, Uploading, Deleting, Regenerating, Deletes, Asking, OfFile, Asked, MyChunks, Passing, Kinds
  <2> QED
    BY <2>1, <2>2, <1>2, <1>b, <1>e DEF Shelved, Over, Whole
<1>16. ASSUME NEW t \in Ops, Count(t) \/ AddFails(t) \/ Recheck(t) PROVE LoneInOrder'
  <2>1. /\ \/ pc[t] = "count" /\ pc'[t] \in {"addFirst", "add"}
           \/ pc[t] = "addFirst" /\ pc'[t] = "recheck"
           \/ pc[t] = "recheck" /\ pc'[t] = "drop"
        /\ UNCHANGED <<chunks, coll, questions, work, file, rows, company>> /\ OthersStay(t)
    BY <1>16, <1>a, <1>d DEF Count, AddFails, Recheck, OthersStay
  <2>2. work[t] = "upload"
    BY <2>1, <1>b DEF InPlace, Replacers
  <2>3. InOrder(t) => InOrder(t)'
    BY <2>1, <2>2, <1>m DEF InOrder, Uploading, Deleting, Regenerating, Deletes, Asking, OfFile, Asked, MyChunks
  <2>4. t \in Busy /\ pc'[t] \notin Over \cup {"idle"} /\ pc[t] \notin Whole
    BY <2>1, <1>e DEF Over, Whole
  <2> QED
    BY <2>1, <2>3, <2>4, <1>2, <1>b DEF Shelved
<1>17. ASSUME NEW t \in Ops, Add(t) PROVE LoneInOrder'
  <2>1. /\ pc[t] \in {"add", "addFirst"} /\ pc'[t] = (IF rows[t] # {} THEN "deleteOld" ELSE "purge")
        /\ chunks' = chunks \cup {MyChunks(t)} /\ coll # NoColl
        /\ UNCHANGED <<coll, questions, work, file, rows, company>> /\ OthersStay(t)
    BY <1>17, <1>a, <1>d DEF Add, Good, OthersStay
  <2>2. work[t] = "upload" /\ MyChunks(t) \notin chunks
    BY <2>1, <1>b DEF InPlace, Replacers, Replacing, Fresh, Unborn, MyChunks
  <2>3. ASSUME InOrder(t) PROVE InOrder(t)'
    <3>1. rows[t] = OfFile(file[t])
      BY <2>1, <2>2, <2>3, <1>m DEF InOrder, Uploading
    <3>2. /\ {r \in chunks' : r[1] = file'[t]} = rows[t] \cup {MyChunks(t)}
          /\ MyChunks(t) \notin rows[t] /\ MyChunks(t)' = MyChunks(t)
      BY <2>1, <2>2, <3>1 DEF OfFile, MyChunks
    <3> QED
      BY <2>1, <2>2, <3>1, <3>2, <1>m DEF InOrder, Uploading, Deleting, Regenerating, Deletes, Asking, OfFile
  <2>4. t \in Busy /\ pc'[t] \notin Over \cup {"idle"} /\ pc[t] \notin Whole /\ Shelved'
    BY <2>1, <1>e DEF Over, Whole, Shelved
  <2> QED
    BY <2>1, <2>3, <2>4, <1>2
<1>18. ASSUME NEW t \in Ops, DeleteOld(t) \/ DeleteChunks(t) PROVE LoneInOrder'
  <2>1. /\ pc[t] \in {"deleteOld", "deleteChunks"} /\ pc'[t] = "purge"
        /\ chunks' = chunks \ (IF pc[t] = "deleteOld" THEN rows[t] ELSE OfFile(file[t]))
        /\ UNCHANGED <<coll, questions, work, file, rows, company>> /\ OthersStay(t)
    BY <1>18, <1>a, <1>d DEF DeleteOld, DeleteChunks, OthersStay
  <2>2. ASSUME InOrder(t) PROVE InOrder(t)'
    <3>1. CASE pc[t] = "deleteOld"
      <4>1. work[t] = "upload"
        BY <3>1, <1>b DEF InPlace, Replacers
      <4>2. OfFile(file[t]) = rows[t] \cup {MyChunks(t)} /\ MyChunks(t) \notin rows[t]
        BY <2>2, <3>1, <4>1, <1>m DEF InOrder, Uploading
      <4>3. {r \in chunks' : r[1] = file'[t]} = {MyChunks(t)} /\ MyChunks(t)' = MyChunks(t)
        BY <2>1, <3>1, <4>2 DEF OfFile, MyChunks
      <4> QED
        BY <2>1, <4>1, <4>3, <1>m DEF InOrder, Uploading, Deleting, Regenerating, Deletes, Asking, OfFile
    <3>2. CASE pc[t] = "deleteChunks"
      <4>1. work[t] = "deleteFile"
        BY <2>2, <3>2, <1>a, <1>m
        DEF InOrder, Uploading, Deleting, Regenerating, Deletes, Asking, Passing, Kinds
      <4>2. {r \in chunks' : r[1] = file'[t]} = {}
        BY <2>1, <3>2 DEF OfFile
      <4> QED
        BY <2>1, <4>1, <4>2, <1>m DEF InOrder, Uploading, Deleting, Regenerating, Deletes, Asking, OfFile
    <3> QED
      BY <2>1, <3>1, <3>2
  <2>3. t \in Busy /\ pc'[t] \notin Over \cup {"idle"} /\ pc[t] \notin Whole /\ Shelved'
    BY <2>1, <1>b, <1>e DEF Over, Whole, Shelved
  <2> QED
    BY <2>1, <2>2, <2>3, <1>2
<1>19. ASSUME NEW t \in Ops, Purge(t) PROVE LoneInOrder'
  <2>1. /\ pc[t] = "purge" /\ questions' \subseteq questions /\ UNCHANGED <<chunks, coll>>
        /\ t \notin missed' => questions' = questions \ Asked(file[t])
        /\ t \in Busy /\ pc[t] \notin Whole
    BY <1>19, <1>e DEF Purge, Unask, Over, Whole
  <2>2. CASE work[t] = "upload" /\ Stored(t)
    BY <1>19, <2>1, <2>2, <1>11, <1>b, PurgeLeaves DEF Shelved
  <2>3. CASE work[t] # "upload" /\ Goto(t, "countLeft") /\ UNCHANGED <<names, locals>>
    <3>1. pc'[t] = "countLeft" /\ OthersStay(t) /\ UNCHANGED <<work, file, rows, company>>
      BY <2>3, <1>d DEF OthersStay
    <3>2. ASSUME InOrder(t) PROVE InOrder(t)'
      <4>1. work[t] = "deleteFile" /\ OfFile(file[t]) = {}
        BY <2>1, <2>3, <3>2, <1>a, <1>m
        DEF InOrder, Uploading, Deleting, Regenerating, Deletes, Asking, Passing, Kinds
      <4>2. /\ {r \in chunks' : r[1] = file'[t]} = {}
            /\ t \notin missed' => {q \in questions' : q.file = file'[t]} = {}
        BY <2>1, <3>1, <4>1 DEF OfFile, Asked
      <4> QED
        BY <3>1, <4>1, <4>2, <1>m DEF InOrder, Uploading, Deleting, Regenerating, Deletes, Asking, OfFile, Asked
    <3> QED
      BY <2>1, <3>1, <3>2, <1>2, <1>b DEF Shelved, Over
  <2> QED
    BY <1>19, <2>2, <2>3 DEF Purge
<1>20. ASSUME NEW t \in Ops, CountLeft(t) PROVE LoneInOrder'
  <2>1. /\ pc[t] = "countLeft" /\ UNCHANGED <<chunks, coll, questions>> /\ t \in Busy /\ pc[t] \notin Whole
    BY <1>20, <1>e DEF CountLeft, Over, Whole
  <2>2. CASE Goto(t, "drop") /\ UNCHANGED <<names, locals>>
    <3>1. pc'[t] = "drop" /\ OthersStay(t) /\ UNCHANGED <<work, file, rows, company>>
      BY <2>2, <1>d DEF OthersStay
    <3>2. InOrder(t) => InOrder(t)'
      BY <2>1, <3>1, <1>a, <1>m DEF InOrder, Uploading, Deleting, Regenerating, Deletes, Asking, Passing, Kinds
    <3> QED
      BY <2>1, <3>1, <3>2, <1>2, <1>b DEF Shelved, Over
  <2> QED
    BY <1>20, <2>1, <2>2, <1>1, <1>b DEF CountLeft, Shelved
<1>21. ASSUME NEW t \in Ops, Drop(t) PROVE LoneInOrder'
  <2>1. /\ pc[t] = "drop" /\ pc'[t] = "dropQuestions" /\ coll' = NoColl /\ chunks' = {}
        /\ UNCHANGED <<questions, work, file, rows, company>> /\ OthersStay(t)
    BY <1>21, <1>a, <1>d DEF Drop, OthersStay
  <2>2. InOrder(t) => InOrder(t)'
    BY <2>1, <1>a, <1>m DEF InOrder, Uploading, Deleting, Regenerating, Deletes, Asking, Passing, Kinds
  <2> QED
    BY <2>1, <2>2, <1>2, <1>e DEF Shelved, Over, Whole
<1>22. ASSUME NEW t \in Ops, DropQuestions(t) PROVE LoneInOrder'
  <2>1. questions' \subseteq questions /\ UNCHANGED <<chunks, coll>> /\ \E s \in {"done", "failed"} : Return(t, s)
    BY <1>22, UnaskedLess DEF DropQuestions
  <2>2. t \in Busy
    BY <1>22, <1>e DEF DropQuestions, Over
  <2> QED
    BY <2>1, <2>2, <1>1, <1>b DEF Shelved
<1>23. ASSUME NEW t \in Ops, Step(t) PROVE LoneInOrder'
  BY <1>23, BeginsInOrder, <1>3, <1>4, <1>5, <1>6, <1>7, <1>8, <1>9, <1>10, <1>12, <1>13, <1>14, <1>15, <1>16,
     <1>17, <1>18, <1>19, <1>20, <1>21, <1>22 DEF Step, PgStep, ChromaStep, PassStep
(* Nothing of this is about markers. *)
<1>24. ASSUME UNCHANGED <<backend, chunks, questions, coll, pc, names, locals>> PROVE LoneInOrder'
  BY <1>24, <1>m DEF LoneInOrder, Busy, InOrder, Uploading, Deleting, Regenerating, Deletes, OfFile, Asked, MyChunks,
               Unasked, Shelved
<1>25. ASSUME NEW f \in Files, Expire(f) PROVE LoneInOrder'
  BY <1>25, <1>24 DEF Expire
<1>26. CASE UNCHANGED vectorVars
  BY <1>26, <1>24 DEF vectorVars
<1> QED
  BY <1>23, <1>25, <1>26 DEF Next

(* The step that answers a request which was alone.                         *)
LEMMA LoneStepHeals ==
  ASSUME TypeOK, OnPg, Replacing, LoneInOrder, Next, NEW t \in Ops \ company,
         NEW f \in Files, NEW k \in Kinds, file[t] = f, work[t] = k, pc[t] # "done", pc'[t] = "done"
  PROVE  ChunksHealed(t, f, k)' /\ (t \notin missed => QuestionsHealed(t, f, k))'
<1> USE DEF data, marks, locals, names
<1>a. /\ pc \in [Ops -> Stages] /\ work \in [Ops -> Kinds] /\ file \in [Ops -> Files]
      /\ backend \in {"pg", "chroma"} /\ chunks \subseteq Chunks
  BY DEF TypeOK
<1>b. backend' = backend /\ Shelved /\ InPlace(t) /\ Step(t)
  BY BackendStays, OwnSteps DEF LoneInOrder, Replacing
<1>m. missed \subseteq missed'
  BY MissedGrows
<1>c. ASSUME NEW s, Goto(t, s) PROVE s = "done"
  BY <1>c, <1>a DEF Goto
<1>d. ASSUME NEW s, Return(t, s) PROVE s = "done"
  BY <1>d, <1>c DEF Return
<1>1. Commit(t) \/ Erase(t) \/ Purge(t) \/ CountLeft(t) \/ DropQuestions(t) \/ Clear(t)
  <2>1. ASSUME NEW m \in May[t], Begin(t, m[1], m[2]) PROVE FALSE
    BY <2>1, <1>c DEF Begin
  <2>2. ~Collect(t) /\ ~Fail(t) /\ ~See(t) /\ ~LockRows(t) /\ ~PgStoreQuestions(t)
    BY <1>c, <1>d DEF Collect, Fail, See, LockRows, PgStoreQuestions
  <2>3. /\ ~Open(t) /\ ~Read(t) /\ ~Count(t) /\ ~Add(t) /\ ~AddFails(t) /\ ~Recheck(t) /\ ~DeleteOld(t)
        /\ ~DeleteChunks(t) /\ ~Drop(t) /\ ~CheckParents(t) /\ ~Write(t)
    BY <1>c DEF Open, Read, Count, Add, AddFails, Recheck, DeleteOld, DeleteChunks, Drop, CheckParents, Write
  <2>4. ~Schedule(t) /\ ~AlreadyRunning(t) /\ ~Generate(t) /\ ~PurgeOld(t) /\ ~Abandon(t) /\ ~Die(t)
    BY <1>c, <1>d DEF Schedule, AlreadyRunning, Generate, PurgeOld, Abandon, Die
  <2> QED
    BY <2>1, <2>2, <2>3, <2>4, <1>b DEF Step, PgStep, ChromaStep, PassStep
<1>2. InOrder(t)
  <2>1. pc[t] \in {"commit", "erase", "purge", "countLeft", "dropQuestions", "clear", "abandon"}
    BY <1>1 DEF Commit, Erase, Purge, CountLeft, DropQuestions, Clear
  <2>2. t \in Busy
    BY <2>1 DEF Busy, Over
  <2> QED
    BY <2>2 DEF LoneInOrder
(* An upload without a pass. *)
<1>3. CASE Commit(t) \/ (Purge(t) /\ k = "upload")
  <2>1. k = "upload" /\ OnlyMine(t)
    BY <1>2, <1>3, <1>b, CommitLeaves, PurgeLeaves DEF Commit, InPlace, Replacers
  <2>2. OfFile(f)' = {<<f, t>>} /\ (t \notin missed' => Asked(f)' = {})
    BY <2>1 DEF OnlyMine, OfFile, Asked, MyChunks
  <2>3. chunks' # {}
    BY <2>2 DEF OfFile
  <2>4. backend = "chroma" => coll' # NoColl
    <3> SUFFICES ASSUME backend = "chroma" PROVE coll' # NoColl
      OBVIOUS
    <3>1. ~Commit(t)
      BY <1>b DEF Commit, InPlace
    <3>2. UNCHANGED <<chunks, coll>>
      BY <1>3, <3>1 DEF Purge
    <3> QED
      BY <2>3, <3>2, <1>b DEF Shelved
  <2> QED
    BY <2>1, <2>2, <2>3, <2>4, <1>a, <1>b DEF ChunksHealed, QuestionsHealed, CollectionExists
<1>4. CASE Purge(t) /\ k # "upload"
  BY <1>4, <1>c DEF Purge
(* A delete on pgvector. *)
<1>5. CASE Erase(t)
  <2>1. /\ pc[t] = "erase" /\ chunks' = chunks \ rows[t] /\ questions' = AskedWithout(rows[t])
    BY <1>5 DEF Erase
  <2>2. backend = "pg" /\ k \in {"deleteFile", "deleteCollection"}
    BY <2>1, <1>2, <1>a, <1>b
    DEF InPlace, InOrder, Regenerating, Kinds, Passing
  <2>3. rows[t] = IF k = "deleteFile" THEN OfFile(f) ELSE chunks
    BY <2>1, <2>2, <1>2 DEF InOrder, Deleting, Deletes
  <2>4. \A q \in questions' : <<q.file, q.parent>> \in chunks'
    BY <2>1, <2>2 DEF OnPg, AskedWithout
  <2>5. CASE k = "deleteFile"
    <3>1. OfFile(f)' = {}
      BY <2>1, <2>3, <2>5 DEF OfFile
    <3>2. Asked(f)' = {}
      <4>1. ASSUME NEW q \in questions', q.file = f PROVE <<f, q.parent>> \in OfFile(f)'
        BY <4>1, <2>4 DEF OfFile
      <4> QED
        BY <3>1, <4>1 DEF Asked
    <3> QED
      BY <2>2, <2>5, <3>1, <3>2, <1>b DEF ChunksHealed, QuestionsHealed, CollectionExists
  <2>6. CASE k = "deleteCollection"
    <3>1. chunks' = {} /\ questions' = {}
      BY <2>1, <2>3, <2>4, <2>6
    <3> QED
      BY <2>2, <2>6, <3>1, <1>b DEF ChunksHealed, QuestionsHealed, CollectionExists
  <2> QED
    BY <2>2, <2>5, <2>6
(* A delete on Chroma. *)
<1>6. CASE CountLeft(t)
  <2>1. pc[t] = "countLeft" /\ Good(t) /\ UNCHANGED <<chunks, coll, questions>>
    BY <1>6 DEF CountLeft
  <2>2. chunks # {}
    BY <1>6, <1>c DEF CountLeft
  <2>3. k = "deleteFile" /\ OfFile(f) = {} /\ (t \notin missed' => Asked(f) = {})
    BY <2>1, <1>2, <1>a, <1>m
    DEF InOrder, Uploading, Deleting, Regenerating, Deletes, Kinds, Passing
  <2>4. OfFile(f)' = {} /\ (t \notin missed' => Asked(f)' = {})
    BY <2>1, <2>3 DEF OfFile, Asked
  <2> QED
    BY <2>1, <2>2, <2>3, <2>4, <1>b DEF Good, ChunksHealed, QuestionsHealed, CollectionExists
<1>7. CASE DropQuestions(t)
  <2>1. /\ pc[t] = "dropQuestions" /\ UNCHANGED <<chunks, coll>>
        /\ t \notin missed' => questions' = {}
    BY <1>7 DEF DropQuestions, Unask
  <2>2. chunks = {} /\ coll = NoColl
    BY <2>1, <1>2 DEF InOrder
  <2>3. k # "upload"
    BY <1>7, <1>d DEF DropQuestions
  <2>4. k # "regenerate"
    BY <2>1, <1>2 DEF InOrder, Regenerating, Passing
  <2>5. OfFile(f)' = {} /\ (t \notin missed' => Asked(f)' = {})
    BY <2>1, <2>2 DEF OfFile, Asked
  <2> QED
    BY <2>1, <2>2, <2>3, <2>4, <2>5, <1>b DEF ChunksHealed, QuestionsHealed, CollectionExists
(* A pass. *)
<1>8. CASE Clear(t)
  <2>1. pc[t] = "clear" /\ UNCHANGED <<chunks, coll, questions>>
    BY <1>8, <1>d DEF Clear
  <2>2. /\ k \in {"upload", "regenerate"} /\ OfFile(f) # {}
        /\ k = "upload" => OfFile(f) = {MyChunks(t)}
        /\ k = "upload" /\ t \notin missed' => \A q \in Asked(f) : q.parent = t /\ q.by = t
        /\ k = "regenerate" /\ t \notin missed' =>
             \/ \A q \in Asked(f) : q.by # t
             \/ {<<q.file, q.parent>> : q \in Asked(f)} = OfFile(f) /\ \A q \in Asked(f) : q.by = t
    BY <2>1, <1>2, <1>a, <1>m DEF InOrder, Uploading, Deleting, Regenerating, Deletes, Kinds
  <2>3. OfFile(f)' = OfFile(f) /\ Asked(f)' = Asked(f) /\ MyChunks(t) = <<f, t>>
    BY <2>1 DEF OfFile, Asked, MyChunks
  <2>4. CollectionExists' <=> chunks' # {}
    <3>1. chunks # {}
      BY <2>2 DEF OfFile
    <3> QED
      BY <2>1, <3>1, <1>a, <1>b DEF CollectionExists, Shelved
  <2> QED
    BY <2>2, <2>3, <2>4 DEF ChunksHealed, QuestionsHealed
<1> QED
  BY <1>1, <1>3, <1>4, <1>5, <1>6, <1>7, <1>8

(* A request that met nobody else leaves its file in order, on either store *)
(* and whatever earlier races and failures left behind: an upload its own   *)
(* copy, a delete nothing, never a collection without chunks; and unless a  *)
(* lookup of the questions failed under it, a pass the questions of one     *)
(* pass, and never a question of a chunk that is gone (add_file_to_rag_db,  *)
(* delete_file_from_collection and store_questions of pg and of Chroma).    *)
THEOREM LoneRequestsLeaveOrder == Spec => LoneRequestsHeal
<1> DEFINE Inv == TypeOK /\ OnPg /\ Replacing /\ LoneInOrder
<1>1. Init => Inv
  BY TypeInit, OnPgInit, ReplacingInit, LoneInit
<1>2. Inv /\ [Next]_vectorVars => Inv'
  BY TypeStep, OnPgStep, ReplacingStep, LoneStep
<1>3. ASSUME Inv, Next, NEW t \in Ops \ company, NEW f \in Files, NEW k \in Kinds,
             file[t] = f, work[t] = k, pc[t] # "done", pc'[t] = "done"
      PROVE  ChunksHealed(t, f, k)' /\ (t \notin missed => QuestionsHealed(t, f, k))'
  BY <1>3, LoneStepHeals
<1>4. Inv /\ [Next]_vectorVars =>
        [\A t \in Ops \ company, f \in Files, k \in Kinds :
           file[t] = f /\ work[t] = k /\ pc[t] # "done" /\ pc'[t] = "done" =>
             ChunksHealed(t, f, k)' /\ (t \notin missed => QuestionsHealed(t, f, k))'
        ]_vectorVars
  BY <1>3
<1> QED
  BY <1>1, <1>2, <1>4, PTL DEF Spec, LoneRequestsHeal
=============================================================================
