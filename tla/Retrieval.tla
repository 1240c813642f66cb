------------------------------ MODULE Retrieval ------------------------------
(***************************************************************************)
(* Reading a collection while files in it are replaced, deleted and asked  *)
(* about: query_rag_db, search_collection, get_full_document_text and      *)
(* get_file_chunks of both vector stores.  Every SQL statement and every   *)
(* Chroma call of a reader is one action.                                  *)
(*                                                                         *)
(* How near a text is to the question is left open: a search may return    *)
(* any ranking of rows, and fewer than it was asked for, as an approximate *)
(* index does.  Writers are what readers can see of them: on pgvector      *)
(* transactions that may overlap, on Chroma one at a time, call by call.   *)
(* Questions.tla has them in full.  The question index is switched on.     *)
(***************************************************************************)
EXTENDS Fusion

CONSTANTS
  Ops,          \* readers
  Sources,      \* file names
  Starts,       \* the files there may be at first, sets of sources
  AllFiles,     \* no metadata filter
  LastIndices,  \* bound: LastIndices[f] are the indices a copy of file f may end at
  Fruitful,     \* the indices of chunks the LLM writes questions for
  MaxWrites,    \* bound: writes, each making one copy at most
  Limit,        \* n_results
  Pool,         \* candidate_pool of a RAG query
  NoList        \* a search that has not answered

Kinds == {"query", "search", "document"}

ASSUME RetrievalAssumption ==
  /\ IsFiniteSet(Ops) /\ IsFiniteSet(Sources) /\ AllFiles \notin Sources
  /\ Starts \subseteq SUBSET Sources
  /\ LastIndices \in [Sources -> SUBSET Nat] /\ MaxWrites \in Nat /\ Fruitful \subseteq Nat
  /\ {Limit, Pool} \subseteq Nat \ {0} /\ Limit <= Pool /\ Pool <= LongestList

VARIABLES
  backend,     \* get_vector_store: chosen once
  chunks,      \* the stored chunks
  questions,   \* the stored questions
  shelf,       \* Chroma's chunk collection, by the write that created it, or NoList
  writes,      \* writes begun
  writer,      \* what Chroma's writer does next, the file, and the rows to delete
  doubled,     \* history: the files that overlapping uploads have stored twice
  pc,          \* pc[t]: the next call of reader t
  kind, filter,   \* kind[t], filter[t]: what it reads, and of which file
  handle,      \* handle[t]: the collection it has opened
  total,       \* total[t]: the count it has read, to ask for no more
  lists,       \* lists[t]: the answers of its searches
  hits,        \* hits[t]: what they fuse to
  windows,     \* windows[t]: the ranges to fetch
  texts        \* texts[t]: the passages fetched, by the number of their window

store   == <<backend, chunks, questions, shelf, writes, writer, doubled>>
reading == <<kind, filter>>
vars    == <<store, pc, reading, handle, total, lists, hits, windows, texts>>

KeyOf(row) == [source |-> row.source, index |-> row.index]
OfFile(f)  == {r \in chunks : r.source = f}
AskedOf(f) == {q \in questions : q.parent.source = f}
Within(t, f) == filter[t] \in {AllFiles, f}
Matching(t)  == {r \in chunks : Within(t, r.source)}
QMatching(t) == {q \in questions : Within(t, q.parent.source)}
(* A call through the handle of a Chroma collection that was dropped fails. *)
Good(t) == backend = "chroma" => handle[t] = shelf
Goto(t, stage) == pc' = [pc EXCEPT ![t] = stage]

NewCopy(f, last) == {[source |-> f, index |-> i, copy |-> writes + 1] : i \in 0..last}

Init ==
  /\ backend \in {"pg", "chroma"}
  /\ \E files \in Starts, last \in [Sources -> UNION Range(LastIndices)] :
       /\ \A f \in Sources : last[f] \in LastIndices[f]
       /\ chunks = UNION {{[source |-> f, index |-> i, copy |-> 0] : i \in 0..last[f]} : f \in files}
       /\ shelf = IF files = {} THEN NoList ELSE 0
  /\ questions = {[parent |-> r, nr |-> n] : r \in {c \in chunks : c.index \in Fruitful}, n \in 1..2}
  /\ writes = 0 /\ doubled = {}
  /\ writer = [next |-> "none", file |-> CHOOSE f \in Sources : TRUE, old |-> {}]
  /\ pc = [t \in Ops |-> "idle"]
  /\ kind = [t \in Ops |-> "query"] /\ filter = [t \in Ops |-> AllFiles]
  /\ handle = [t \in Ops |-> NoList] /\ total = [t \in Ops |-> 0]
  /\ lists = [t \in Ops |-> <<NoList, NoList>>]
  /\ hits = [t \in Ops |-> <<>>] /\ windows = hits /\ texts = hits
-----------------------------------------------------------------------------
(* The rankings of up to n of the rows of S. *)
Rankings(S, n) == {s \in UNION {[1..k -> S] : k \in 0..Min({n, Cardinality(S)})} : IsInjective(s)}
ToKeys(ranking) == [i \in DOMAIN ranking |-> KeyOf(ranking[i])]

(* QUESTION_SEARCH and _question_search: the nearest questions, and of      *)
(* their parents each once, where its nearest question stands.              *)
Parents(ranking) ==
  FoldLeft(LAMBDA seen, q : IF q.parent \in ToSet(seen) THEN seen ELSE Append(seen, q.parent),
           <<>>, ranking)

Found(t, i, list) == lists' = [lists EXCEPT ![t][i] = list]

(* A request comes in.  pgvector's admin search looks for the collection    *)
(* first; Chroma opens it for every kind of read.                           *)
Begin(t, k, f) ==
  /\ pc[t] = "idle"
  /\ (k = "document") => f # AllFiles
  /\ (k = "search") => f = AllFiles
  /\ kind' = [kind EXCEPT ![t] = k] /\ filter' = [filter EXCEPT ![t] = f]
  /\ Goto(t, IF backend = "chroma" THEN "open"
             ELSE CASE k = "query" -> "ask" [] k = "search" -> "exists" [] k = "document" -> "read")
  /\ UNCHANGED <<store, handle, total, lists, hits, windows, texts>>

CollectionExists(t) ==
  /\ pc[t] = "exists"
  /\ Goto(t, IF chunks = {} THEN "missing" ELSE "ask")
  /\ UNCHANGED <<store, reading, handle, total, lists, hits, windows, texts>>

(* The two statements of a query run concurrently; a search has one.        *)
(* HYBRID_SEARCH fuses a dense and a full-text arm by chunk id: with both   *)
(* arms left open, any ranking of rows.                                     *)
AskHybrid(t) ==
  /\ pc[t] = "ask" /\ lists[t][1] = NoList
  /\ \E ranking \in Rankings(Matching(t), IF kind[t] = "query" THEN Pool ELSE Limit) :
       Found(t, 1, ToKeys(ranking))
  /\ IF kind[t] = "query" THEN UNCHANGED pc ELSE Goto(t, "done")
  /\ UNCHANGED <<store, reading, handle, total, hits, windows, texts>>

AskQuestions(t) ==
  /\ pc[t] = "ask" /\ kind[t] = "query" /\ lists[t][2] = NoList
  /\ \E nearest \in Rankings(QMatching(t), Pool) :
       Found(t, 2, ToKeys(Parents(nearest)))
  /\ UNCHANGED <<store, pc, reading, handle, total, hits, windows, texts>>

(* With all answers in, they are fused and the windows to fetch are known. *)
Fuse(t) ==
  /\ pc[t] = "ask" /\ kind[t] = "query" /\ NoList \notin ToSet(lists[t])
  /\ hits' = [hits EXCEPT ![t] = RrfFuse(lists[t], Limit)]
  /\ windows' = [windows EXCEPT ![t] = Windows(hits'[t])]
  /\ texts' = [texts EXCEPT ![t] = [i \in DOMAIN windows'[t] |-> NoList]]
  /\ Goto(t, IF windows'[t] = <<>> THEN "done" ELSE "fetch")
  /\ UNCHANGED <<store, reading, handle, total, lists>>

(* The rows of a passage, by their index. *)
Passage(S) == Sorted(S, LAMBDA r, s : r.index < s.index \/ (r.index = s.index /\ r.copy < s.copy))

(* _fetch_range: concurrently on pgvector; one by one on Chroma, which      *)
(* leaves an empty passage out.                                             *)
Fetch(t, i) ==
  /\ pc[t] = "fetch" /\ Good(t) /\ i \in DOMAIN texts[t] /\ texts[t][i] = NoList
  /\ backend = "chroma" => \A j \in 1..(i - 1) : texts[t][j] # NoList
  /\ LET w == windows[t][i]
     IN texts' = [texts EXCEPT ![t][i] =
          Passage({r \in OfFile(w.source) : w.lo <= r.index /\ r.index <= w.hi})]
  /\ Goto(t, IF NoList \in ToSet(texts'[t]) THEN "fetch" ELSE "done")
  /\ UNCHANGED <<store, reading, handle, total, lists, hits, windows>>

(* get_full_document_text and get_file_chunks: one read of the whole file. *)
ReadFile(t) ==
  /\ pc[t] = "read" /\ Good(t)
  /\ texts' = [texts EXCEPT ![t] = <<Passage(OfFile(filter[t]))>>]
  /\ Goto(t, IF OfFile(filter[t]) = {} THEN "missing" ELSE "done")
  /\ UNCHANGED <<store, reading, handle, total, lists, hits, windows>>
-----------------------------------------------------------------------------
(* Chroma: get_owned_collection, and then the matching rows are counted,    *)
(* because asking for more than there are is an error.                      *)
Wanted(t) == Min({IF kind[t] = "query" THEN Pool ELSE Limit, total[t]})
Left(t)   == IF Good(t) THEN Cardinality(Matching(t)) ELSE 0

Open(t) ==
  /\ pc[t] = "open"
  /\ handle' = [handle EXCEPT ![t] = shelf]
  /\ Goto(t, IF shelf = NoList THEN "missing" ELSE IF kind[t] = "document" THEN "read" ELSE "count")
  /\ UNCHANGED <<store, reading, total, lists, hits, windows, texts>>

CountMatching(t) ==
  /\ pc[t] = "count" /\ Good(t)
  /\ total' = [total EXCEPT ![t] = Cardinality(Matching(t))]
  /\ Goto(t, "nearest")
  /\ UNCHANGED <<store, reading, handle, lists, hits, windows, texts>>

(* _chunk_search: without rows to ask for there is no call. *)
Nearest(t) ==
  /\ pc[t] = "nearest"
  /\ Wanted(t) <= Left(t)
  /\ \E ranking \in Rankings(Matching(t), Wanted(t)) : Found(t, 1, ToKeys(ranking))
  /\ Goto(t, IF kind[t] = "query" THEN "countQuestions" ELSE "done")
  /\ UNCHANGED <<store, reading, handle, total, hits, windows, texts>>

(* _question_search, of the question index there is now. *)
CountQuestions(t) ==
  /\ pc[t] = "countQuestions"
  /\ total' = [total EXCEPT ![t] = Cardinality(QMatching(t))]
  /\ Goto(t, "nearestQuestions")
  /\ UNCHANGED <<store, reading, handle, lists, hits, windows, texts>>

NearestQuestions(t) ==
  /\ pc[t] = "nearestQuestions"
  /\ Wanted(t) <= Cardinality(QMatching(t))
  /\ \E ranking \in Rankings(QMatching(t), Wanted(t)) : Found(t, 2, ToKeys(Parents(ranking)))
  /\ Goto(t, "ask")
  /\ UNCHANGED <<store, reading, handle, total, hits, windows, texts>>

CallFails(t) ==
  /\ \/ pc[t] \in {"read", "count", "fetch"} /\ ~Good(t)
     \/ pc[t] = "nearest" /\ Wanted(t) > Left(t)
     \/ pc[t] = "nearestQuestions" /\ Wanted(t) > Cardinality(QMatching(t))
  /\ Goto(t, "failed")
  /\ UNCHANGED <<store, reading, handle, total, lists, hits, windows, texts>>
-----------------------------------------------------------------------------
(* Writers.  A transaction on pgvector shows when it commits.  The rows its *)
(* DELETE removed are those the statement saw when it began, of the copies  *)
(* up to seen: under READ COMMITTED it waits for another writer's rows and  *)
(* then does not see what that one inserted.  Questions go with the chunks. *)
Unread == UNCHANGED <<backend, pc, reading, handle, total, lists, hits, windows, texts>>
SeenOf(f, seen) == {r \in OfFile(f) : r.copy <= seen}

ReplaceKeeping(f, last, seen) ==      \* mutant: the old copy is not deleted
  /\ backend = "pg" /\ writes < MaxWrites
  /\ chunks' = chunks \cup NewCopy(f, last)
  /\ questions' = {q \in questions : q.parent \notin SeenOf(f, seen)}
  /\ doubled' = IF SeenOf(f, seen) = OfFile(f) THEN doubled ELSE doubled \cup {f}
  /\ writes' = writes + 1
  /\ UNCHANGED <<shelf, writer>>
  /\ Unread
Replace(f, last, seen) ==
  /\ backend = "pg" /\ writes < MaxWrites
  /\ chunks' = (chunks \ SeenOf(f, seen)) \cup NewCopy(f, last)
  /\ questions' = {q \in questions : q.parent \notin SeenOf(f, seen)}
  /\ doubled' = IF SeenOf(f, seen) = OfFile(f) THEN doubled ELSE doubled \cup {f}
  /\ writes' = writes + 1
  /\ UNCHANGED <<shelf, writer>>
  /\ Unread

(* The DELETE of a file, or of all files of the collection. *)
Erase(files, seen) ==
  /\ backend = "pg" /\ writes < MaxWrites
  /\ LET gone == UNION {SeenOf(f, seen) : f \in files}
     IN /\ chunks' = chunks \ gone
        /\ questions' = {q \in questions : q.parent \notin gone}
  /\ writes' = writes + 1
  /\ UNCHANGED <<shelf, writer, doubled>>
  /\ Unread

(* A pass over a file stores questions about the chunks of a copy. *)
StoreQuestions(f, c) ==
  /\ \E r \in OfFile(f) : r.copy = c
  /\ \A q \in AskedOf(f) : q.parent.copy # c
  /\ questions' = questions \cup
       {[parent |-> r, nr |-> n] :
          r \in {x \in OfFile(f) : x.copy = c /\ x.index \in Fruitful}, n \in 1..2}
  /\ UNCHANGED <<chunks, shelf, writes, writer, doubled>>
  /\ Unread

(* Chroma looks the question index up before it deletes from it or drops    *)
(* it, and takes a lookup that fails for an index that is not there.        *)
Unasked(Q) ==
  \/ questions' = questions \ Q
  \/ backend = "chroma" /\ questions' = questions

(* A pass that is to replace the questions of a file deletes them first. *)
DeleteQuestions(f) ==
  /\ Unasked(AskedOf(f))
  /\ UNCHANGED <<chunks, shelf, writes, writer, doubled>>
  /\ Unread

(* Chroma's upload adds the new chunks, deletes the old ones by id, and     *)
(* purges the questions; its delete ends with the collection, if that was   *)
(* the last file.                                                           *)
AddCopy(f, last) ==
  /\ backend = "chroma" /\ writer.next = "none" /\ writes < MaxWrites
  /\ shelf' = IF shelf = NoList THEN writes + 1 ELSE shelf
  /\ chunks' = chunks \cup NewCopy(f, last)
  /\ writer' = [next |-> "deleteOld", file |-> f, old |-> OfFile(f)]
  /\ writes' = writes + 1
  /\ UNCHANGED <<questions, doubled>>
  /\ Unread

DeleteChunks(f) ==
  /\ backend = "chroma" /\ writer.next = "none" /\ writes < MaxWrites /\ OfFile(f) # {}
  /\ chunks' = chunks \ OfFile(f)
  /\ writer' = [next |-> "purge", file |-> f, old |-> {}]
  /\ writes' = writes + 1
  /\ UNCHANGED <<questions, shelf, doubled>>
  /\ Unread

DeleteOld ==
  /\ writer.next = "deleteOld"
  /\ chunks' = chunks \ writer.old
  /\ writer' = [writer EXCEPT !.next = "purge"]
  /\ UNCHANGED <<questions, shelf, writes, doubled>>
  /\ Unread

Purge ==
  /\ writer.next = "purge"
  /\ Unasked(AskedOf(writer.file))
  /\ writer' = [writer EXCEPT !.next = IF chunks = {} THEN "drop" ELSE "none"]
  /\ UNCHANGED <<chunks, shelf, writes, doubled>>
  /\ Unread

(* delete_collection of a collection that has files, or that has lost its   *)
(* last one; the question index goes after it.                              *)
Drop ==
  /\ \/ writer.next = "drop" /\ UNCHANGED writes
     \/ /\ backend = "chroma" /\ writer.next = "none" /\ shelf # NoList
        /\ writes < MaxWrites /\ writes' = writes + 1
  /\ shelf' = NoList /\ chunks' = {}
  /\ writer' = [writer EXCEPT !.next = "dropQuestions"]
  /\ UNCHANGED <<questions, doubled>>
  /\ Unread

DropQuestions ==
  /\ writer.next = "dropQuestions"
  /\ Unasked(questions)
  /\ writer' = [writer EXCEPT !.next = "none"]
  /\ UNCHANGED <<chunks, shelf, writes, doubled>>
  /\ Unread
-----------------------------------------------------------------------------
Read(t) ==
  \/ \E k \in Kinds, f \in Sources \cup {AllFiles} : Begin(t, k, f)
  \/ CollectionExists(t) \/ AskHybrid(t) \/ AskQuestions(t) \/ Fuse(t)
  \/ \E i \in 1..Limit : Fetch(t, i)
  \/ ReadFile(t)
  \/ Open(t) \/ CountMatching(t) \/ Nearest(t) \/ CountQuestions(t) \/ NearestQuestions(t) \/ CallFails(t)

Write ==
  \/ \E f \in Sources :
       \/ \E last \in LastIndices[f] : \/ \E seen \in 0..writes : Replace(f, last, seen)
                                       \/ AddCopy(f, last)
       \/ \E c \in 0..writes : StoreQuestions(f, c)
       \/ DeleteQuestions(f) \/ DeleteChunks(f)
  \/ \E files \in {{f} : f \in Sources} \cup {Sources}, seen \in 0..writes : Erase(files, seen)
  \/ DeleteOld \/ Purge \/ Drop \/ DropQuestions

Next == Write \/ \E t \in Ops : Read(t)
Spec == Init /\ [][Next]_vars
-----------------------------------------------------------------------------
Answered == {t \in Ops : pc[t] = "done"}

(* The passages of an answer never overlap or touch, so that no text is     *)
(* sent to the LLM twice, and all of them together are the hits and their   *)
(* neighbours, nothing less and nothing more: what merge_windows makes of a *)
(* file's hits are the maximal runs of the chunks wanted from it.           *)
PassagesAreRuns ==
  \A t \in Ops : pc[t] \in {"fetch", "done"} /\ kind[t] = "query" =>
    LET ranges == ToSet(windows[t])
        Wants(f) == UNION {Window(h.index).lo .. Window(h.index).hi :
                             h \in {x \in ToSet(hits[t]) : x.source = f}}
    IN /\ \A f \in Sources :
            UNION {w.lo .. w.hi : w \in {x \in ranges : x.source = f}} = Wants(f)
       /\ \A v, w \in ranges : v # w /\ v.source = w.source => v.hi + 1 < w.lo \/ w.hi + 1 < v.lo
       /\ Len(windows[t]) = Cardinality(ranges)

(* What rrf_fuse promises: a chunk surfaced by two search paths outranks    *)
(* one found by only one path.  It does so while the lists are no longer    *)
(* than RrfK + 1, and while no list names a chunk twice: on pgvector the    *)
(* question search, the cascade of deletes and the transactions that        *)
(* replace a file see to that, but for the files that two overlapping       *)
(* uploads have stored twice.                                               *)
BothPathsOutrank ==
  \A t \in Answered : backend = "pg" /\ kind[t] = "query" /\ Pool <= RrfK + 1 =>
    LET fused == hits[t]
        Paths(key) == {i \in 1..2 : key \in ToSet(lists[t][i])}
    IN \A both, one \in {key \in KeysOf(lists[t]) : key.source \notin doubled} :
         Cardinality(Paths(both)) = 2 /\ Cardinality(Paths(one)) = 1 /\ one \in ToSet(fused) =>
           \E i, j \in DOMAIN fused : fused[i] = both /\ fused[j] = one /\ i < j

(* On pgvector a copy is never seen half-way, however uploads and deletes   *)
(* overlap with the reader and with each other: a passage, or a whole       *)
(* document, that has a chunk of a copy has all the chunks of that copy     *)
(* before it, from where the passage begins.  And copies are mixed only     *)
(* where two overlapping uploads have stored the file twice: otherwise a    *)
(* passage is a gapless run of one copy.                                    *)
Begins(t, i) == IF kind[t] = "document" THEN 0 ELSE windows[t][i].lo
Gapless(p)  == \A j \in DOMAIN p : p[j] = [p[1] EXCEPT !.index = @ + j - 1]
OneCopyEach ==
  \A t \in Ops : backend = "pg" =>
    \A i \in DOMAIN texts[t] : texts[t][i] \notin {NoList, <<>>} =>
      LET p == texts[t][i]
      IN /\ \A r \in ToSet(p) : \A before \in Begins(t, i)..r.index :
              [r EXCEPT !.index = before] \in ToSet(p)
         /\ p[1].source \notin doubled => Gapless(p)
=============================================================================
