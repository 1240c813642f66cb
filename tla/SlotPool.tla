------------------------------ MODULE SlotPool ------------------------------
(***************************************************************************)
(* What the GPU capacity of utils/concurrency.py promises its callers: a   *)
(* bucket is a counting semaphore, whatever the number of processes behind *)
(* it.  A permit is granted only below the bucket's limit and can be given *)
(* up by anyone, at any time, several at once (a process that dies gives   *)
(* up everything it held).  Only an explicit rebuild moves the limit, to a *)
(* configured size plus what is outstanding at that moment.                *)
(***************************************************************************)
EXTENDS Naturals, FiniteSets

CONSTANTS
  Tasks,      \* the LLM calls that ask for permits
  Buckets,    \* the token buckets
  Sizes       \* Sizes[b]: the capacities bucket b is configured with

VARIABLES
  inUse,      \* inUse[b]: the calls that hold a permit of bucket b
  limit       \* limit[b]: how many may hold one

Init ==
  /\ inUse = [b \in Buckets |-> {}]
  /\ limit \in [Buckets -> Nat]

Grant(t, b) ==
  /\ t \notin inUse[b]
  /\ Cardinality(inUse[b]) < limit[b]
  /\ inUse' = [inUse EXCEPT ![b] = @ \cup {t}]
  /\ UNCHANGED limit

GiveUp ==
  /\ inUse' \in [Buckets -> SUBSET Tasks]
  /\ \A b \in Buckets : inUse'[b] \subseteq inUse[b]
  /\ UNCHANGED limit

Rebuild(b) ==
  /\ \E n \in Sizes[b] :
       limit' = [limit EXCEPT ![b] = n + Cardinality(inUse[b])]
  /\ UNCHANGED inUse

Next ==
  \/ \E t \in Tasks, b \in Buckets : Grant(t, b)
  \/ GiveUp
  \/ \E b \in Buckets : Rebuild(b)

Spec == Init /\ [][Next]_<<inUse, limit>>
=============================================================================
