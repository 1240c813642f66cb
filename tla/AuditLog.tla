------------------------------ MODULE AuditLog ------------------------------
(***************************************************************************)
(* The audit lists of utils/store/audit.py, and what all requests of the   *)
(* gate have in common.  Every request logs at most one event, so that an  *)
(* event is named by its request.                                          *)
(***************************************************************************)
EXTENDS Registry

CONSTANTS
  Ops,         \* requests to the API or by an admin
  Procs,       \* worker processes
  MaxEvents,   \* _MAX_EVENTS
  PageLimit    \* the limit of a page

Kinds  == {"ask", "audit", "issue", "rotate", "revoke", "save"}
Lists  == {"global", "app"}
Pages  == [list : Lists, offset : 0..PageLimit]

ASSUME AuditAssumption ==
  /\ IsFiniteSet(Ops) /\ Procs # {}
  /\ MaxEvents \in Nat \ {0} /\ PageLimit \in Nat \ {0}

VARIABLES
  plan,       \* plan[t]: the kinds request t can be
  pc,         \* pc[t]: the command it is about to send
  home,       \* home[t]: the process it runs in
  events,     \* events[l]: an audit list
  trail,      \* trail[l]: the events ever pushed to it
  asked,      \* asked[t]: the page asked for, with the length LLEN gave
  page        \* page[t]: the page as answered

auditVars == <<events, trail>>
pageVars  == <<asked, page>>

Over   == {"done", "failed", "warned", "refused", "dead"}
Busy   == {t \in Ops : pc[t] \notin Over \cup {"idle"}}
Goto(t, stage) == pc' = [pc EXCEPT ![t] = stage]

Oldest(s) == SubSeq(s, 1, Min({Len(s), MaxEvents}))      \* mutant: LTRIM from the front
Latest(s) == SubSeq(s, Max({1, Len(s) - MaxEvents + 1}), Len(s))

(* log_event: RPUSH and LTRIM of each list in one pipeline. *)
LogEvent(t, lists) ==
  /\ events' = [l \in Lists |-> IF l \in lists THEN Latest(Append(events[l], t)) ELSE events[l]]
  /\ trail' = [l \in Lists |-> IF l \in lists THEN Append(trail[l], t) ELSE trail[l]]

(* get_audit_log: LLEN, and then LRANGE by positions counted from it. *)
AuditLength(t, p) ==
  /\ pc[t] = "idle" /\ "audit" \in plan[t]
  /\ p.offset < Len(events[p.list])
  /\ asked' = [asked EXCEPT ![t] =
       [list |-> p.list, offset |-> p.offset, total |-> Len(events[p.list]), known |-> Len(trail[p.list])]]
  /\ Goto(t, "range")
  /\ UNCHANGED <<plan, home, auditVars, page>>

AuditRange(t) ==
  /\ pc[t] = "range"
  /\ LET list == events[asked[t].list]
         last == asked[t].total - asked[t].offset
         first == Max({1, last - PageLimit + 1})
     IN page' = [page EXCEPT ![t] = Reverse(SubSeq(list, first, last))]
  /\ Goto(t, "done")
  /\ UNCHANGED <<plan, home, auditVars, asked>>
=============================================================================
