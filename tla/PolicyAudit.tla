----------------------------- MODULE PolicyAudit ----------------------------
(***************************************************************************)
(* PolicyAuditLog (src/v6-audit.ts): decisions are appended to a list that *)
(* holds at most maxEvents of them and counts those it drops.  A reader    *)
(* walks the events of one organization newest first, page by page, with   *)
(* the offset that the last page returned, while others append.  An event  *)
(* is its organization, its time and a number of its own; what else it     *)
(* says, and the validation that refuses it, are left out.                 *)
(***************************************************************************)
EXTENDS Integers, Sequences, FiniteSets

CONSTANTS Orgs, Times, MaxEvents, Pages, MaxAppends, NoWalk

VARIABLES events, dropped, appended, walk

auditVars == <<events, dropped, appended, walk>>

ASSUME AuditAssumption ==
    Times \subseteq Nat /\ MaxEvents \in Nat \ {0} /\ Pages \subseteq Nat \ {0} /\ MaxAppends \in Nat
-----------------------------------------------------------------------------
\* What is left of the list when the oldest entries beyond the limit are gone.
Kept(s) == IF Len(s) > MaxEvents THEN SubSeq(s, Len(s) - MaxEvents + 1, Len(s)) ELSE s

MutDroppedBy(s) == IF Len(s) > MaxEvents + 1 THEN Len(s) - MaxEvents ELSE 0
DroppedBy(s) == Len(s) - Len(Kept(s))

Record(org, at) ==
    LET s == Append(events, [org |-> org, at |-> at, n |-> appended])
    IN  /\ appended < MaxAppends
        /\ appended' = appended + 1
        /\ events' = Kept(s)
        /\ dropped' = dropped + DroppedBy(s)
        /\ UNCHANGED walk

\* query(): the events of the organization, newest first; events of the same
\* time stay in the order of the list.
Scoped(org) == {i \in 1 .. Len(events) : events[i].org = org}
Offset(org, i) ==
    Cardinality({k \in Scoped(org) : \/ events[k].at > events[i].at
                                     \/ events[k].at = events[i].at /\ k < i})
Page(org, start, limit) ==
    {i \in Scoped(org) : start <= Offset(org, i) /\ Offset(org, i) < start + limit}

\* A walk notes what was there when it began, what it has seen, and the drop
\* counts that its first and its latest page reported.
Begin(org) ==
    /\ walk = NoWalk
    /\ walk' = [org |-> org, cursor |-> 0, done |-> FALSE,
                there |-> {events[i].n : i \in Scoped(org)}, seen |-> {},
                first |-> dropped, last |-> dropped]
    /\ UNCHANGED <<events, dropped, appended>>

\* A cursor beyond the end is refused, and the walk is over.
Query(limit) ==
    /\ walk # NoWalk /\ ~walk.done
    /\ LET total == Cardinality(Scoped(walk.org))
           page  == Page(walk.org, walk.cursor, limit)
           next  == walk.cursor + Cardinality(page)
       IN  walk' = IF walk.cursor > total THEN NoWalk
                   ELSE [walk EXCEPT !.seen = @ \cup {events[i].n : i \in page},
                                     !.cursor = next,
                                     !.done = next >= total,
                                     !.last = dropped]
    /\ UNCHANGED <<events, dropped, appended>>
-----------------------------------------------------------------------------
AuditInit == events = <<>> /\ dropped = 0 /\ appended = 0 /\ walk = NoWalk

AuditNext == \/ \E org \in Orgs : Begin(org) \/ \E at \in Times : Record(org, at)
             \/ \E limit \in Pages : Query(limit)

AuditSpec == AuditInit /\ [][AuditNext]_auditVars
-----------------------------------------------------------------------------
\* A reader is never misled: a walk whose pages all report the same number of
\* dropped events has returned every event that was there when it began,
\* whatever was appended in between and whatever the times of the events.
WalkIsComplete ==
    walk # NoWalk => (walk.done /\ walk.first = walk.last => walk.there \subseteq walk.seen)
=============================================================================
