------------------------------- MODULE Paging -------------------------------
(***************************************************************************)
(* A client walks through list() of service.ts page by page while others   *)
(* store, update, hide and forget memories.  Each page is a fresh read of  *)
(* the backend, sorted by updatedAt and id, both descending; the cursor    *)
(* names the last memory of the page before it.                           *)
(*                                                                         *)
(* An updatedAt is a small number that does not decrease: changes within a *)
(* millisecond share it.  Scope, type, agent and validity filters are one  *)
(* flag, visible.                                                          *)
(***************************************************************************)
EXTENDS Integers, FiniteSets

CONSTANTS ListIds,     \* memory ids, as numbers: their order matters
          Limits,      \* page sizes
          MaxStamp     \* bound: the clock

ASSUME PagingAssumption == /\ ListIds \subseteq Int /\ IsFiniteSet(ListIds)
                           /\ Limits \subseteq Nat \ {0}
                           /\ MaxStamp \in Nat /\ MaxStamp >= 2

VARIABLES memories,    \* memories[i]: [stamp, visible], stamp 0 for none
          now,
          cursor,      \* [stamp, id] of the last memory given; stamp MaxStamp + 1 at first
          given,       \* given[i]: how often memory i was on a page
          state,       \* walking, or done when a page came without nextCursor
          touched      \* history: changed, hidden or stored since the walk began

pagingVars == <<memories, now, cursor, given, state, touched>>

Absent == [stamp |-> 0, visible |-> FALSE]
First == [stamp |-> MaxStamp + 1, id |-> 0]

PagingInit ==
    /\ memories \in [ListIds -> {Absent} \cup [stamp : {1, 2}, visible : {TRUE}]]
    /\ now = 2 /\ cursor = First /\ given = [i \in ListIds |-> 0] /\ state = "walking" /\ touched = {}

(* compareMemoryDescending() > 0: the memory comes after the cursor. *)
MutAfter(m, c) == m.stamp < c.stamp
After(m, c) == m.stamp < c.stamp \/ (m.stamp = c.stamp /\ m.id < c.id)

Entry(i) == [stamp |-> memories[i].stamp, id |-> i]
Listed == {Entry(i) : i \in {j \in ListIds : memories[j].visible}}

(* list(): filter, sort, cut off what the cursor has passed, slice: nothing  *)
(* that is left for the next page comes before what is on this one.         *)
Page(limit) ==
    /\ state = "walking"
    /\ LET rest == {m \in Listed : After(m, cursor)}
       IN \E page \in SUBSET rest :
             /\ Cardinality(page) = IF limit < Cardinality(rest) THEN limit ELSE Cardinality(rest)
             /\ \A m \in page, n \in rest \ page : ~After(m, n)
             /\ given' = [i \in ListIds |-> given[i] + (IF Entry(i) \in page THEN 1 ELSE 0)]
             /\ IF page \notin {{}, rest}
                THEN /\ \E m \in page : (\A n \in page : ~After(n, m)) /\ cursor' = m
                     /\ UNCHANGED state
                ELSE state' = "done" /\ UNCHANGED cursor
    /\ UNCHANGED <<memories, now, touched>>

Rewrite(i, m) == /\ memories' = [memories EXCEPT ![i] = m]
                 /\ touched' = touched \cup {i}
                 /\ UNCHANGED <<now, cursor, given, state>>

(* store(), update(), touch() of other calls: the clock may have moved. *)
Change(i) == state = "walking" /\ Rewrite(i, [stamp |-> now, visible |-> TRUE])
ForgetListed(i) == state = "walking" /\ memories[i] # Absent /\ Rewrite(i, Absent)
Hide(i) == state = "walking" /\ memories[i].visible /\ Rewrite(i, [memories[i] EXCEPT !.visible = FALSE])
ClockMoves == state = "walking" /\ now < MaxStamp /\ now' = now + 1 /\ UNCHANGED <<memories, cursor, given, state, touched>>

PagingNext == \/ \E l \in Limits : Page(l)
              \/ \E i \in ListIds : Change(i) \/ ForgetListed(i) \/ Hide(i)
              \/ ClockMoves

PagingSpec == PagingInit /\ [][PagingNext]_pagingVars

-----------------------------------------------------------------------------
(* A memory nobody touches during a walk is given exactly once, whatever    *)
(* is stored, changed or forgotten around it, the memory the cursor names   *)
(* and others of the same millisecond included (service.ts:271-276 and      *)
(* 1850-1866).                                                              *)
UntouchedOnce ==
    \A i \in ListIds \ touched : memories[i].visible =>
        /\ given[i] <= 1
        /\ state = "done" => given[i] = 1
=============================================================================
