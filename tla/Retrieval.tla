------------------------------ MODULE Retrieval -----------------------------
(***************************************************************************)
(* Retrieval (src/retrieval.ts, and search() of src/service.ts around it): *)
(* what of the stored memories a search returns.  Scores are abstracted to *)
(* the ranks they give, ties broken: a memory with a smaller number ranks  *)
(* higher.  Rerankers and MMR, which compare vectors, may give any ranks.  *)
(* The order of an answer decides what is cut off, and is not kept.        *)
(***************************************************************************)
EXTENDS Naturals, FiniteSets, FiniteSetsExt

CONSTANTS PoolIds,    \* memories, numbered from 1
          Pools,      \* the sets of memories, as functions on PoolIds, that are searched
          Queries,
          MaxEdges    \* the cap of expandRelationCandidates()

NoMemory == [scope |-> "absent", text |-> 0, source |-> 0, next |-> 0, rel |-> {}]
Blank    == 0         \* the text that duplicateKey() makes empty

\* What the constants are assumed to be.
ASSUME RetrievalAssumption ==
    /\ PoolIds \subseteq Nat /\ IsFiniteSet(PoolIds) /\ 0 \notin PoolIds
    /\ \A p \in Pools : DOMAIN p = PoolIds
    /\ \A q \in Queries : q.limit \in Nat /\ q.window \in Nat
    /\ \A q \in Queries : q.hurried => q.budget

VARIABLES pool,     \* what the backend holds for the caller: scope, text, source,
                    \* supersededBy (0: none), relations
          query,    \* scope, limit, budget (with items, bytes, and hurried for a
                    \* latency bound), flags, dedupe window
          pass,     \* 0, and then the number of passes of searchQ()
          found,    \* what the last pass returned
          faint,    \* ids that the last pass dropped for their similarity
          cut,      \* the last pass left some of its ranking out
          report    \* truncated_by of the last pass

retrievalVars == <<pool, query, pass, found, faint, cut, report>>

RetrievalInit == /\ pool \in Pools /\ query \in Queries
                 /\ pass = 0 /\ found = {} /\ faint = {} /\ cut = FALSE /\ report = {}

Stored == {i \in PoolIds : pool[i] # NoMemory}

\* applyScopeFilter(): 0 for a foreign scope.
InScope(i) == query.scope = "any" \/ pool[i].scope \in {query.scope, "global"}

\* The similarity gate is for memories that have no scope of the query's.
MayBeFaint(S) == IF query.semantic /\ query.scope = "any"
                 THEN {i \in S : pool[i].scope # "global"} ELSE {}

Orders(S) == IF query.semantic THEN {r \in [S -> 1 .. Cardinality(S)] : IsInjective(r)}
             ELSE {[i \in S |-> i]}

Before(S, rank, i) == {k \in S : rank[k] < rank[i]}

\* Step 9b: a memory whose replacement is among those searched.
MutCurrent(S, available) == {i \in S : pool[i].next = 0}
Current(S, available) ==
    IF query.superseded THEN S ELSE {i \in S : pool[i].next \notin available}

\* dedupeResults(): of those within its window, the first of its text, or of its
\* text and source; what lies beyond the window passes untouched.
Key(i) == IF query.dedupe = "source" THEN <<pool[i].text, pool[i].source>> ELSE <<pool[i].text>>
Repeats(S, rank, i) == /\ pool[i].text # Blank
                       /\ \E k \in Before(S, rank, i) : Key(k) = Key(i)
Dedupe(S, rank) ==
    IF query.dedupe = "off" THEN S
    ELSE {i \in S : Cardinality(Before(S, rank, i)) < query.window => ~Repeats(S, rank, i)}

\* Step 10c: the beginnings of the ranking, those that fit, what is kept of them
\* and what the report says of it.  The first result always fits.
Tops(S, rank) == {K \in SUBSET S : \A i \in K : Before(S, rank, i) \subseteq K}
Bytes(K) == MapThenSumSet(LAMBDA i : pool[i].text, K)
WithinBounds(K) ==
    /\ Cardinality(K) <= query.limit
    /\ Cardinality(K) <= 1 \/ query.bytes = 0 \/ Bytes(K) <= query.bytes
Reason(S, K) == IF ~query.budget \/ K = S THEN {}
                ELSE IF Cardinality(K) # query.limit THEN {"maxBytes"}
                ELSE IF query.items THEN {"maxItems"} ELSE {}
Cuts(S, rank) ==
    LET fitting == {K \in Tops(S, rank) : WithinBounds(K)}
        whole(K) == \A L \in fitting : L \subseteq K
    IN {[kept |-> K, by |-> Reason(S, K)] : K \in {L \in fitting : whole(L)}} \cup
       {[kept |-> K, by |-> {"maxLatency"}] :
            K \in {L \in fitting : query.hurried /\ L # {} /\ ~whole(L)}}

\* searchQ() on S, seeded with candidates when there are any that it finds.
SearchQ(S, seeds) ==
    \E weak \in SUBSET MayBeFaint(S) :
        LET scored == {i \in S : InScope(i)} \ weak
            chosen == IF scored \cap seeds = {} THEN scored ELSE scored \cap seeds
        IN \E ranked \in Orders(chosen) :
              LET distinct == Dedupe(Current(chosen, S), ranked)
              IN \E diverse \in Orders(distinct) : \E c \in Cuts(distinct, diverse) :
                    /\ found' = c.kept
                    /\ faint' = weak
                    /\ cut' = (c.kept # distinct)
                    /\ report' = c.by

Search == /\ pass = 0 /\ pass' = 1
          /\ SearchQ(Stored, {})
          /\ UNCHANGED <<pool, query>>

\* expandRelationCandidates() at depth 1: edges out and in, up to the cap, which
\* counts those that lead nowhere too.
OutEdges == {e \in found \X PoolIds : e[2] \in pool[e[1]].rel}
InEdges  == {e \in found \X Stored : e[1] \in pool[e[2]].rel}
Neighbours == {e[2] : e \in OutEdges \cup InEdges} \cap Stored
Expanded == {found \cup N : N \in
                IF Cardinality(OutEdges) + Cardinality(InEdges) <= MaxEdges THEN {Neighbours}
                ELSE {T \in SUBSET Neighbours : Cardinality(T) <= MaxEdges}}

\* The second pass, over what the first returned and its neighbours.
Expand == /\ pass = 1 /\ query.expand
          /\ \E E \in Expanded : /\ Cardinality(E) > Cardinality(found)
                                 /\ SearchQ(E, E)
          /\ pass' = 2
          /\ UNCHANGED <<pool, query>>

RetrievalNext == Search \/ Expand
RetrievalSpec == RetrievalInit /\ [][RetrievalNext]_retrievalVars
-----------------------------------------------------------------------------
\* What an answer never holds, whichever relations were followed: a memory of a
\* foreign scope, two memories of one text within the window of dedupeResults(),
\* more than the limit, or an old version beside the memory that replaces it.
ResultsAreClean ==
    /\ \A i \in found : /\ pool[i] # NoMemory
                        /\ query.scope # "any" => pool[i].scope \in {query.scope, "global"}
    /\ Cardinality(found) <= query.limit
    /\ query.dedupe = "exact" /\ Cardinality(Stored) <= query.window =>
          \A i, k \in found : pool[i].text = pool[k].text => i = k \/ pool[i].text = Blank
    /\ ~query.superseded => \A i \in found : pool[i].next \notin found

\* A budget that removed something says so, and one that did not does not.  The
\* limit of the query, where the budget has no item cap, is not the budget's.
CutIsReported ==
    /\ report # {} => query.budget /\ cut
    /\ query.budget /\ cut => report # {} \/ (~query.items /\ Cardinality(found) = query.limit)

\* What i leads to by one or more steps of a relation between stored memories.
Reached(i, R) == {k \in Stored : \A T \in SUBSET Stored :
                     (\A e \in R : (e[1] = i \/ e[1] \in T) => e[2] \in T) => k \in T}

Replaced == {e \in Stored \X Stored : pool[e[1]].next = e[2]}
Stands == {e \in Stored \X Stored :
             \/ pool[e[1]].next = e[2]
             \/ query.dedupe # "off" /\ pool[e[1]].text # Blank /\ Key(e[1]) = Key(e[2])}

\* Suppression never replaces a stale answer by no answer.  A memory that a
\* search leaves out without having cut its ranking is represented: through
\* memories that replace it and memories of the same text, in any number of
\* steps, by one that is returned.  Supersession that leaves the scope of the
\* query, or that runs in a circle, is the exception.
WellFormed == \A i \in Stored : /\ i \notin Reached(i, Replaced)
                                /\ pool[i].next \in Stored => InScope(pool[i].next)
NothingVanishes ==
    pass = 1 /\ ~cut /\ faint = {} /\ WellFormed =>
        \A i \in Stored : InScope(i) => (Reached(i, Stands) \cup {i}) \cap found # {}

\* An answer to a search holds nothing that it may not, whichever relations were
\* followed, says what a budget cut off, and represents every stored memory that
\* it does not hold.
RetrievalIsSound == ResultsAreClean /\ CutIsReported /\ NothingVanishes
=============================================================================
