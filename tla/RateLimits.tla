----------------------------- MODULE RateLimits -----------------------------
(***************************************************************************)
(* Request budgets (src/quota.ts over src/rate-limiter.ts for one process, *)
(* src/redis.ts behind src/shared-state.ts for several).  A request is     *)
(* charged to a sliding window of each dimension that it carries and to    *)
(* the base window of its identity.  In one process the decision and the   *)
(* charge are steps with awaits between them, behind a queue; with Redis   *)
(* both are one script, which sees the time its caller read before.        *)
(***************************************************************************)
EXTENDS Naturals, Sequences, FiniteSets, SequencesExt

CONSTANTS Calls,
          Keys,           \* the windows: [dim |-> ..., id |-> ...]
          Charged,        \* of each request the keys that it is charged to
          Policy,         \* of each dimension its limit and windowMs
          Stores,         \* the deployments: a subset of {"process", "redis"}
          MaxIdentities, MaxTime

\* assertPolicy(): a limit and a window of 0 are refused at startup.
Policies == [limit : Nat \ {0}, windowMs : Nat \ {0}]

Limit(k)  == Policy[k.dim].limit
Window(k) == Policy[k.dim].windowMs

VARIABLES store, limitClock,
          window,     \* of each key the charges, each with its time
          lru,        \* of each dimension its tracked keys, the least recently used first
          tail,       \* the calls that wait for each other: the promise chain of serialize()
          req,        \* of each request where it is and the time it was stamped with
          mode,       \* SharedState.mode
          forgotten   \* keys that were evicted while they had charges

limitVars == <<store, limitClock, window, lru, tail, req, mode, forgotten>>

Dims == {k.dim : k \in Keys}

ASSUME LimitAssumption ==
    /\ Stores \subseteq {"process", "redis"} /\ MaxTime \in Nat
    /\ Charged \in [Calls -> SUBSET Keys] /\ Policy \in [Dims -> Policies]

LimitInit == /\ store \in Stores
             /\ limitClock = 0
             /\ window = [k \in Keys |-> {}]
             /\ lru = [d \in Dims |-> <<>>]
             /\ tail = <<>>
             /\ req = [r \in Calls |-> [at |-> "new", time |-> 0]]
             /\ mode = IF store = "redis" THEN "connected" ELSE "absent"
             /\ forgotten = {}

Move(r, l) == req' = [req EXCEPT ![r].at = l]
Pruned(k, w, now) == {c \in w[k] : now - c.time < Window(k)}
-----------------------------------------------------------------------------
(* One process: InProcessRateLimiter, one per dimension.                   *)

Lapsed(k, w) == \A c \in w[k] : limitClock - c.time >= Window(k)

\* evict(): what has expired goes, and if that is nothing the least recently used.
Evict(d, l, w) ==
    LET live == SelectSeq(l[d], LAMBDA k : ~Lapsed(k, w))
    IN IF Len(live) < MaxIdentities THEN live ELSE Tail(live)

\* evaluate() of all the keys of one request, the last part of which is the
\* charge.  A key that is not tracked starts with an empty window.
Tracked(r) ==
    [d \in Dims |->
        LET mine == {k \in Charged[r] : k.dim = d}
        IN IF mine = {} THEN lru[d]
           ELSE LET k == CHOOSE x \in mine : TRUE
                    others == SelectSeq(lru[d], LAMBDA x : x # k)
                IN IF k \in ToSet(lru[d]) THEN Append(others, k)
                   ELSE Append(IF Len(lru[d]) >= MaxIdentities THEN Evict(d, lru, window) ELSE lru[d], k)]

Access(r, charge) ==
    LET tracked == Tracked(r)
        kept == Charged[r] \cup UNION {ToSet(tracked[d]) : d \in Dims}
    IN /\ lru' = tracked
       /\ window' = [k \in Keys |->
             IF k \notin kept THEN {}
             ELSE LET live == IF k \in Charged[r] THEN Pruned(k, window, limitClock) ELSE window[k]
                  IN IF charge /\ k \in Charged[r] THEN live \cup {[r |-> r, time |-> limitClock]} ELSE live]
       /\ forgotten' = forgotten \cup {k \in Keys \ kept : ~Lapsed(k, window)}

\* sweep(), every so many operations: windows that have expired are dropped.
Sweep == /\ store = "process"
         /\ \E k \in Keys : k \in ToSet(lru[k.dim]) /\ Lapsed(k, window)
         /\ lru' = [d \in Dims |-> SelectSeq(lru[d], LAMBDA k : ~Lapsed(k, window))]
         /\ window' = [k \in Keys |-> IF Lapsed(k, window) THEN {} ELSE window[k]]
         /\ UNCHANGED <<store, limitClock, tail, req, mode, forgotten>>

\* serialize(): behind whoever came before.
MutMayEnter(r) == TRUE
MayEnter(r) == Head(tail) = r

Enter(r) == /\ store = "process" /\ req[r].at = "new"
            /\ tail' = Append(tail, r)
            /\ Move(r, "queued")
            /\ UNCHANGED <<store, limitClock, window, lru, mode, forgotten>>

Room(r) == \A k \in Charged[r] : Cardinality(Pruned(k, window, limitClock)) < Limit(k)

\* Every dimension is asked before any is charged; the first refusal decides.
Decide(r) == /\ req[r].at = "queued" /\ MayEnter(r)
             /\ Access(r, FALSE)
             /\ IF Room(r) THEN Move(r, "charge") /\ UNCHANGED tail
                ELSE Move(r, "denied") /\ tail' = Tail(tail)
             /\ UNCHANGED <<store, limitClock, mode>>

ChargeAll(r) == /\ req[r].at = "charge"
                /\ Access(r, TRUE)
                /\ req' = [req EXCEPT ![r] = [at |-> "admitted", time |-> limitClock]]
                /\ tail' = Tail(tail)
                /\ UNCHANGED <<store, limitClock, mode>>
-----------------------------------------------------------------------------
(* Several processes: the script, and the wrapper that fails closed.       *)

Stamp(r) == /\ store = "redis" /\ req[r].at = "new"
            /\ req' = [req EXCEPT ![r] = [at |-> "sent", time |-> limitClock]]
            /\ UNCHANGED <<store, limitClock, window, lru, tail, mode, forgotten>>

\* QUOTA_SCRIPT: keys are pruned up to the one that refuses, or all are charged.
Script(r) ==
    LET now == req[r].time
        Refuses(k) == Cardinality(Pruned(k, window, now)) >= Limit(k)
    IN /\ req[r].at = "sent"
       /\ IF \E k \in Charged[r] : Refuses(k)
             THEN /\ \E S \in SUBSET Charged[r] :
                        /\ \E k \in S : Refuses(k) /\ \A x \in S \ {k} : ~Refuses(x)
                        /\ window' = [k \in Keys |-> IF k \in S THEN Pruned(k, window, now) ELSE window[k]]
                  /\ Move(r, "refused")
             ELSE /\ window' = [k \in Keys |-> IF k \in Charged[r]
                                               THEN Pruned(k, window, now) \cup {[r |-> r, time |-> now]}
                                               ELSE window[k]]
                  /\ req' = [req EXCEPT ![r].at = IF limitClock = now THEN "charged" ELSE "charged late"]
       /\ UNCHANGED <<store, limitClock, lru, tail, mode, forgotten>>

\* The answer arrives: markConnected().
ScriptAnswers(r) == /\ req[r].at \in {"refused", "charged", "charged late"}
                    /\ Move(r, CASE req[r].at = "refused" -> "denied"
                                 [] req[r].at = "charged" -> "admitted"
                                 [] req[r].at = "charged late" -> "admitted late")
                    /\ mode' = "connected"
                    /\ UNCHANGED <<store, limitClock, window, lru, tail, forgotten>>

\* The client fails, before the script has run or after: SERVICE_UNAVAILABLE.
Unreachable(r) == /\ req[r].at \in {"sent", "refused", "charged", "charged late"}
                  /\ Move(r, "unavailable")
                  /\ mode' = "unreachable"
                  /\ UNCHANGED <<store, limitClock, window, lru, tail, forgotten>>

LimitTick == /\ limitClock < MaxTime
             /\ limitClock' = limitClock + 1
             /\ UNCHANGED <<store, window, lru, tail, req, mode, forgotten>>

LimitNext == \/ \E r \in Calls : \/ Enter(r) \/ Decide(r) \/ ChargeAll(r)
                                 \/ Stamp(r) \/ Script(r) \/ ScriptAnswers(r) \/ Unreachable(r)
             \/ Sweep \/ LimitTick

LimitSpec == LimitInit /\ [][LimitNext]_limitVars
-----------------------------------------------------------------------------
\* A burst does not slip past a budget: of the requests of any span of windowMs
\* that are charged to one key, at most its limit are admitted, however their
\* decisions and charges interleave and whichever other dimension refuses some.
\* Keys that the ceiling on identities has evicted start anew, and requests
\* that reach Redis after the millisecond they are stamped with do not count.
WithinBudget ==
    \A k \in Keys \ forgotten, t \in 0 .. MaxTime :
        Cardinality({r \in Calls : /\ req[r].at = "admitted" /\ k \in Charged[r]
                                   /\ req[r].time \in t .. t + Window(k) - 1}) <= Limit(k)
=============================================================================
