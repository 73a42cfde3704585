------------------------------ MODULE Lifecycle -----------------------------
(***************************************************************************)
(* Expiry, archive, deletion, supersession and renewal of V6 records       *)
(* (src/v6-lifecycle.ts): applyLifecycleAction() on one record and         *)
(* runLifecycleJob() on the list, both pure, with a caller that keeps what *)
(* they return.  An action that is blocked or throws changes nothing, and  *)
(* is no step here.  Times are small numbers, a record's place in the list *)
(* is its name.  The operator sets and lifts legal holds.                  *)
(***************************************************************************)
EXTENDS Integers, FiniteSets

CONSTANTS Records,       \* places in the list, 1 .. n
          OrgOf,         \* the organization of each
          NoTime, NoOne, \* an absent expiresAt and an absent supersededBy
          Expiries,      \* the expiry times records start with
          Durations, MaxRenewals, Limits,
          Horizon, MaxRecVersion

VARIABLES rec, recClock

lifecycleVars == <<rec, recClock>>

ASSUME LifecycleAssumption ==
    /\ Records \subseteq Nat /\ Durations \subseteq Nat \ {0} /\ Limits \subseteq Nat
    /\ MaxRenewals \in Nat /\ Horizon \in Nat /\ MaxRecVersion \in Nat
    /\ Expiries \subseteq Nat \cup {NoTime} /\ NoTime \notin Int /\ NoOne \notin Records

LifecycleRecord ==
    [expiresAt : Nat \cup {NoTime}, legalHold : BOOLEAN, archived : BOOLEAN, deleted : BOOLEAN,
     supersededBy : Records \cup {NoOne}, renewals : Nat, version : Nat]
-----------------------------------------------------------------------------
\* evaluateExpiration(): the clock is asked last, and expiry is exclusive.
ExpirationState(r, now, skew) ==
    IF r.deleted \/ r.supersededBy # NoOne \/ r.archived \/ r.expiresAt = NoTime
       THEN "never_expires"
    ELSE IF r.expiresAt <= now        THEN "expired"
    ELSE IF r.expiresAt <= now + skew THEN "expiring"
    ELSE "active"

Due(r) == ExpirationState(r, recClock, 0) = "expired"

IncludeInRetrieval(r, now, includeExpired) ==
    /\ ~r.deleted /\ r.supersededBy = NoOne /\ ~r.archived
    /\ ExpirationState(r, now, 0) = "expired" => includeExpired

\* lifecycleStateOf() of the record schema, which asks the clock second.
LifecycleStateOf(r, now) ==
    IF r.deleted                                        THEN "deleted"
    ELSE IF r.expiresAt # NoTime /\ r.expiresAt <= now  THEN "expired"
    ELSE IF r.supersededBy # NoOne                      THEN "superseded"
    ELSE IF r.archived                                  THEN "archived"
    ELSE "active"

\* The refusals that come before the switch.
MutOpenTo(r, action) == r.legalHold => action = "supersede"
OpenTo(r, action) == ~r.deleted /\ (r.legalHold => action = "supersede")

Touched(r) == [r EXCEPT !.version = @ + 1]
-----------------------------------------------------------------------------
Delete(i) ==
    /\ OpenTo(rec[i], "delete") /\ Due(rec[i])
    /\ rec' = [rec EXCEPT ![i] = [Touched(@) EXCEPT !.deleted = TRUE]]

Archive(i) ==
    /\ OpenTo(rec[i], "archive") /\ ~rec[i].archived
    /\ rec' = [rec EXCEPT ![i] = [Touched(@) EXCEPT !.archived = TRUE]]

Supersede(i, other) ==
    /\ OpenTo(rec[i], "supersede") /\ other # i
    /\ rec' = [rec EXCEPT ![i] = [Touched(@) EXCEPT !.supersededBy = other]]

\* A renewal counts from now, also for a record that has expired.
Renew(i, duration) ==
    /\ OpenTo(rec[i], "renew") /\ rec[i].renewals < MaxRenewals
    /\ rec' = [rec EXCEPT ![i] = [Touched(@) EXCEPT !.expiresAt = recClock + duration,
                                                    !.renewals = rec[i].renewals + 1]]

Expire(i) ==
    /\ OpenTo(rec[i], "expire") /\ Due(rec[i])
    /\ rec' = [rec EXCEPT ![i] = [Touched(@) EXCEPT !.archived = FALSE]]

Act(i) ==
    /\ rec[i].version < MaxRecVersion
    /\ \/ Delete(i) \/ Archive(i) \/ Expire(i)
       \/ \E other \in Records : Supersede(i, other)
       \/ \E d \in Durations : Renew(i, d)
    /\ UNCHANGED recClock

\* One pass of the job, for an organization or (NoOne) for all: the first
\* `limit` records are processed, whatever their state, and those that are due
\* are deleted.
Mine(org) == {i \in Records : org \in {NoOne, OrgOf[i]}}
Processed(org, limit) == {i \in Mine(org) : Cardinality({k \in Mine(org) : k < i}) < limit}

RunLifecycleJob(org, limit) ==
    LET gone == {i \in Processed(org, limit) : ~rec[i].legalHold /\ Due(rec[i])}
    IN  /\ \A i \in gone : rec[i].version < MaxRecVersion
        /\ rec' = [i \in Records |-> IF i \in gone THEN [Touched(rec[i]) EXCEPT !.deleted = TRUE]
                                                   ELSE rec[i]]
        /\ UNCHANGED recClock

\* The operator, and time.
HoldRecord(i) == /\ ~rec[i].deleted
                 /\ rec' = [rec EXCEPT ![i].legalHold = ~@]
                 /\ UNCHANGED recClock

RecTick == recClock < Horizon /\ recClock' = recClock + 1 /\ UNCHANGED rec
-----------------------------------------------------------------------------
LifecycleInit ==
    /\ recClock = 0
    /\ \E at \in [Records -> Expiries] :
          rec = [i \in Records |-> [expiresAt |-> at[i], legalHold |-> FALSE, archived |-> FALSE,
                                    deleted |-> FALSE, supersededBy |-> NoOne,
                                    renewals |-> 0, version |-> 0]]

LifecycleNext ==
    \/ \E i \in Records : Act(i) \/ HoldRecord(i)
    \/ \E org \in {OrgOf[i] : i \in Records} \cup {NoOne}, limit \in Limits : RunLifecycleJob(org, limit)
    \/ RecTick

LifecycleSpec == LifecycleInit /\ [][LifecycleNext]_lifecycleVars

-----------------------------------------------------------------------------
\* What is deleted was due when it was deleted and has been left alone since:
\* no hold, archive, supersession or renewal, and no pass of the job, has
\* destroyed a record before its time or brought one back.
DestructionWasDue ==
    \A i \in Records : rec[i].deleted =>
       /\ rec[i].expiresAt # NoTime /\ rec[i].expiresAt <= recClock
       /\ ~rec[i].legalHold /\ ~rec[i].archived /\ rec[i].supersededBy = NoOne

\* The lifecycle and the record schema, which ask in different orders, agree
\* on which records are active.
StatesAgree ==
    \A i \in Records :
       IncludeInRetrieval(rec[i], recClock, FALSE) <=> LifecycleStateOf(rec[i], recClock) = "active"

\* Both: only what was due has been destroyed, nothing destroyed comes back, and
\* the lifecycle and the record schema agree on what is active.
LifecycleIsSound == DestructionWasDue /\ StatesAgree
=============================================================================
