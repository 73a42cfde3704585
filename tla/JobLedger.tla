----------------------------- MODULE JobLedger ------------------------------
(***************************************************************************)
(* SqliteJobStore (src/job-store.ts): the durable ledger every worker and  *)
(* scheduler shares.  Each method is one SQL statement, hence one action.  *)
(* InMemoryJobStore, of the same file, differs from it in one of them.     *)
(*                                                                         *)
(* Time is kept relative to the present, so that it need not be bounded: a *)
(* row holds the milliseconds left of its lease and of its delay (0 stands *)
(* for "in the past" and for NULL, which every statement treats alike) and *)
(* the milliseconds since it settled.  createdAt is only ever compared, so *)
(* it is the stamp of a clock that moves on when a row bears its stamp.    *)
(***************************************************************************)
EXTENDS Naturals, FiniteSets

CONSTANTS Jobs,          \* job ids, ordered as the ids are (they are random UUIDs)
          Owners,        \* worker identities
          None,          \* no lease owner (NULL)
          Serves,        \* Serves[o]: the jobs o's type and tenant filters select
          MaxAttempts,   \* max_attempts of each job; the store accepts 0
          LeaseMs,       \* how long a claim or a renewal lasts
          Delays,        \* the runAfterMs and retryAfterMs that callers pass
          PruneAfterMs   \* olderThanMs of prune()

ASSUME JobsAssumption   == Jobs \subseteq Nat
ASSUME OwnersAssumption == None \notin Owners
ASSUME ServesAssumption == Serves \in [Owners -> SUBSET Jobs]
ASSUME BudgetAssumption == MaxAttempts \in [Jobs -> Nat]
ASSUME TimesAssumption  == /\ LeaseMs \in Nat \ {0}
                           /\ PruneAfterMs \in Nat
                           /\ Delays \subseteq Nat /\ 0 \in Delays

VARIABLES jobs,          \* the jobs table: a row for every id, NoRow if absent
          issued,        \* the ids handed out so far; randomUUID repeats none
          stamp          \* the present, as a created_at value

ledgerVars == <<jobs, issued, stamp>>
-----------------------------------------------------------------------------
States   == {"absent", "queued", "running", "retrying", "completed", "failed"}
Terminal == {"completed", "failed"}

Row == [state : States, createdAt : Nat, attempt : Nat,
        leaseOwner : Owners \cup {None}, lease : Nat, delay : Nat, age : Nat]

NoRow == [state |-> "absent", createdAt |-> 0, attempt |-> 0,
          leaseOwner |-> None, lease |-> 0, delay |-> 0, age |-> 0]

Init == /\ jobs = [j \in Jobs |-> NoRow]
        /\ issued = {}
        /\ stamp = 0
-----------------------------------------------------------------------------
MutEnqueue(j, d) ==      \* an id that is in use is overwritten
    /\ issued' = issued \cup {j}
    /\ jobs' = [jobs EXCEPT ![j] = [NoRow EXCEPT !.state = "queued",
                                    !.createdAt = stamp, !.delay = d]]
    /\ UNCHANGED stamp

Enqueue(j, d) ==
    /\ j \notin issued
    /\ issued' = issued \cup {j}
    /\ jobs' = [jobs EXCEPT ![j] = [NoRow EXCEPT !.state = "queued",
                                    !.createdAt = stamp, !.delay = d]]
    /\ UNCHANGED stamp

Claimable(o) == {j \in Serves[o] : /\ jobs[j].state \in {"queued", "retrying"}
                                   /\ jobs[j].delay = 0}

\* ORDER BY created_at, job_id
Precedes(j, k) == \/ jobs[j].createdAt < jobs[k].createdAt
                  \/ jobs[j].createdAt = jobs[k].createdAt /\ j <= k

Claim(o, j) ==
    /\ j \in Claimable(o)
    /\ \A k \in Claimable(o) : Precedes(j, k)
    /\ jobs' = [jobs EXCEPT ![j].state = "running", ![j].attempt = @ + 1,
                            ![j].leaseOwner = o, ![j].lease = LeaseMs]
    /\ UNCHANGED <<issued, stamp>>

Complete(j, o) ==
    /\ jobs[j].leaseOwner = o
    /\ jobs' = [jobs EXCEPT ![j].state = "completed", ![j].age = 0,
                            ![j].leaseOwner = None, ![j].lease = 0]
    /\ UNCHANGED <<issued, stamp>>

MutReleased(j, d) ==     \* the attempt budget is compared with <=
    LET retry == jobs[j].attempt <= MaxAttempts[j]
    IN  [jobs[j] EXCEPT !.state = IF retry THEN "retrying" ELSE "failed",
                        !.leaseOwner = None, !.lease = 0, !.age = 0,
                        !.delay = IF retry THEN d ELSE 0]

\* The row a failed or reclaimed claim leaves behind.
Released(j, d) ==
    LET retry == jobs[j].attempt < MaxAttempts[j]
    IN  [jobs[j] EXCEPT !.state = IF retry THEN "retrying" ELSE "failed",
                        !.leaseOwner = None, !.lease = 0, !.age = 0,
                        !.delay = IF retry THEN d ELSE 0]

Fail(j, o, d) ==
    /\ jobs[j].leaseOwner = o
    /\ jobs' = [jobs EXCEPT ![j] = Released(j, d)]
    /\ UNCHANGED <<issued, stamp>>

Renew(j, o) ==
    /\ jobs[j].leaseOwner = o
    /\ jobs[j].lease > 0
    /\ jobs' = [jobs EXCEPT ![j].lease = LeaseMs]
    /\ UNCHANGED <<issued, stamp>>

MutExpired ==            \* the expiry test is missing
    {j \in Jobs : jobs[j].state = "running"}

Expired == {j \in Jobs : jobs[j].state = "running" /\ jobs[j].lease = 0}

\* run_after is left alone; a row that runs has none in the future.
ReclaimExpired ==
    /\ Expired # {}
    /\ jobs' = [j \in Jobs |-> IF j \in Expired THEN Released(j, jobs[j].delay)
                                                ELSE jobs[j]]
    /\ UNCHANGED <<issued, stamp>>

MutPrunable ==           \* all that is not running counts as settled and old
    {j \in Jobs : jobs[j].state \notin {"absent", "running"}}

Prunable == {j \in Jobs : /\ jobs[j].state \in Terminal
                          /\ jobs[j].age >= PruneAfterMs}

Prune ==
    /\ Prunable # {}
    /\ jobs' = [j \in Jobs |-> IF j \in Prunable THEN NoRow ELSE jobs[j]]
    /\ UNCHANGED <<issued, stamp>>

\* One millisecond (or any unit) of Date.now(), which all processes share.
Aged(r) == [r EXCEPT !.lease = IF @ > 0 THEN @ - 1 ELSE 0,
                     !.delay = IF @ > 0 THEN @ - 1 ELSE 0,
                     !.age   = IF r.state \in Terminal /\ @ < PruneAfterMs
                               THEN @ + 1 ELSE @]

Tick == /\ jobs' = [j \in Jobs |-> Aged(jobs[j])]
        /\ stamp' = IF \E j \in Jobs : /\ jobs[j].state # "absent"
                                       /\ jobs[j].createdAt = stamp
                    THEN stamp + 1 ELSE stamp
        /\ UNCHANGED issued

Next == \/ \E j \in Jobs, d \in Delays : Enqueue(j, d)
        \/ \E o \in Owners, j \in Jobs : Claim(o, j)
        \/ \E j \in Jobs, o \in Owners : Complete(j, o)
        \/ \E j \in Jobs, o \in Owners, d \in Delays : Fail(j, o, d)
        \/ \E j \in Jobs, o \in Owners : Renew(j, o)
        \/ ReclaimExpired
        \/ Prune
        \/ Tick

Spec == Init /\ [][Next]_ledgerVars
-----------------------------------------------------------------------------
(* InMemoryJobStore: the same operations over a Map.  Each method runs to  *)
(* its end before another starts, and does to a job what the SQL statement *)
(* does to a row, with one exception: renew() tests the owner only, and    *)
(* extends a lease that has already run out.  Every step of the SQLite     *)
(* store is therefore a step of this one.                                  *)

MemRenew(j, o) ==
    /\ jobs[j].leaseOwner = o
    /\ jobs' = [jobs EXCEPT ![j].lease = LeaseMs]
    /\ UNCHANGED <<issued, stamp>>

MemNext == \/ \E j \in Jobs, d \in Delays : Enqueue(j, d)
           \/ \E o \in Owners, j \in Jobs : Claim(o, j)
           \/ \E j \in Jobs, o \in Owners : Complete(j, o)
           \/ \E j \in Jobs, o \in Owners, d \in Delays : Fail(j, o, d)
           \/ \E j \in Jobs, o \in Owners : MemRenew(j, o)
           \/ ReclaimExpired
           \/ Prune
           \/ Tick

MemSpec == Init /\ [][MemNext]_ledgerVars
-----------------------------------------------------------------------------
TypeOK == /\ jobs \in [Jobs -> Row]
          /\ issued \subseteq Jobs
          /\ stamp \in Nat

\* A row is leased exactly while it runs.  complete() and fail() test only
\* lease_owner, reclaimExpired() only state and expiry: they agree on which
\* jobs are outstanding because of this, and nothing in the schema enforces it.
LeaseMatchesState ==
    \A j \in Jobs : /\ (jobs[j].state = "running") <=> (jobs[j].leaseOwner # None)
                    /\ jobs[j].lease > 0 => jobs[j].state = "running"

\* The attempt count and the state agree: a job is retried only with attempts
\* left, fails only without, and is never handed out beyond its budget (a
\* budget of 0 still buys the first attempt, since claim() does not look).
AttemptsWithinBudget ==
    \A j \in Jobs :
       LET r == jobs[j] IN
       /\ r.state \in {"absent", "queued"} => r.attempt = 0
       /\ r.state = "retrying" => 0 < r.attempt /\ r.attempt < MaxAttempts[j]
       /\ r.state \in {"running", "completed", "failed"} =>
             r.attempt > 0 /\ (r.attempt > 1 => r.attempt <= MaxAttempts[j])
       /\ r.state = "failed" => r.attempt >= MaxAttempts[j]

\* A row that has gone is never brought back, and every row was enqueued.
RowsWereIssued ==
    \A j \in Jobs : jobs[j].state # "absent" => j \in issued

\* A row that runs was claimable when it was taken, and its delay stays past.
NoDelayOnceTaken ==
    \A j \in Jobs : jobs[j].state \notin {"queued", "retrying"} => jobs[j].delay = 0

\* The inductive invariant: the five parts hold together or not at all.
LedgerInv == /\ TypeOK
             /\ LeaseMatchesState
             /\ AttemptsWithinBudget
             /\ RowsWereIssued
             /\ NoDelayOnceTaken

\* A settled job is settled for good: the only thing that can happen to a row
\* in a terminal state is that prune() deletes it once it is old enough.
SettledIsFinal ==
    [][\A j \in Jobs : jobs[j].state \in Terminal =>
          \/ jobs'[j].state = jobs[j].state /\ jobs'[j].attempt = jobs[j].attempt
          \/ jobs'[j] = NoRow /\ jobs[j].age >= PruneAfterMs]_ledgerVars

\* An expired lease is never revived: once a running row's lease has run out,
\* the next lease on that job is a new attempt, which only claim() begins after
\* the row went back through retrying.
LostLeaseStaysLost ==
    [][\A j \in Jobs :
          jobs[j].state = "running" /\ jobs[j].lease = 0 =>
             jobs'[j].lease = 0 /\ jobs'[j].attempt = jobs[j].attempt]_ledgerVars

\* The lifecycle contract, under the mapping that forgets times and leases.
StatusOf(j) == IF jobs[j].state \in {"queued", "retrying"} THEN "waiting"
               ELSE IF jobs[j].state = "running"   THEN "held"
               ELSE IF jobs[j].state = "completed" THEN "done"
               ELSE IF jobs[j].state = "failed"    THEN "dead"
               ELSE IF j \in issued THEN "gone" ELSE "unknown"

Abstract == INSTANCE JobLifecycle WITH
    status <- [j \in Jobs |-> StatusOf(j)],
    holder <- [j \in Jobs |-> jobs[j].leaseOwner],
    tries  <- [j \in Jobs |-> jobs[j].attempt]

\* The ledger implements the contract every caller relies on.
ImplementsLifecycle == Abstract!Spec
-----------------------------------------------------------------------------
(* What the configurations take for Serves and MaxAttempts: workers that    *)
(* serve every job, or overlap on all but the first; and budgets.           *)
ServesAll      == [o \in Owners |-> Jobs]
ServesMost     == [o \in Owners |-> IF o = CHOOSE w \in Owners : TRUE THEN Jobs ELSE Jobs \ {1}]
TwoAttempts    == [j \in Jobs |-> 2]
TwoThenOne     == [j \in Jobs |-> IF j = 1 THEN 2 ELSE 1]
FromTwoOrNone  == [j \in Jobs |-> IF j = 1 THEN 2 ELSE j - 2]
=============================================================================
