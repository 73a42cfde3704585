----------------------------- MODULE Scheduler ------------------------------
(***************************************************************************)
(* startDurableScheduler (src/index.ts): scheduler processes that put one  *)
(* maintenance job on the shared ledger per interval.  A tick reads the    *)
(* ledger's counts in one statement and inserts in another; the other      *)
(* processes run in between.  Of the interval number only its difference   *)
(* from the one last served matters.                                       *)
(***************************************************************************)
EXTENDS JobLedger

CONSTANTS Schedulers,
          Reclaims,      \* TRUE: the host calls reclaimExpired(); src/ nowhere does
          Window,        \* the most jobs a worker wants in flight
          Perishable     \* the workers that may die with a job in hand

ASSUME SchedulerAssumption == /\ IsFiniteSet(Schedulers)
                              /\ Reclaims \in BOOLEAN /\ Window \in Nat \ {0}
                              /\ Perishable \subseteq Owners

VARIABLES fresh,         \* the present interval differs from lastEnqueuedFor
          deciding,      \* the tick has seen an idle ledger and will enqueue
          late,          \* the interval ended while the tick was deciding
          made           \* history: the jobs made for the present interval

schedVars == <<fresh, deciding, late, made>>
schedulerVars == <<jobs, issued, stamp, fresh, deciding, late, made>>

SchedInit == /\ Init
             /\ fresh = [s \in Schedulers |-> TRUE]
             /\ deciding = [s \in Schedulers |-> FALSE]
             /\ late = [s \in Schedulers |-> FALSE]
             /\ made = 0

MutOpen ==               \* a job that has failed for good counts as outstanding
    {j \in Jobs : jobs[j].state \in {"queued", "running", "retrying", "failed"}}

\* stats(): queued + running + retrying
Open == {j \in Jobs : jobs[j].state \in {"queued", "running", "retrying"}}

MutReadStats(s) ==       \* the count leaves out the jobs that are running
    /\ fresh[s] /\ ~deciding[s]
    /\ fresh' = [fresh EXCEPT ![s] = FALSE]
    /\ deciding' = [deciding EXCEPT ![s] = {j \in Open : jobs[j].state # "running"} = {}]
    /\ late' = [late EXCEPT ![s] = FALSE]
    /\ UNCHANGED <<ledgerVars, made>>

\* The first half of tick(): nothing to do in an interval already served; an
\* interval in which work is outstanding counts as served.
ReadStats(s) ==
    /\ fresh[s] /\ ~deciding[s]
    /\ fresh' = [fresh EXCEPT ![s] = FALSE]
    /\ deciding' = [deciding EXCEPT ![s] = (Open = {})]
    /\ late' = [late EXCEPT ![s] = FALSE]
    /\ UNCHANGED <<ledgerVars, made>>

\* The second half.
Insert(s, j) ==
    /\ deciding[s]
    /\ Enqueue(j, 0)
    /\ deciding' = [deciding EXCEPT ![s] = FALSE]
    /\ made' = IF late[s] THEN made ELSE made + 1
    /\ UNCHANGED <<fresh, late>>

\* The insert throws: logged, and tried again at the next tick.
InsertFails(s) ==
    /\ deciding[s]
    /\ deciding' = [deciding EXCEPT ![s] = FALSE]
    /\ fresh' = [fresh EXCEPT ![s] = TRUE]
    /\ UNCHANGED <<ledgerVars, late, made>>

NextInterval ==
    /\ fresh' = [s \in Schedulers |-> TRUE]
    /\ late' = deciding
    /\ made' = 0
    /\ UNCHANGED <<ledgerVars, deciding>>

\* The workers' side of the ledger, and time.  A worker whose window is full
\* claims nothing, and ends nothing (see DurableWorker).
HasRoom(w) == Cardinality({j \in Jobs : jobs[j].leaseOwner = w}) < Window
Take(w) == HasRoom(w) /\ (\E j \in Jobs : Claim(w, j)) /\ UNCHANGED schedVars
End(w)  == HasRoom(w) /\ (\E j \in Jobs : Complete(j, w) \/ Fail(j, w, 0)) /\ UNCHANGED schedVars
ReclaimDue == Reclaims /\ ReclaimExpired /\ UNCHANGED schedVars
Elapse == Tick /\ UNCHANGED schedVars

SchedStep(s) == ReadStats(s) \/ (\E j \in Jobs : Insert(s, j))

SchedNext == \/ \E s \in Schedulers : SchedStep(s) \/ InsertFails(s)
             \/ NextInterval
             \/ \E w \in Owners : Take(w) \/ End(w)
             \/ ReclaimDue
             \/ Elapse

SchedSpec == SchedInit /\ [][SchedNext]_schedulerVars

\* Intervals go by, ticks come, live workers take and end jobs.  An insert may
\* fail now and then, but not for ever.  Nobody need reclaim a lease.
SchedFairSpec ==
    /\ SchedSpec
    /\ \A s \in Schedulers : /\ WF_schedulerVars(ReadStats(s))
                             /\ SF_schedulerVars(\E j \in Jobs : Insert(s, j))
    /\ \A w \in Owners \ Perishable : WF_schedulerVars(Take(w)) /\ WF_schedulerVars(End(w))
    /\ WF_schedulerVars(NextInterval) /\ WF_schedulerVars(Elapse)
-----------------------------------------------------------------------------
\* An interval is served at most once by each scheduler, whatever inserts fail
\* and however late they are.  (It is not served once over all schedulers: both
\* may find the ledger idle before either has inserted.)
OneJobEachPerInterval == made <= Cardinality(Schedulers)

\* However the schedulers race, the maintenance backlog stays bounded: no more
\* jobs are outstanding than there are schedulers.
BacklogIsBounded == Cardinality(Open) <= Cardinality(Schedulers)

\* What a deployment may count on however many schedulers it has: neither the
\* jobs made in an interval nor those outstanding exceed their number.
SchedulingIsBounded == OneJobEachPerInterval /\ BacklogIsBounded

\* Maintenance goes on: whatever becomes of one job, the end of its attempts
\* included, a later tick enqueues the next one, unless a job stays behind whose
\* lease has run out, its worker being dead or full: it is outstanding for ever
\* if nobody reclaims it.
MaintenanceGoesOn == []<>(Expired = {}) => <>(issued = Jobs)
=============================================================================
