------------------------ MODULE DurableWorkerProofs -------------------------
(***************************************************************************)
(* Theorems about the durable workers, for every set of jobs and workers,  *)
(* every concurrency, lease length and renewal period.  What the ledger    *)
(* promises (JobLedgerProofs) is used, not proved again: every step of a   *)
(* worker is one statement of the ledger or none.  The same for the        *)
(* schedulers, at the end.                                                 *)
(***************************************************************************)
EXTENDS DurableWorker, Scheduler, JobLedgerProofs, FiniteSetTheorems, TLAPS

\* What a run whose interval is installed, and was never late, may rely on:
\* the row is its own, and the lease outlives the next renewal.
Holds(r) == /\ ~r.lost
            /\ jobs[r.job].leaseOwner = r.worker
            /\ jobs[r.job].attempt = r.attempt
            /\ jobs[r.job].lease + RenewMs = r.due + LeaseMs

\* A run is of an attempt the ledger has counted; only stop() clears the
\* interval of a handler that goes on.
RunsAreKnown ==
    \A r \in runs : /\ r.attempt <= jobs[r.job].attempt
                    /\ ~r.timer => mode[r.worker] \in {"releasing", "stopped"}

\* An entry of a Map is of an attempt the ledger has counted, and the handler
\* of that attempt, if there is one, runs in the same process.
EntriesAreKnown ==
    \A w \in Owners : \A e \in inFlight[w] \cup releasing[w] :
       /\ e[2] <= jobs[e[1]].attempt
       /\ \A r \in runs : r.job = e[1] /\ r.attempt = e[2] => r.worker = w

\* The Map has one entry per job id, and so has the list stop() made of it.
OneEntryPerJob ==
    \A w \in Owners : /\ \A e, f \in inFlight[w] : e[1] = f[1] => e = f
                      /\ \A e, f \in releasing[w] : e[1] = f[1] => e = f

\* As long as stop() has cut no handler off every interval is installed.
CutsAreSeen == ~cut => \A r \in runs : r.timer

\* As long as renewals are on time, a run with an interval holds its lease, and
\* one that stop() left running without an interval has none.
LeasesAreHeld ==
    smooth => \A r \in runs : /\ r.timer => Holds(r)
                              /\ ~r.timer => jobs[r.job].leaseOwner # r.worker

\* LeasesAreAccountedFor, and what it needs while stop() releases entries.
LeasesAreListed ==
    smooth => \A j \in Jobs, w \in Owners :
       jobs[j].leaseOwner = w =>
          /\ mode[w] # "stopped"
          /\ mode[w] \in {"up", "draining"} => <<j, jobs[j].attempt>> \in inFlight[w]
          /\ mode[w] = "releasing" => <<j, jobs[j].attempt>> \in releasing[w]

\* CompletedMeansCommittedOnce, without counting.
CommittedOnce ==
    /\ \A c, d \in commits : c[1] = d[1] => c = d
    /\ \A j \in Jobs : jobs[j].state = "completed" <=> \E c \in commits : c[1] = j

\* The part of the invariant that holds whatever the lengths of lease and period.
BaseInv == LedgerInv /\ WorkerTypeOK /\ CommittedOnce

\* The inductive invariant.
WorkerInv == /\ BaseInv
             /\ RunsAreKnown /\ EntriesAreKnown /\ OneEntryPerJob /\ CutsAreSeen
             /\ LeasesAreHeld /\ LeasesAreListed /\ CommitIsCurrent
-----------------------------------------------------------------------------
\* Map.delete removes the entries of one job id and no others.
LEMMA WithoutEffect ==
  ASSUME NEW w, NEW j
  PROVE  /\ Without(w, j) \subseteq inFlight[w]
         /\ \A e \in inFlight[w] : e \in Without(w, j) <=> e[1] # j
  BY DEF Without
-----------------------------------------------------------------------------

\* fail() as the workers call it leaves every attempt count alone and completes
\* nothing; unless it threw, the caller does not own the row afterwards.
LEMMA TryFailEffect ==
  ASSUME LedgerInv, NEW j \in Jobs, NEW w \in Owners, TryFail(j, w)
  PROVE  /\ \A k \in Jobs : /\ jobs'[k].attempt = jobs[k].attempt
                            /\ jobs'[k].state = "completed" <=> jobs[k].state = "completed"
         /\ \A k \in Jobs \ {j} : jobs'[k] = jobs[k]
         /\ \/ jobs'[j] = jobs[j]
            \/ jobs[j].leaseOwner = w /\ jobs'[j].leaseOwner = None
         /\ smooth' => smooth /\ jobs'[j].leaseOwner # w
<1>1. CASE Fail(j, w, 0) /\ UNCHANGED smooth
  <2>1. 0 \in Delays
    BY TimesAssumption
  <2> QED BY <1>1, <2>1, FailEffect, OwnersAssumption
<1>2. CASE jobs[j].leaseOwner # w /\ UNCHANGED <<ledgerVars, smooth>>
  BY <1>2 DEF ledgerVars
<1>3. CASE StoreErrors /\ smooth' = FALSE /\ UNCHANGED ledgerVars
  BY <1>3 DEF ledgerVars
<1> QED BY <1>1, <1>2, <1>3 DEF TryFail

\* A handler ends: at most its own row changes, and only by being given up; it
\* commits only what it completes, and completes only a row it owns.
LEMMA HandlerEffect ==
  ASSUME LedgerInv, WorkerTypeOK, NEW r \in runs,
         HandlerReturns(r) \/ HandlerThrows(r)
  PROVE  /\ Settles(r)
         /\ \A k \in Jobs : jobs'[k].attempt = jobs[k].attempt
         /\ \A k \in Jobs \ {r.job} : jobs'[k] = jobs[k]
         /\ \/ jobs'[r.job] = jobs[r.job]
            \/ jobs[r.job].leaseOwner = r.worker /\ jobs'[r.job].leaseOwner = None
         /\ smooth' => smooth /\ (jobs'[r.job].leaseOwner # r.worker \/ r.lost)
         /\ \/ /\ commits' = commits
               /\ \A k \in Jobs : jobs'[k].state = "completed"
                                      <=> jobs[k].state = "completed"
            \/ /\ commits' = commits \cup {<<r.job, r.attempt>>}
               /\ ~r.lost /\ jobs[r.job].leaseOwner = r.worker
               /\ jobs[r.job].state = "running"
               /\ jobs'[r.job].state = "completed"
<1>1. r.job \in Jobs /\ r.worker \in Owners
  BY DEF WorkerTypeOK, Run
<1>2. Settles(r)
  BY DEF HandlerReturns, HandlerThrows
<1>3. CASE r.lost /\ UNCHANGED <<ledgerVars, commits, smooth>>
  BY <1>2, <1>3 DEF ledgerVars
<1>4. CASE /\ ~r.lost /\ Complete(r.job, r.worker)
           /\ commits' = commits \cup {<<r.job, r.attempt>>} /\ UNCHANGED smooth
  <2>1. /\ jobs[r.job].leaseOwner = r.worker /\ jobs[r.job].state = "running"
        /\ jobs'[r.job].state = "completed" /\ jobs'[r.job].leaseOwner = None
        /\ jobs'[r.job].attempt = jobs[r.job].attempt
        /\ \A k \in Jobs \ {r.job} : jobs'[k] = jobs[k]
    BY <1>1, <1>4, CompleteEffect
  <2> QED BY <1>1, <1>2, <1>4, <2>1, OwnersAssumption
<1>5. CASE ~Owns(r) /\ UNCHANGED <<ledgerVars, commits, smooth>>
  BY <1>2, <1>5 DEF ledgerVars, Owns
<1>6. CASE TryFail(r.job, r.worker) /\ UNCHANGED commits
  <2>1. /\ \A k \in Jobs : /\ jobs'[k].attempt = jobs[k].attempt
                           /\ jobs'[k].state = "completed" <=> jobs[k].state = "completed"
        /\ \A k \in Jobs \ {r.job} : jobs'[k] = jobs[k]
        /\ \/ jobs'[r.job] = jobs[r.job]
           \/ jobs[r.job].leaseOwner = r.worker /\ jobs'[r.job].leaseOwner = None
        /\ smooth' => smooth /\ jobs'[r.job].leaseOwner # r.worker
    BY <1>1, <1>6, TryFailEffect
  <2> QED BY <1>2, <1>6, <2>1
<1> QED BY <1>3, <1>4, <1>5, <1>6 DEF HandlerReturns, HandlerThrows

\* Every step of a worker is one statement of the ledger, or none.
LEMMA WorkerStepIsLedgerStep ==
  ASSUME WorkerTypeOK, [WorkerNext]_vars
  PROVE  [Next]_ledgerVars
<1>1. \A r \in runs : r.job \in Jobs /\ r.worker \in Owners
  BY DEF WorkerTypeOK, Run
<1>2. \A w \in Owners : \A e \in releasing[w] : e[1] \in Jobs
  BY DEF WorkerTypeOK
<1>3. 0 \in Delays
  BY TimesAssumption
<1>4. ASSUME NEW j \in Jobs, NEW w \in Owners, TryFail(j, w)
      PROVE  [Next]_ledgerVars
  BY <1>3, <1>4 DEF TryFail, Next, ledgerVars
<1>5. ASSUME NEW j \in Jobs, Submit(j)
      PROVE  [Next]_ledgerVars
  BY <1>3, <1>5 DEF Submit, Next
<1>6. ASSUME NEW w \in Owners, PumpStep(w) \/ Stop(w) \/ StopDrained(w) \/ Crash(w)
      PROVE  [Next]_ledgerVars
  BY <1>6 DEF PumpStep, PollTimer, PumpIdle, PumpClaim, Stop, StopDrained, Crash,
     Next, ledgerVars
<1>7. ASSUME NEW r \in runs, HandlerReturns(r) \/ HandlerThrows(r)
      PROVE  [Next]_ledgerVars
  BY <1>1, <1>4, <1>7 DEF HandlerReturns, HandlerThrows, Next, ledgerVars
<1>8. ASSUME NEW w \in Owners, NEW e \in releasing[w], StopRelease(w, e)
      PROVE  [Next]_ledgerVars
  BY <1>2, <1>4, <1>8 DEF StopRelease
<1>9. ASSUME NEW r \in runs, RenewTick(r)
      PROVE  [Next]_ledgerVars
  BY <1>1, <1>9 DEF RenewTick, Next, ledgerVars
<1>10. ASSUME Sweep \/ Time
       PROVE  [Next]_ledgerVars
  BY <1>10 DEF Sweep, Time, Next
<1>11. ASSUME UNCHANGED vars
       PROVE  [Next]_ledgerVars
  BY <1>11 DEF vars, ledgerVars
<1> QED
  BY <1>5, <1>6, <1>7, <1>8, <1>9, <1>10, <1>11 DEF WorkerNext, HandlerStep, StopStep
-----------------------------------------------------------------------------
\* Every step of a worker keeps the types.
LEMMA WorkerTypeStep ==
  ASSUME LedgerInv, LedgerInv', WorkerTypeOK, [WorkerNext]_vars
  PROVE  WorkerTypeOK'
<1> USE DEF WorkerTypeOK
<1>t. TypeOK'
  BY DEF LedgerInv
<1>r. /\ RenewMs \in Nat /\ 0 \in 0..RenewMs /\ RenewMs \in 0..RenewMs
      /\ \A r \in runs : r \in Run /\ r.job \in Jobs /\ r.worker \in Owners
  BY WorkerAssumption DEF Run
<1>w. \A w \in Owners, j \in Jobs : Without(w, j) \subseteq Jobs \X Nat
  BY WithoutEffect
<1>1. ASSUME NEW j \in Jobs, Submit(j)
      PROVE  WorkerTypeOK'
  BY <1>t, <1>1 DEF Submit, workerVars
<1>2. ASSUME NEW w \in Owners, NEW j \in Jobs, PumpClaim(w, j)
      PROVE  WorkerTypeOK'
  <2> DEFINE a == jobs[j].attempt + 1
             new == [job |-> j, attempt |-> a, worker |-> w,
                     lost |-> FALSE, timer |-> TRUE, due |-> RenewMs]
  <2>1. a \in Nat
    BY DEF TypeOK, Row
  <2>2. new \in Run
    BY <1>r, <2>1 DEF Run
  <2>3. /\ inFlight' = [inFlight EXCEPT ![w] = Without(w, j) \cup {<<j, a>>}]
        /\ runs' = runs \cup {new}
        /\ pump' = [pump EXCEPT ![w] = IF Cardinality(inFlight'[w]) >= Concurrency
                                       THEN "spin" ELSE "loop"]
        /\ UNCHANGED <<mode, releasing, commits, smooth, cut>>
    BY <1>2 DEF PumpClaim, history
  <2> HIDE DEF a, new
  <2>4. Without(w, j) \cup {<<j, a>>} \subseteq Jobs \X Nat
    BY <1>w, <2>1
  <2>5. inFlight' \in [Owners -> SUBSET (Jobs \X Nat)]
    BY <2>3, <2>4
  <2>6. pump' \in [Owners -> PumpStates]
    BY <2>3 DEF PumpStates
  <2> QED BY <1>t, <2>2, <2>3, <2>5, <2>6
<1>3. ASSUME NEW w \in Owners, PumpIdle(w) \/ PollTimer(w) \/ Stop(w)
      PROVE  WorkerTypeOK'
  BY <1>t, <1>3 DEF PumpIdle, PollTimer, Stop, PumpStates, Modes, history
<1>4. ASSUME NEW r \in runs, HandlerReturns(r) \/ HandlerThrows(r)
      PROVE  WorkerTypeOK'
  <2>1. Settles(r)
    BY <1>4, HandlerEffect
  <2>2. commits' \in SUBSET (Jobs \X Nat)
    <3>1. commits' = commits \/ commits' = commits \cup {<<r.job, r.attempt>>}
      BY <1>4, HandlerEffect
    <3> QED BY <3>1 DEF Run
  <2>3. smooth' \in BOOLEAN
    BY <1>4 DEF HandlerReturns, HandlerThrows, TryFail
  <2>4. Without(r.worker, r.job) \subseteq Jobs \X Nat
    BY <1>r, <1>w
  <2> QED BY <1>t, <2>1, <2>2, <2>3, <2>4 DEF Settles
<1>5. ASSUME NEW w \in Owners, StopDrained(w)
      PROVE  WorkerTypeOK'
  BY <1>t, <1>5 DEF StopDrained, Modes, history
<1>6. ASSUME NEW w \in Owners, NEW e \in releasing[w], StopRelease(w, e)
      PROVE  WorkerTypeOK'
  <2>1. Without(w, e[1]) \subseteq Jobs \X Nat
    BY <1>w
  <2>2. runs' \subseteq Run
    <3>1. \A r \in runs : [r EXCEPT !.timer = FALSE] \in Run
      BY DEF Run
    <3> QED BY <1>6, <3>1 DEF StopRelease, Quiet
  <2>3. smooth' \in BOOLEAN /\ cut' \in BOOLEAN
    BY <1>6 DEF StopRelease, TryFail
  <2>4. /\ releasing' = [releasing EXCEPT ![w] = releasing[w] \ {e}]
        /\ mode' = [mode EXCEPT ![w] = IF releasing'[w] = {} THEN "stopped" ELSE "releasing"]
        /\ inFlight' = [inFlight EXCEPT ![w] = Without(w, e[1])]
        /\ UNCHANGED <<pump, commits>>
    BY <1>6 DEF StopRelease
  <2>5. mode' \in [Owners -> Modes]
    BY <2>4 DEF Modes
  <2> QED BY <1>t, <2>1, <2>2, <2>3, <2>4, <2>5
<1>7. ASSUME NEW w \in Owners, Crash(w)
      PROVE  WorkerTypeOK'
  BY <1>t, <1>7 DEF Crash, Modes, history
<1>8. ASSUME NEW r \in runs, RenewTick(r)
      PROVE  WorkerTypeOK'
  <2> DEFINE again == [r EXCEPT !.due = RenewMs]
  <2>1. again \in Run /\ [again EXCEPT !.lost = TRUE] \in Run
    BY <1>r DEF Run
  <2>2. \/ Replace(r, again) /\ UNCHANGED smooth
        \/ /\ Replace(r, [again EXCEPT !.lost = TRUE])
           /\ smooth' \in BOOLEAN
    BY <1>8 DEF RenewTick
  <2>3. UNCHANGED <<mode, pump, inFlight, releasing, commits, cut>>
    BY <1>8 DEF RenewTick
  <2> HIDE DEF again
  <2>4. runs' \subseteq Run
    BY <2>1, <2>2 DEF Replace
  <2> QED BY <1>t, <2>2, <2>3, <2>4
<1>9. ASSUME Sweep
      PROVE  WorkerTypeOK'
  BY <1>t, <1>9 DEF Sweep, workerVars
<1>10. ASSUME Time
       PROVE  WorkerTypeOK'
  <2>1. \A r \in runs : [r EXCEPT !.due = IF r.due > 0 THEN r.due - 1 ELSE 0] \in Run
    BY <1>r DEF Run
  <2>2. runs' \subseteq Run
    BY <1>10, <2>1 DEF Time
  <2> QED BY <1>t, <1>10, <2>2 DEF Time
<1>11. ASSUME UNCHANGED vars
       PROVE  WorkerTypeOK'
  BY <1>t, <1>11 DEF vars
<1> QED
  BY <1>1, <1>2, <1>3, <1>4, <1>5, <1>6, <1>7, <1>8, <1>9, <1>10, <1>11
     DEF WorkerNext, PumpStep, HandlerStep, StopStep

\* A step that neither commits nor completes keeps CommittedOnce.
LEMMA NoCommit ==
  ASSUME CommittedOnce, UNCHANGED commits,
         \A j \in Jobs : jobs'[j].state = "completed" <=> jobs[j].state = "completed"
  PROVE  CommittedOnce'
  BY DEF CommittedOnce

\* Every step keeps the commits one to a job: complete() succeeds only on a row
\* that runs, and a row that ran to completion is never claimed again.
LEMMA CommittedOnceStep ==
  ASSUME LedgerInv, WorkerTypeOK, CommittedOnce, [WorkerNext]_vars
  PROVE  CommittedOnce'
<1> DEFINE Same == \A j \in Jobs : jobs'[j].state = "completed"
                                       <=> jobs[j].state = "completed"
<1>1. ASSUME NEW j \in Jobs, Submit(j)
      PROVE  Same /\ UNCHANGED commits
  <2>1. jobs[j].state = "absent"
    BY <1>1 DEF Submit, Enqueue, LedgerInv, RowsWereIssued
  <2>2. /\ jobs'[j].state = "queued"
        /\ \A k \in Jobs \ {j} : jobs'[k] = jobs[k]
    BY <1>1 DEF Submit, Enqueue, LedgerInv, TypeOK, NoRow
  <2> QED BY <1>1, <2>1, <2>2 DEF Submit, workerVars
<1>2. ASSUME NEW w \in Owners, NEW j \in Jobs, PumpClaim(w, j)
      PROVE  Same /\ UNCHANGED commits
  <2>1. Claim(w, j) /\ UNCHANGED commits
    BY <1>2 DEF PumpClaim, history
  <2> QED BY <2>1, ClaimEffect
<1>3. ASSUME NEW w \in Owners,
             PumpIdle(w) \/ PollTimer(w) \/ Stop(w) \/ StopDrained(w) \/ Crash(w)
      PROVE  Same /\ UNCHANGED commits
  BY <1>3 DEF PumpIdle, PollTimer, Stop, StopDrained, Crash, ledgerVars, history
<1>4. ASSUME NEW r \in runs, HandlerReturns(r) \/ HandlerThrows(r)
      PROVE  CommittedOnce'
  <2>1. CASE commits' = commits /\ Same
    BY <2>1, NoCommit
  <2>2. CASE /\ commits' = commits \cup {<<r.job, r.attempt>>}
             /\ jobs[r.job].state = "running" /\ jobs'[r.job].state = "completed"
             /\ \A k \in Jobs \ {r.job} : jobs'[k] = jobs[k]
    <3>1. r.job \in Jobs
      BY DEF WorkerTypeOK, Run
    <3>2. \A c \in commits : c[1] # r.job
      BY <2>2, <3>1 DEF CommittedOnce
    <3>3. \A c, d \in commits' : c[1] = d[1] => c = d
      BY <2>2, <3>2 DEF CommittedOnce
    <3>4. \A j \in Jobs : jobs'[j].state = "completed" <=> \E c \in commits' : c[1] = j
      <4>1. \A j \in Jobs \ {r.job} : \A c : c[1] = j => (c \in commits' <=> c \in commits)
        BY <2>2
      <4>2. <<r.job, r.attempt>> \in commits' /\ <<r.job, r.attempt>>[1] = r.job
        BY <2>2
      <4>3. \E c \in commits' : c[1] = r.job
        BY <4>2
      <4> QED BY <2>2, <3>1, <4>1, <4>3 DEF CommittedOnce
    <3> QED BY <3>3, <3>4 DEF CommittedOnce
  <2> QED BY <1>4, <2>1, <2>2, HandlerEffect
<1>5. ASSUME NEW w \in Owners, NEW e \in releasing[w], StopRelease(w, e)
      PROVE  Same /\ UNCHANGED commits
  <2>1. e[1] \in Jobs /\ TryFail(e[1], w) /\ UNCHANGED commits
    BY <1>5 DEF StopRelease, WorkerTypeOK
  <2> QED BY <2>1, TryFailEffect
<1>6. ASSUME NEW r \in runs, RenewTick(r)
      PROVE  Same /\ UNCHANGED commits
  <2>1. UNCHANGED commits /\ (Renew(r.job, r.worker) \/ UNCHANGED ledgerVars)
    BY <1>6 DEF RenewTick
  <2> QED BY <2>1 DEF Renew, ledgerVars, LedgerInv, TypeOK, Row
<1>7. ASSUME Sweep
      PROVE  Same /\ UNCHANGED commits
  BY <1>7, ReclaimEffect DEF Sweep, workerVars
<1>8. ASSUME Time
      PROVE  Same /\ UNCHANGED commits
  BY <1>8, TickEffect DEF Time
<1>9. ASSUME UNCHANGED vars
      PROVE  Same /\ UNCHANGED commits
  BY <1>9 DEF vars
<1> HIDE DEF Same
<1>10. Same /\ UNCHANGED commits => CommittedOnce'
  BY NoCommit DEF Same
<1> QED
  BY <1>1, <1>2, <1>3, <1>4, <1>5, <1>6, <1>7, <1>8, <1>9, <1>10
     DEF WorkerNext, PumpStep, HandlerStep, StopStep

\* The base of the invariant is inductive by itself.
LEMMA BaseStep == BaseInv /\ [WorkerNext]_vars => BaseInv'
<1> SUFFICES ASSUME BaseInv, [WorkerNext]_vars
             PROVE  BaseInv'
  OBVIOUS
<1> USE DEF BaseInv
<1>1. LedgerInv'
  BY WorkerStepIsLedgerStep, StepInv
<1>2. WorkerTypeOK'
  BY <1>1, WorkerTypeStep
<1>3. CommittedOnce'
  BY CommittedOnceStep
<1> QED BY <1>1, <1>2, <1>3

\* No worker has anything in hand at first.
LEMMA WorkerInitInv == WorkerInit => WorkerInv
<1> SUFFICES ASSUME WorkerInit
             PROVE  WorkerInv
  OBVIOUS
<1>1. LedgerInv
  BY InitInv DEF WorkerInit
<1>2. WorkerTypeOK
  BY <1>1 DEF WorkerInit, LedgerInv, WorkerTypeOK, Modes, PumpStates
<1>3. CommittedOnce /\ CommitIsCurrent
  BY DEF WorkerInit, Init, NoRow, CommittedOnce, CommitIsCurrent
<1>4. RunsAreKnown /\ EntriesAreKnown /\ OneEntryPerJob /\ CutsAreSeen /\ LeasesAreHeld
  BY DEF WorkerInit, RunsAreKnown, EntriesAreKnown, OneEntryPerJob, CutsAreSeen,
     LeasesAreHeld
<1>5. LeasesAreListed
  BY OwnersAssumption DEF WorkerInit, Init, NoRow, LeasesAreListed
<1> QED BY <1>1, <1>2, <1>3, <1>4, <1>5 DEF WorkerInv, BaseInv

\* A run that holds its lease has time left on it.
LEMMA HeldLease ==
  ASSUME WorkerTypeOK, RenewMs < LeaseMs, NEW r \in runs, Holds(r)
  PROVE  /\ jobs[r.job].lease > 0 /\ jobs[r.job].lease \in Nat /\ r.due \in Nat
         /\ jobs[r.job].leaseOwner # None
  BY WorkerAssumption, TimesAssumption, OwnersAssumption
     DEF WorkerTypeOK, TypeOK, Row, Run, Holds

\* Two runs of a job that both hold its lease are the same run.
LEMMA HoldersAgree ==
  ASSUME WorkerTypeOK, NEW r \in runs, NEW s \in runs, Holds(r), Holds(s),
         r.timer, s.timer, r.job = s.job
  PROVE  r = s
<1>a. /\ r \in Run /\ s \in Run
      /\ r.lost \in BOOLEAN /\ s.lost \in BOOLEAN
      /\ r.timer \in BOOLEAN /\ s.timer \in BOOLEAN
  BY DEF WorkerTypeOK, Run
<1>b. r.lost = FALSE /\ s.lost = FALSE /\ r.timer = TRUE /\ s.timer = TRUE
  BY <1>a DEF Holds
<1>1. r.worker = s.worker /\ r.attempt = s.attempt
  BY DEF Holds
<1>2. r.due = s.due
  <2>1. r.due \in Nat /\ s.due \in Nat /\ LeaseMs \in Nat
    BY <1>a, WorkerAssumption, TimesAssumption DEF Run
  <2>2. r.due + LeaseMs = s.due + LeaseMs
    BY DEF Holds
  <2>3. \A a, b, c \in Nat : a + c = b + c => a = b
    OBVIOUS
  <2> QED BY <2>1, <2>2, <2>3
<1> QED BY <1>a, <1>b, <1>1, <1>2 DEF Run

\* A statement of somebody who is no worker, a sweep included, breaks nothing:
\* it ends a lease only if that has run out, and no lease that is held has.
LEMMA LedgerOnlyStep ==
  ASSUME WorkerInv, BaseInv', RenewMs < LeaseMs, UNCHANGED workerVars,
         \A k \in Jobs :
            /\ jobs'[k].attempt = jobs[k].attempt
            /\ \/ /\ jobs'[k].leaseOwner = jobs[k].leaseOwner
                  /\ jobs'[k].lease = jobs[k].lease
               \/ /\ jobs'[k].leaseOwner = None
                  /\ jobs[k].leaseOwner = None \/ jobs[k].lease = 0
  PROVE  WorkerInv'
<1> USE DEF WorkerInv, BaseInv
<1>u. UNCHANGED <<mode, pump, inFlight, releasing, runs, commits, smooth, cut>>
  BY DEF workerVars
<1>t. /\ \A r \in runs : r.job \in Jobs /\ r.worker \in Owners
      /\ \A w \in Owners : \A e \in inFlight[w] \cup releasing[w] : e[1] \in Jobs
      /\ \A c \in commits : c[1] \in Jobs
  BY DEF WorkerTypeOK, Run
<1>1. RunsAreKnown' /\ EntriesAreKnown'
  BY <1>u, <1>t DEF RunsAreKnown, EntriesAreKnown
<1>2. OneEntryPerJob' /\ CutsAreSeen'
  BY <1>u DEF OneEntryPerJob, CutsAreSeen
<1>3. CommitIsCurrent'
  BY <1>u, <1>t DEF CommitIsCurrent
<1>4. LeasesAreHeld'
  <2> SUFFICES ASSUME smooth, NEW r \in runs
               PROVE  /\ r.timer => Holds(r)'
                      /\ ~r.timer => jobs'[r.job].leaseOwner # r.worker
    BY <1>u DEF LeasesAreHeld
  <2>1. CASE r.timer
    <3>1. Holds(r)
      BY <2>1 DEF LeasesAreHeld
    <3>2. jobs[r.job].lease > 0 /\ jobs[r.job].leaseOwner # None
      BY <3>1, HeldLease
    <3> QED BY <1>t, <2>1, <3>1, <3>2 DEF Holds
  <2>2. CASE ~r.timer
    BY <1>t, <2>2, OwnersAssumption DEF LeasesAreHeld
  <2> QED BY <2>1, <2>2
<1>5. LeasesAreListed'
  BY <1>u, OwnersAssumption DEF LeasesAreListed
<1> QED BY <1>1, <1>2, <1>3, <1>4, <1>5

\* submit() and reclaimExpired() keep the invariant.
LEMMA SubmitOrSweepStep ==
  ASSUME WorkerInv, BaseInv', RenewMs < LeaseMs,
         (\E j \in Jobs : Submit(j)) \/ Sweep
  PROVE  WorkerInv'
<1> USE DEF WorkerInv, BaseInv
<1>1. ASSUME NEW j \in Jobs, Submit(j)
      PROVE  WorkerInv'
  <2>1. jobs[j].state = "absent" /\ jobs[j].attempt = 0 /\ jobs[j].leaseOwner = None
    BY <1>1 DEF Submit, Enqueue, LedgerInv, RowsWereIssued, AttemptsWithinBudget,
       LeaseMatchesState
  <2>2. /\ jobs'[j].attempt = 0 /\ jobs'[j].leaseOwner = None
        /\ \A k \in Jobs \ {j} : jobs'[k] = jobs[k]
    BY <1>1 DEF Submit, Enqueue, LedgerInv, TypeOK, NoRow
  <2>3. UNCHANGED workerVars
    BY <1>1 DEF Submit
  <2> QED BY <2>1, <2>2, <2>3, LedgerOnlyStep
<1>2. ASSUME Sweep
      PROVE  WorkerInv'
  <2>1. ReclaimExpired /\ UNCHANGED workerVars
    BY <1>2 DEF Sweep
  <2>2. \A k \in Jobs :
           /\ jobs'[k].attempt = jobs[k].attempt
           /\ \/ jobs'[k] = jobs[k]
              \/ jobs[k].lease = 0 /\ jobs'[k].leaseOwner = None
    BY <2>1, ReclaimEffect
  <2> QED BY <2>1, <2>2, LedgerOnlyStep
<1> QED BY <1>1, <1>2

\* Steps that leave ledger and runs alone keep the invariant: the poll timer,
\* an idle pump(), and stop() up to the list of what it has to release.
LEMMA PlainStep ==
  ASSUME WorkerInv, BaseInv', NEW w \in Owners,
         PumpIdle(w) \/ PollTimer(w) \/ Stop(w) \/ StopDrained(w)
  PROVE  WorkerInv'
<1> USE DEF WorkerInv, BaseInv
<1>u. UNCHANGED <<jobs, inFlight, runs, commits, smooth, cut>>
  BY DEF PumpIdle, PollTimer, Stop, StopDrained, ledgerVars, history
<1>m. \/ mode' = mode /\ releasing' = releasing
      \/ /\ mode[w] = "up" /\ mode' = [mode EXCEPT ![w] = "draining"]
         /\ releasing' = releasing
      \/ /\ mode[w] = "draining"
         /\ releasing' = [releasing EXCEPT ![w] = inFlight[w]]
         /\ mode' = [mode EXCEPT ![w] = IF inFlight[w] = {} THEN "stopped" ELSE "releasing"]
  BY DEF PumpIdle, PollTimer, Stop, StopDrained
<1>t. /\ mode \in [Owners -> Modes]
      /\ releasing \in [Owners -> SUBSET (Jobs \X Nat)]
      /\ \A r \in runs : r.worker \in Owners
  BY DEF WorkerTypeOK, Run
<1>1. RunsAreKnown'
  BY <1>u, <1>m, <1>t DEF RunsAreKnown
<1>2. EntriesAreKnown'
  BY <1>u, <1>m, <1>t DEF EntriesAreKnown
<1>3. OneEntryPerJob'
  BY <1>u, <1>m, <1>t DEF OneEntryPerJob
<1>4. CutsAreSeen' /\ CommitIsCurrent' /\ LeasesAreHeld'
  BY <1>u DEF CutsAreSeen, CommitIsCurrent, LeasesAreHeld, Holds
<1>5. LeasesAreListed'
  BY <1>u, <1>m, <1>t DEF LeasesAreListed
<1> QED BY <1>1, <1>2, <1>3, <1>4, <1>5

\* The death of a process takes its runs, entries and intervals with it; the
\* leases it held stay behind, and no process that lives counts on them.
LEMMA CrashStep ==
  ASSUME WorkerInv, BaseInv', NEW w \in Owners, Crash(w)
  PROVE  WorkerInv'
<1> USE DEF WorkerInv, BaseInv
<1>u. /\ UNCHANGED <<jobs, commits, smooth, cut>>
      /\ runs' = {r \in runs : r.worker # w}
      /\ mode' = [mode EXCEPT ![w] = "crashed"]
      /\ inFlight' = [inFlight EXCEPT ![w] = {}]
      /\ releasing' = [releasing EXCEPT ![w] = {}]
  BY DEF Crash, ledgerVars, history
<1>t. /\ mode \in [Owners -> Modes]
      /\ inFlight \in [Owners -> SUBSET (Jobs \X Nat)]
      /\ releasing \in [Owners -> SUBSET (Jobs \X Nat)]
      /\ \A r \in runs : r.worker \in Owners
  BY DEF WorkerTypeOK, Run
<1>1. RunsAreKnown'
  BY <1>u, <1>t DEF RunsAreKnown
<1>2. EntriesAreKnown' /\ OneEntryPerJob'
  BY <1>u, <1>t DEF EntriesAreKnown, OneEntryPerJob
<1>3. CutsAreSeen' /\ CommitIsCurrent' /\ LeasesAreHeld'
  BY <1>u DEF CutsAreSeen, CommitIsCurrent, LeasesAreHeld, Holds
<1>4. LeasesAreListed'
  BY <1>u, <1>t DEF LeasesAreListed
<1> QED BY <1>1, <1>2, <1>3, <1>4

\* claim() hands out a new attempt: nobody has a run or an entry of it, and
\* nobody who holds a lease loses it.
LEMMA ClaimStep ==
  ASSUME WorkerInv, BaseInv', RenewMs < LeaseMs,
         NEW w \in Owners, NEW j \in Jobs, PumpClaim(w, j)
  PROVE  WorkerInv'
<1> USE DEF WorkerInv, BaseInv
<1> DEFINE a == jobs[j].attempt + 1
           new == [job |-> j, attempt |-> a, worker |-> w,
                   lost |-> FALSE, timer |-> TRUE, due |-> RenewMs]
<1>1. Claim(w, j)
  BY DEF PumpClaim
<1>2. /\ mode[w] = "up"
      /\ inFlight' = [inFlight EXCEPT ![w] = Without(w, j) \cup {<<j, a>>}]
      /\ runs' = runs \cup {new}
      /\ UNCHANGED <<mode, releasing, commits, smooth, cut>>
  BY DEF PumpClaim, history
<1>3. /\ jobs[j].leaseOwner = None /\ jobs[j].state # "completed"
      /\ jobs'[j].leaseOwner = w /\ jobs'[j].attempt = a
      /\ jobs'[j].lease = LeaseMs
      /\ \A k \in Jobs \ {j} : jobs'[k] = jobs[k]
  BY <1>1, ClaimEffect
<1>4. /\ a \in Nat /\ jobs[j].attempt \in Nat /\ jobs[j].attempt < a
      /\ \A k \in Jobs : jobs[k].attempt \in Nat
  BY DEF WorkerTypeOK, TypeOK, Row
<1>5. /\ new.job = j /\ new.attempt = a /\ new.worker = w
      /\ new.lost = FALSE /\ new.timer = TRUE /\ new.due = RenewMs
  OBVIOUS
<1> HIDE DEF a, new
<1>t. /\ \A r \in runs : r.job \in Jobs /\ r.worker \in Owners /\ r.attempt \in Nat
      /\ \A v \in Owners : \A e \in inFlight[v] \cup releasing[v] :
            e[1] \in Jobs /\ e[2] \in Nat
      /\ \A c \in commits : c[1] \in Jobs
      /\ inFlight \in [Owners -> SUBSET (Jobs \X Nat)]
  BY DEF WorkerTypeOK, Run
<1>6. \A v \in Owners : \A e \in inFlight'[v] \cup releasing'[v] :
         \/ e \in inFlight[v] \cup releasing[v]
         \/ v = w /\ e = <<j, a>>
  BY <1>2, <1>t, WithoutEffect
<1>7. \A k \in Jobs : jobs[k].attempt <= jobs'[k].attempt
  BY <1>3, <1>4
<1>8. RunsAreKnown'
  <2> SUFFICES ASSUME NEW r \in runs'
               PROVE  /\ r.attempt <= jobs'[r.job].attempt
                      /\ ~r.timer => mode[r.worker] \in {"releasing", "stopped"}
    BY <1>2 DEF RunsAreKnown
  <2>1. CASE r \in runs
    <3>1. r.attempt <= jobs[r.job].attempt
      BY <2>1 DEF RunsAreKnown
    <3>2. r.attempt <= jobs'[r.job].attempt
      BY <1>3, <1>4, <1>t, <2>1, <3>1
    <3> QED BY <2>1, <3>2 DEF RunsAreKnown
  <2>2. CASE r = new
    BY <1>3, <1>4, <1>5, <2>2
  <2> QED BY <1>2, <2>1, <2>2
<1>9. EntriesAreKnown'
  <2> SUFFICES ASSUME NEW v \in Owners, NEW e \in inFlight'[v] \cup releasing'[v]
               PROVE  /\ e[2] <= jobs'[e[1]].attempt
                      /\ \A r \in runs' : r.job = e[1] /\ r.attempt = e[2] => r.worker = v
    BY DEF EntriesAreKnown
  <2>1. CASE e \in inFlight[v] \cup releasing[v]
    <3>1. /\ e[2] <= jobs[e[1]].attempt /\ e[1] \in Jobs /\ e[2] \in Nat
          /\ \A r \in runs : r.job = e[1] /\ r.attempt = e[2] => r.worker = v
      BY <1>t, <2>1 DEF EntriesAreKnown
    <3>2. ~(new.job = e[1] /\ new.attempt = e[2])
      BY <1>4, <1>5, <3>1
    <3>3. e[2] <= jobs'[e[1]].attempt
      BY <1>3, <1>4, <3>1
    <3> QED BY <1>2, <3>1, <3>2, <3>3
  <2>2. CASE v = w /\ e = <<j, a>>
    <3>1. \A r \in runs : ~(r.job = j /\ r.attempt = a)
      BY <1>4, <1>t DEF RunsAreKnown
    <3>2. e[1] = j /\ e[2] = a
      BY <2>2
    <3> QED BY <1>2, <1>3, <1>4, <1>5, <2>2, <3>1, <3>2
  <2> QED BY <1>6, <2>1, <2>2
<1>10. OneEntryPerJob'
  <2>1. \A e \in Without(w, j) : e \in inFlight[w] /\ e[1] # j
    BY <1>t, WithoutEffect
  <2>2. \A e, f \in Without(w, j) \cup {<<j, a>>} : e[1] = f[1] => e = f
    BY <2>1 DEF OneEntryPerJob
  <2> QED BY <1>2, <1>t, <2>2 DEF OneEntryPerJob
<1>11. CutsAreSeen'
  BY <1>2, <1>5 DEF CutsAreSeen
<1>12. CommitIsCurrent'
  <2>1. \A c \in commits : c[1] # j
    BY <1>3 DEF CommittedOnce
  <2> QED BY <1>2, <1>3, <1>t, <2>1 DEF CommitIsCurrent
<1>13. LeasesAreHeld'
  <2> SUFFICES ASSUME smooth, NEW r \in runs'
               PROVE  /\ r.timer => Holds(r)'
                      /\ ~r.timer => jobs'[r.job].leaseOwner # r.worker
    BY <1>2 DEF LeasesAreHeld
  <2>1. CASE r = new
    <3>1. LeaseMs \in Nat /\ RenewMs \in Nat
      BY WorkerAssumption, TimesAssumption
    <3> QED BY <1>3, <1>5, <2>1, <3>1 DEF Holds
  <2>2. CASE r \in runs /\ r.timer
    <3>1. Holds(r)
      BY <2>2 DEF LeasesAreHeld
    <3>2. r.job # j
      BY <1>3, <2>2, <3>1, HeldLease
    <3> QED BY <1>3, <1>t, <2>2, <3>1, <3>2 DEF Holds
  <2>3. CASE r \in runs /\ ~r.timer
    <3>1. jobs[r.job].leaseOwner # r.worker
      BY <2>3 DEF LeasesAreHeld
    <3>2. r.worker # w
      BY <1>2, <2>3 DEF RunsAreKnown
    <3> QED BY <1>3, <1>t, <2>3, <3>1, <3>2
  <2> QED BY <1>2, <2>1, <2>2, <2>3
<1>14. LeasesAreListed'
  <2> SUFFICES ASSUME smooth, NEW k \in Jobs, NEW v \in Owners,
                      jobs'[k].leaseOwner = v
               PROVE  /\ mode[v] # "stopped"
                      /\ mode[v] \in {"up", "draining"} =>
                            <<k, jobs'[k].attempt>> \in inFlight'[v]
                      /\ mode[v] = "releasing" =>
                            <<k, jobs'[k].attempt>> \in releasing[v]
    BY <1>2 DEF LeasesAreListed
  <2>1. CASE k = j
    BY <1>2, <1>3, <1>t, <2>1
  <2>2. CASE k # j
    <3>1. jobs'[k] = jobs[k]
      BY <1>3, <2>2
    <3>2. \A e \in inFlight[v] : e[1] = k => e \in inFlight'[v]
      BY <1>2, <1>t, <2>2, WithoutEffect
    <3>3. <<k, jobs[k].attempt>>[1] = k
      OBVIOUS
    <3> QED BY <3>1, <3>2, <3>3 DEF LeasesAreListed
  <2> QED BY <2>1, <2>2
<1> QED BY <1>8, <1>9, <1>10, <1>11, <1>12, <1>13, <1>14

\* A handler that ends gives its lease up, or had none: it leaves no lease
\* behind that its worker does not know of.
LEMMA HandlerEndStep ==
  ASSUME WorkerInv, BaseInv', RenewMs < LeaseMs,
         NEW r \in runs, HandlerReturns(r) \/ HandlerThrows(r)
  PROVE  WorkerInv'
<1> USE DEF WorkerInv, BaseInv
<1> DEFINE j == r.job
           w == r.worker
<1>1. /\ runs' = runs \ {r}
      /\ inFlight' = [inFlight EXCEPT ![w] = Without(w, j)]
      /\ UNCHANGED <<mode, releasing, cut>>
  BY HandlerEffect DEF Settles
<1>2. /\ \A k \in Jobs : jobs'[k].attempt = jobs[k].attempt
      /\ \A k \in Jobs \ {j} : jobs'[k] = jobs[k]
      /\ \/ jobs'[j] = jobs[j]
         \/ jobs[j].leaseOwner = w /\ jobs'[j].leaseOwner = None
      /\ smooth' => smooth /\ (jobs'[j].leaseOwner # w \/ r.lost)
  BY HandlerEffect
<1>t. /\ \A s \in runs : s.job \in Jobs /\ s.worker \in Owners
      /\ \A v \in Owners : \A e \in inFlight[v] \cup releasing[v] : e[1] \in Jobs
      /\ \A c \in commits : c[1] \in Jobs
      /\ inFlight \in [Owners -> SUBSET (Jobs \X Nat)]
      /\ j \in Jobs /\ w \in Owners
  BY DEF WorkerTypeOK, Run
<1>3. \A v \in Owners : inFlight'[v] \subseteq inFlight[v]
  BY <1>1, <1>t, WithoutEffect
<1>4. smooth' => jobs'[j].leaseOwner # w
  <2>1. ASSUME smooth', r.lost
        PROVE  jobs'[j].leaseOwner # w
    <3>1. ~r.timer
      BY <1>2, <2>1 DEF LeasesAreHeld, Holds
    <3>2. jobs[j].leaseOwner # w
      BY <1>2, <2>1, <3>1 DEF LeasesAreHeld
    <3> QED BY <1>2, <3>2
  <2> QED BY <1>2, <2>1
<1>5. RunsAreKnown'
  BY <1>1, <1>2, <1>t DEF RunsAreKnown
<1>6. EntriesAreKnown'
  BY <1>1, <1>2, <1>3, <1>t DEF EntriesAreKnown
<1>7. OneEntryPerJob'
  BY <1>1, <1>3 DEF OneEntryPerJob
<1>8. CutsAreSeen'
  BY <1>1 DEF CutsAreSeen
<1>9. CommitIsCurrent'
  <2> SUFFICES ASSUME smooth', ~cut, NEW c \in commits'
               PROVE  jobs'[c[1]].attempt = c[2]
    BY <1>1 DEF CommitIsCurrent
  <2>1. CASE c \in commits
    BY <1>2, <1>t, <2>1 DEF CommitIsCurrent
  <2>2. CASE c = <<j, r.attempt>>
    <3>1. Holds(r)
      BY <1>2 DEF CutsAreSeen, LeasesAreHeld
    <3>2. jobs[j].attempt = r.attempt
      BY <3>1 DEF Holds
    <3>3. c[1] = j /\ c[2] = r.attempt
      BY <2>2
    <3> QED BY <1>2, <1>t, <3>2, <3>3
  <2>3. commits' = commits \/ commits' = commits \cup {<<j, r.attempt>>}
    BY HandlerEffect
  <2> QED BY <2>1, <2>2, <2>3
<1>10. LeasesAreHeld'
  <2> SUFFICES ASSUME smooth', NEW s \in runs, s # r
               PROVE  /\ s.timer => Holds(s)'
                      /\ ~s.timer => jobs'[s.job].leaseOwner # s.worker
    BY <1>1 DEF LeasesAreHeld
  <2>0. smooth
    BY <1>2
  <2>1. CASE s.timer
    <3>1. Holds(s)
      BY <2>0, <2>1 DEF LeasesAreHeld
    <3>2. jobs'[s.job] = jobs[s.job]
      <4> SUFFICES ASSUME s.job = j, jobs[j].leaseOwner = w
                   PROVE  FALSE
        BY <1>2, <1>t
      <4>1. r.timer
        BY <2>0 DEF LeasesAreHeld
      <4>2. Holds(r)
        BY <2>0, <4>1 DEF LeasesAreHeld
      <4> QED BY <2>1, <3>1, <4>1, <4>2, HoldersAgree
    <3> QED BY <3>1, <3>2, <2>1 DEF Holds
  <2>2. CASE ~s.timer
    <3>1. jobs[s.job].leaseOwner # s.worker
      BY <2>0, <2>2 DEF LeasesAreHeld
    <3> QED BY <1>2, <1>t, <2>2, <3>1, OwnersAssumption
  <2> QED BY <2>1, <2>2
<1>11. LeasesAreListed'
  <2> SUFFICES ASSUME smooth', NEW k \in Jobs, NEW v \in Owners,
                      jobs'[k].leaseOwner = v
               PROVE  /\ mode[v] # "stopped"
                      /\ mode[v] \in {"up", "draining"} =>
                            <<k, jobs'[k].attempt>> \in inFlight'[v]
                      /\ mode[v] = "releasing" =>
                            <<k, jobs'[k].attempt>> \in releasing[v]
    BY <1>1 DEF LeasesAreListed
  <2>1. jobs'[k] = jobs[k] /\ smooth
    BY <1>2, OwnersAssumption
  <2>2. k # j \/ v # w
    BY <1>4
  <2>3. \A e \in inFlight[v] : e[1] = k => e \in inFlight'[v]
    BY <1>1, <1>t, <2>2, WithoutEffect
  <2>4. <<k, jobs[k].attempt>>[1] = k
    OBVIOUS
  <2> QED BY <2>1, <2>3, <2>4 DEF LeasesAreListed
<1> QED BY <1>5, <1>6, <1>7, <1>8, <1>9, <1>10, <1>11

\* stop() releases an entry: its handler, if it still runs, loses interval and
\* lease together, and the entry was the worker's only one for that job.
LEMMA ReleaseStep ==
  ASSUME WorkerInv, BaseInv', RenewMs < LeaseMs,
         NEW w \in Owners, NEW e \in releasing[w], StopRelease(w, e)
  PROVE  WorkerInv'
<1> USE DEF WorkerInv, BaseInv
<1> DEFINE j == e[1]
           Hit(r) == r.job = j /\ r.attempt = e[2]
<1>1. /\ mode[w] = "releasing"
      /\ releasing' = [releasing EXCEPT ![w] = releasing[w] \ {e}]
      /\ mode' = [mode EXCEPT ![w] = IF releasing'[w] = {} THEN "stopped" ELSE "releasing"]
      /\ inFlight' = [inFlight EXCEPT ![w] = Without(w, j)]
      /\ runs' = {IF Hit(r) THEN [r EXCEPT !.timer = FALSE] ELSE r : r \in runs}
      /\ cut' = (cut \/ \E r \in runs : r.job = j /\ r.worker = w)
      /\ UNCHANGED commits
  BY DEF StopRelease, Quiet
<1>t. /\ \A s \in runs : /\ s \in Run /\ s.job \in Jobs /\ s.worker \in Owners
                         /\ s.timer \in BOOLEAN
      /\ \A v \in Owners : \A f \in inFlight[v] \cup releasing[v] : f[1] \in Jobs
      /\ \A c \in commits : c[1] \in Jobs
      /\ inFlight \in [Owners -> SUBSET (Jobs \X Nat)]
      /\ releasing \in [Owners -> SUBSET (Jobs \X Nat)]
      /\ mode \in [Owners -> Modes]
      /\ j \in Jobs /\ e = <<j, e[2]>>
  BY DEF WorkerTypeOK, Run
<1>2. /\ \A k \in Jobs : jobs'[k].attempt = jobs[k].attempt
      /\ \A k \in Jobs \ {j} : jobs'[k] = jobs[k]
      /\ \/ jobs'[j] = jobs[j]
         \/ jobs[j].leaseOwner = w /\ jobs'[j].leaseOwner = None
      /\ smooth' => smooth /\ jobs'[j].leaseOwner # w
  BY <1>t, TryFailEffect DEF StopRelease
<1>3. \A v \in Owners : /\ inFlight'[v] \subseteq inFlight[v]
                        /\ releasing'[v] \subseteq releasing[v]
  BY <1>1, <1>t, WithoutEffect
<1>4. \A s \in runs' : \E r \in runs :
         /\ s.job = r.job /\ s.attempt = r.attempt /\ s.worker = r.worker
         /\ s.lost = r.lost /\ s.due = r.due
         /\ IF Hit(r) THEN ~s.timer ELSE s = r
  <2> SUFFICES ASSUME NEW r \in runs,
                      NEW s, s = IF Hit(r) THEN [r EXCEPT !.timer = FALSE] ELSE r
               PROVE  /\ s.job = r.job /\ s.attempt = r.attempt /\ s.worker = r.worker
                      /\ s.lost = r.lost /\ s.due = r.due
                      /\ IF Hit(r) THEN ~s.timer ELSE s = r
    BY <1>1
  <2> HIDE DEF Hit
  <2> QED BY <1>t DEF Run
<1>5. \A r \in runs : Hit(r) => r.worker = w
  BY DEF EntriesAreKnown
<1>6. \A v \in Owners : mode[v] \in {"releasing", "stopped"} =>
                           mode'[v] \in {"releasing", "stopped"}
  BY <1>1, <1>t
<1>7. RunsAreKnown'
  <2> SUFFICES ASSUME NEW s \in runs'
               PROVE  /\ s.attempt <= jobs'[s.job].attempt
                      /\ ~s.timer => mode'[s.worker] \in {"releasing", "stopped"}
    BY DEF RunsAreKnown
  <2>1. PICK r \in runs : /\ s.job = r.job /\ s.attempt = r.attempt
                          /\ s.worker = r.worker
                          /\ IF Hit(r) THEN ~s.timer ELSE s = r
    BY <1>4
  <2>2. s.attempt <= jobs'[s.job].attempt
    BY <1>2, <1>t, <2>1 DEF RunsAreKnown
  <2>3. CASE Hit(r)
    BY <1>1, <1>5, <1>6, <2>1, <2>2, <2>3
  <2>4. CASE ~Hit(r)
    BY <1>6, <1>t, <2>1, <2>2, <2>4 DEF RunsAreKnown
  <2> QED BY <2>3, <2>4
<1>8. EntriesAreKnown'
  <2> SUFFICES ASSUME NEW v \in Owners, NEW f \in inFlight'[v] \cup releasing'[v]
               PROVE  /\ f[2] <= jobs'[f[1]].attempt
                      /\ \A s \in runs' : s.job = f[1] /\ s.attempt = f[2] => s.worker = v
    BY DEF EntriesAreKnown
  <2>1. f \in inFlight[v] \cup releasing[v]
    BY <1>3
  <2>2. f[2] <= jobs'[f[1]].attempt
    BY <1>2, <1>t, <2>1 DEF EntriesAreKnown
  <2> QED BY <1>4, <2>1, <2>2 DEF EntriesAreKnown
<1>9. OneEntryPerJob'
  BY <1>3 DEF OneEntryPerJob
<1>10. CutsAreSeen'
  <2> SUFFICES ASSUME ~cut', NEW s \in runs'
               PROVE  s.timer
    BY DEF CutsAreSeen
  <2>1. ~cut /\ \A r \in runs : ~(r.job = j /\ r.worker = w)
    BY <1>1
  <2>2. \A r \in runs : ~Hit(r)
    BY <1>5, <2>1
  <2> QED BY <1>4, <2>1, <2>2 DEF CutsAreSeen
<1>11. CommitIsCurrent'
  BY <1>1, <1>2, <1>t DEF CommitIsCurrent
<1>12. smooth' /\ jobs[j].leaseOwner = w => jobs[j].attempt = e[2]
  <2> SUFFICES ASSUME smooth', jobs[j].leaseOwner = w
               PROVE  jobs[j].attempt = e[2]
    OBVIOUS
  <2>1. <<j, jobs[j].attempt>> \in releasing[w]
    BY <1>1, <1>2, <1>t DEF LeasesAreListed
  <2>2. <<j, jobs[j].attempt>> = e
    BY <2>1 DEF OneEntryPerJob
  <2> QED BY <2>2
<1>13. LeasesAreHeld'
  <2> SUFFICES ASSUME smooth', NEW s \in runs'
               PROVE  /\ s.timer => Holds(s)'
                      /\ ~s.timer => jobs'[s.job].leaseOwner # s.worker
    BY DEF LeasesAreHeld
  <2>0. smooth
    BY <1>2
  <2>1. PICK r \in runs : /\ s.job = r.job /\ s.attempt = r.attempt
                          /\ s.worker = r.worker
                          /\ IF Hit(r) THEN ~s.timer ELSE s = r
    BY <1>4
  <2>2. CASE Hit(r)
    BY <1>2, <1>5, <2>1, <2>2
  <2>3. CASE ~Hit(r) /\ r.timer
    <3>1. Holds(r)
      BY <2>0, <2>3 DEF LeasesAreHeld
    <3>2. ~(r.job = j /\ jobs[j].leaseOwner = w)
      BY <1>12, <2>3, <3>1 DEF Holds
    <3>3. jobs'[r.job] = jobs[r.job]
      BY <1>2, <1>t, <3>2
    <3> QED BY <2>1, <2>3, <3>1, <3>3 DEF Holds
  <2>4. CASE ~Hit(r) /\ ~r.timer
    <3>1. jobs[r.job].leaseOwner # r.worker
      BY <2>0, <2>4 DEF LeasesAreHeld
    <3> QED BY <1>2, <1>t, <2>1, <2>4, <3>1, OwnersAssumption
  <2> QED BY <2>2, <2>3, <2>4
<1>14. LeasesAreListed'
  <2> SUFFICES ASSUME smooth', NEW k \in Jobs, NEW v \in Owners,
                      jobs'[k].leaseOwner = v
               PROVE  /\ mode'[v] # "stopped"
                      /\ mode'[v] \in {"up", "draining"} =>
                            <<k, jobs'[k].attempt>> \in inFlight'[v]
                      /\ mode'[v] = "releasing" =>
                            <<k, jobs'[k].attempt>> \in releasing'[v]
    BY DEF LeasesAreListed
  <2>1. jobs'[k] = jobs[k] /\ smooth /\ ~(k = j /\ v = w)
    BY <1>2, OwnersAssumption
  <2> DEFINE x == <<k, jobs[k].attempt>>
  <2>2. /\ mode[v] # "stopped"
        /\ mode[v] \in {"up", "draining"} => x \in inFlight[v]
        /\ mode[v] = "releasing" => x \in releasing[v]
    BY <2>1 DEF LeasesAreListed
  <2>3. x[1] = k
    OBVIOUS
  <2> HIDE DEF x
  <2>4. CASE v # w
    <3>1. mode'[v] = mode[v] /\ inFlight'[v] = inFlight[v] /\ releasing'[v] = releasing[v]
      BY <1>1, <1>t, <2>4
    <3> QED BY <2>1, <2>2, <3>1 DEF x
  <2>5. CASE v = w
    <3>1. x \in releasing'[w]
      BY <1>1, <1>t, <2>1, <2>2, <2>3, <2>5
    <3>2. mode'[w] = "releasing"
      BY <1>1, <1>t, <3>1
    <3> QED BY <2>1, <2>5, <3>1, <3>2 DEF x
  <2> QED BY <2>4, <2>5
<1> QED BY <1>7, <1>8, <1>9, <1>10, <1>11, <1>13, <1>14

\* A renewal that is due finds the lease alive and puts its end off again; one
\* that throws is on record (smooth), and promises nothing any more.
LEMMA RenewStep ==
  ASSUME WorkerInv, BaseInv', RenewMs < LeaseMs, NEW r \in runs, RenewTick(r)
  PROVE  WorkerInv'
<1> USE DEF WorkerInv, BaseInv
<1> DEFINE again == [r EXCEPT !.due = RenewMs]
           lost == [again EXCEPT !.lost = TRUE]
           held == jobs[r.job].leaseOwner = r.worker /\ jobs[r.job].lease > 0
<1>1. /\ r.timer /\ r.due = 0
      /\ \/ Renew(r.job, r.worker) /\ Replace(r, again) /\ UNCHANGED smooth
         \/ Replace(r, lost) /\ smooth' = (smooth /\ ~held) /\ UNCHANGED ledgerVars
      /\ UNCHANGED <<mode, inFlight, releasing, commits, cut>>
  BY DEF RenewTick
<1>t. /\ \A s \in runs : s \in Run /\ s.job \in Jobs /\ s.worker \in Owners
      /\ \A v \in Owners : \A f \in inFlight[v] \cup releasing[v] : f[1] \in Jobs
      /\ \A c \in commits : c[1] \in Jobs
      /\ jobs \in [Jobs -> Row]
  BY DEF WorkerTypeOK, TypeOK, Run
<1>2. /\ again.job = r.job /\ again.attempt = r.attempt /\ again.worker = r.worker
      /\ again.timer = r.timer /\ again.lost = r.lost /\ again.due = RenewMs
      /\ lost.job = r.job /\ lost.attempt = r.attempt /\ lost.worker = r.worker
      /\ lost.timer = r.timer
  BY <1>t DEF Run
<1>3. smooth => held
  <2> SUFFICES ASSUME smooth
               PROVE  held
    OBVIOUS
  <2>1. Holds(r)
    BY <1>1 DEF LeasesAreHeld
  <2> QED BY <2>1, HeldLease DEF Holds
<1> HIDE DEF again, lost, held
<1>4. /\ \A k \in Jobs : /\ jobs'[k].attempt = jobs[k].attempt
                         /\ jobs'[k].leaseOwner = jobs[k].leaseOwner
      /\ \A k \in Jobs \ {r.job} : jobs'[k] = jobs[k]
  BY <1>1, <1>t DEF Renew, ledgerVars, Row
<1>5. smooth' => /\ smooth /\ jobs'[r.job].lease = LeaseMs
                 /\ runs' = (runs \ {r}) \cup {again}
  <2>1. CASE Renew(r.job, r.worker) /\ Replace(r, again) /\ UNCHANGED smooth
    <3>1. jobs'[r.job].lease = LeaseMs
      BY <1>t, <2>1 DEF Renew, Row
    <3> QED BY <2>1, <3>1 DEF Replace
  <2>2. CASE Replace(r, lost) /\ smooth' = (smooth /\ ~held) /\ UNCHANGED ledgerVars
    BY <1>3, <2>2
  <2> QED BY <1>1, <2>1, <2>2
<1>6. \A s \in runs' : \E q \in runs :
         /\ s.job = q.job /\ s.attempt = q.attempt /\ s.worker = q.worker
         /\ s.timer = q.timer
  BY <1>1, <1>2 DEF Replace
<1>7. RunsAreKnown'
  BY <1>1, <1>4, <1>6, <1>t DEF RunsAreKnown
<1>8. EntriesAreKnown'
  BY <1>1, <1>4, <1>6, <1>t DEF EntriesAreKnown
<1>9. OneEntryPerJob'
  BY <1>1 DEF OneEntryPerJob
<1>10. CutsAreSeen'
  BY <1>1, <1>6 DEF CutsAreSeen
<1>11. CommitIsCurrent'
  BY <1>1, <1>4, <1>5, <1>t DEF CommitIsCurrent
<1>12. LeasesAreHeld'
  <2> SUFFICES ASSUME smooth', NEW s \in runs'
               PROVE  /\ s.timer => Holds(s)'
                      /\ ~s.timer => jobs'[s.job].leaseOwner # s.worker
    BY DEF LeasesAreHeld
  <2>1. smooth /\ Holds(r)
    BY <1>1, <1>5 DEF LeasesAreHeld
  <2>2. CASE s = again
    <3>1. LeaseMs \in Nat /\ RenewMs \in Nat
      BY WorkerAssumption, TimesAssumption
    <3>2. /\ jobs'[s.job].leaseOwner = s.worker
          /\ jobs'[s.job].attempt = s.attempt
          /\ ~s.lost /\ s.timer
      BY <1>1, <1>2, <1>4, <1>t, <2>1, <2>2 DEF Holds
    <3>3. jobs'[s.job].lease = LeaseMs /\ s.due = RenewMs
      BY <1>2, <1>5, <2>2
    <3>4. LeaseMs + RenewMs = RenewMs + LeaseMs
      BY <3>1
    <3>5. jobs'[s.job].lease + RenewMs = s.due + LeaseMs
      BY <3>3, <3>4
    <3> QED BY <3>2, <3>5 DEF Holds
  <2>3. CASE s \in runs /\ s # r /\ s.timer
    <3>1. Holds(s)
      BY <2>1, <2>3 DEF LeasesAreHeld
    <3>2. s.job # r.job
      BY <1>1, <2>1, <2>3, <3>1, HoldersAgree
    <3>3. jobs'[s.job] = jobs[s.job]
      BY <1>4, <1>t, <2>3, <3>2
    <3> QED BY <2>3, <3>1, <3>3 DEF Holds
  <2>4. CASE s \in runs /\ ~s.timer
    BY <1>4, <1>t, <2>1, <2>4 DEF LeasesAreHeld
  <2> QED BY <1>5, <2>2, <2>3, <2>4
<1>13. LeasesAreListed'
  BY <1>1, <1>4, <1>5 DEF LeasesAreListed
<1> QED BY <1>7, <1>8, <1>9, <1>10, <1>11, <1>12, <1>13

\* Time takes one off every lease and every due time alike.
LEMMA TimeStep ==
  ASSUME WorkerInv, BaseInv', RenewMs < LeaseMs, Time
  PROVE  WorkerInv'
<1> USE DEF WorkerInv, BaseInv
<1>1. /\ Tick
      /\ smooth' = (smooth /\ \A r \in runs : ~Late(r))
      /\ runs' = {[r EXCEPT !.due = IF r.due > 0 THEN r.due - 1 ELSE 0] : r \in runs}
      /\ UNCHANGED <<mode, inFlight, releasing, commits, cut>>
  BY DEF Time
<1>2. \A k \in Jobs : /\ jobs'[k].attempt = jobs[k].attempt
                      /\ jobs'[k].leaseOwner = jobs[k].leaseOwner
                      /\ jobs[k].lease > 0 => jobs'[k].lease = jobs[k].lease - 1
  BY <1>1, TickEffect
<1>t. /\ \A s \in runs : /\ s \in Run /\ s.job \in Jobs /\ s.worker \in Owners
                         /\ s.due \in Nat
      /\ \A v \in Owners : \A f \in inFlight[v] \cup releasing[v] : f[1] \in Jobs
      /\ \A c \in commits : c[1] \in Jobs
  BY WorkerAssumption DEF WorkerTypeOK, Run
<1>3. \A s \in runs' : \E r \in runs :
         /\ s.job = r.job /\ s.attempt = r.attempt /\ s.worker = r.worker
         /\ s.timer = r.timer /\ s.lost = r.lost
         /\ r.due > 0 => s.due = r.due - 1
  <2> SUFFICES ASSUME NEW r \in runs, NEW d,
                      d = IF r.due > 0 THEN r.due - 1 ELSE 0,
                      NEW s, s = [r EXCEPT !.due = d]
               PROVE  /\ s.job = r.job /\ s.attempt = r.attempt /\ s.worker = r.worker
                      /\ s.timer = r.timer /\ s.lost = r.lost
                      /\ r.due > 0 => s.due = r.due - 1
    BY <1>1
  <2> QED BY <1>t DEF Run
<1>4. RunsAreKnown'
  BY <1>1, <1>2, <1>3, <1>t DEF RunsAreKnown
<1>5. EntriesAreKnown'
  BY <1>1, <1>2, <1>3, <1>t DEF EntriesAreKnown
<1>6. OneEntryPerJob'
  BY <1>1 DEF OneEntryPerJob
<1>7. CutsAreSeen'
  BY <1>1, <1>3 DEF CutsAreSeen
<1>8. CommitIsCurrent'
  BY <1>1, <1>2, <1>t DEF CommitIsCurrent
<1>9. LeasesAreHeld'
  <2> SUFFICES ASSUME smooth', NEW s \in runs'
               PROVE  /\ s.timer => Holds(s)'
                      /\ ~s.timer => jobs'[s.job].leaseOwner # s.worker
    BY DEF LeasesAreHeld
  <2>1. smooth /\ \A r \in runs : ~Late(r)
    BY <1>1
  <2>2. PICK r \in runs :
           /\ s.job = r.job /\ s.attempt = r.attempt /\ s.worker = r.worker
           /\ s.timer = r.timer /\ s.lost = r.lost
           /\ r.due > 0 => s.due = r.due - 1
    BY <1>3
  <2>3. CASE s.timer
    <3>1. Holds(r)
      BY <2>1, <2>2, <2>3 DEF LeasesAreHeld
    <3>2. r.due > 0
      <4>1. r.timer /\ ~Late(r) /\ r.due \in Nat
        BY <1>t, <2>1, <2>2, <2>3
      <4>2. r.due # 0
        BY <4>1 DEF Late
      <4> QED BY <4>1, <4>2
    <3>3. jobs[r.job].lease > 0 /\ jobs[r.job].lease \in Nat
      BY <3>1, HeldLease
    <3>4. jobs'[s.job].lease = jobs[r.job].lease - 1 /\ s.due = r.due - 1
      BY <1>2, <1>t, <2>2, <3>2, <3>3
    <3>5. jobs[r.job].lease + RenewMs = r.due + LeaseMs
      BY <3>1 DEF Holds
    <3>6. \A a, b, c, d \in Nat : a + b = c + d => (a - 1) + b = (c - 1) + d
      OBVIOUS
    <3>7. RenewMs \in Nat /\ LeaseMs \in Nat /\ r.due \in Nat
      BY <1>t, WorkerAssumption, TimesAssumption
    <3>8. jobs'[s.job].lease + RenewMs = s.due + LeaseMs
      BY <3>3, <3>4, <3>5, <3>6, <3>7
    <3> QED BY <1>2, <1>t, <2>2, <2>3, <3>1, <3>8 DEF Holds
  <2>4. CASE ~s.timer
    BY <1>2, <1>t, <2>1, <2>2, <2>4 DEF LeasesAreHeld
  <2> QED BY <2>3, <2>4
<1>10. LeasesAreListed'
  BY <1>1, <1>2 DEF LeasesAreListed
<1> QED BY <1>4, <1>5, <1>6, <1>7, <1>8, <1>9, <1>10

\* Every step keeps the invariant, if renewals fit into a lease.
LEMMA WorkerStep ==
  ASSUME RenewMs < LeaseMs
  PROVE  WorkerInv /\ [WorkerNext]_vars => WorkerInv'
<1> SUFFICES ASSUME WorkerInv, [WorkerNext]_vars
             PROVE  WorkerInv'
  OBVIOUS
<1>1. BaseInv'
  BY BaseStep DEF WorkerInv
<1>2. ASSUME UNCHANGED vars
      PROVE  WorkerInv'
  BY <1>1, <1>2, LedgerOnlyStep DEF vars, workerVars
<1> QED
  BY <1>1, <1>2, SubmitOrSweepStep, PlainStep, CrashStep, ClaimStep,
     HandlerEndStep, ReleaseStep, RenewStep, TimeStep
     DEF WorkerNext, PumpStep, HandlerStep, StopStep
-----------------------------------------------------------------------------
\* What is proved of the ledger holds of it in the hands of the workers.
THEOREM WorkersUseLedger == WorkerSpec => Spec
<1>1. WorkerInit => BaseInv /\ Init
  BY WorkerInitInv DEF WorkerInv, WorkerInit
<1>2. BaseInv /\ [WorkerNext]_vars => [Next]_ledgerVars
  BY WorkerStepIsLedgerStep DEF BaseInv
<1> QED BY <1>1, <1>2, BaseStep, PTL DEF WorkerSpec, Spec

\* The ledger says completed exactly when one run was told that its work
\* counts, however late the renewals are, whatever throws and whoever dies:
\* complete() alone, which asks for the lease, sees to that.
THEOREM CompletedOnce == WorkerSpec => []CompletedMeansCommittedOnce
<1>1. WorkerInit => BaseInv
  BY WorkerInitInv DEF WorkerInv
<1>2. BaseInv => CompletedMeansCommittedOnce
  <2> SUFFICES ASSUME BaseInv, NEW j \in Jobs,
                      NEW told, told = {c \in commits : c[1] = j}
               PROVE  /\ Cardinality(told) <= 1
                      /\ jobs[j].state = "completed" <=> told # {}
    BY DEF CompletedMeansCommittedOnce
  <2>1. jobs[j].state = "completed" <=> told # {}
    BY DEF BaseInv, CommittedOnce
  <2>2. CASE told = {}
    BY <2>1, <2>2, FS_EmptySet
  <2>3. CASE told # {}
    <3>0. PICK c \in told : TRUE
      BY <2>3
    <3>1. told = {c}
      BY <3>0 DEF BaseInv, CommittedOnce
    <3>2. Cardinality(told) = 1
      BY <3>1, FS_Singleton
    <3> QED BY <2>1, <3>2
  <2> QED BY <2>2, <2>3
<1> QED BY <1>1, <1>2, BaseStep, PTL DEF WorkerSpec

\* The inductive invariant of the workers, if a renewal period is shorter than
\* a lease, as the default of a third is.
THEOREM WorkerSafe ==
  ASSUME RenewMs < LeaseMs
  PROVE  WorkerSpec => []WorkerInv
  BY WorkerInitInv, WorkerStep, PTL DEF WorkerSpec

\* While renewals are on time and stop() cuts no handler off, no two handlers
\* run the same job.
THEOREM OneHandler ==
  ASSUME RenewMs < LeaseMs
  PROVE  WorkerSpec => []OneHandlerPerJob
<1>1. WorkerInv => OneHandlerPerJob
  BY HoldersAgree DEF WorkerInv, BaseInv, CutsAreSeen, LeasesAreHeld, OneHandlerPerJob
<1> QED BY <1>1, WorkerSafe, PTL

\* A run that is told that its work counts is the only one that is, and, under
\* the same conditions, of the newest attempt.
THEOREM CommitsSound ==
  ASSUME RenewMs < LeaseMs
  PROVE  WorkerSpec => []CommitsAreSound
<1>1. WorkerInv => WorkerTypeOK /\ CommitIsCurrent
  BY DEF WorkerInv, BaseInv
<1>2. WorkerTypeOK /\ CommitIsCurrent /\ CompletedMeansCommittedOnce => CommitsAreSound
  BY DEF CommitsAreSound
<1> QED BY <1>1, <1>2, WorkerSafe, CompletedOnce, PTL

\* While renewals are on time no worker holds a lease it does not know of, and
\* none holds one after stop() has returned, but that of a handler still running.
THEOREM LeasesAccounted ==
  ASSUME RenewMs < LeaseMs
  PROVE  WorkerSpec => []LeasesAreAccountedFor
<1>1. WorkerInv => LeasesAreAccountedFor
  BY DEF WorkerInv, LeasesAreListed, LeasesAreAccountedFor
<1> QED BY <1>1, WorkerSafe, PTL
-----------------------------------------------------------------------------
(* The maintenance schedulers, the other users of the ledger: for every    *)
(* finite number of them and every set of jobs and workers.                *)

\* The schedulers that have found the ledger idle and have yet to insert.
Deciding == {s \in Schedulers : deciding[s]}

\* Those that can make no more jobs for the present interval.
Served == {s \in Schedulers : ~fresh[s] /\ ~(deciding[s] /\ ~late[s])}

SchedTypeOK == /\ fresh \in [Schedulers -> BOOLEAN]
               /\ deciding \in [Schedulers -> BOOLEAN]
               /\ late \in [Schedulers -> BOOLEAN]
               /\ made \in Nat

\* A scheduler that is deciding has used up the interval it decides for: the
\* present one unless that began in the meantime.
DecidingIsServed == \A s \in Schedulers : deciding[s] => (fresh[s] <=> late[s])

\* A scheduler decides only on an idle ledger, so that whatever is outstanding
\* was put there by others that decided at the same time.
RoomForAll == /\ IsFiniteSet(Open)
              /\ Cardinality(Open) + Cardinality(Deciding) <= Cardinality(Schedulers)

\* Every job made for the interval has used up one scheduler's turn.
MadeByServed == made <= Cardinality(Served)

\* The inductive invariant.
SchedInv == /\ LedgerInv /\ SchedTypeOK
            /\ DecidingIsServed /\ RoomForAll /\ MadeByServed
-----------------------------------------------------------------------------
\* The sets of schedulers are finite, and no larger than all of them.
LEMMA SchedulerSets ==
  ASSUME NEW T \in SUBSET Schedulers
  PROVE  /\ IsFiniteSet(T)
         /\ Cardinality(T) \in Nat /\ Cardinality(Schedulers) \in Nat
         /\ Cardinality(T) <= Cardinality(Schedulers)
  BY SchedulerAssumption, FS_Subset, FS_CardinalityType

\* Every step of the schedulers and of the workers they share the ledger with
\* is one statement of the ledger, or none.
LEMMA SchedStepIsLedgerStep == [SchedNext]_schedulerVars => [Next]_ledgerVars
<1>1. 0 \in Delays
  BY TimesAssumption
<1> QED
  BY <1>1 DEF SchedNext, SchedStep, ReadStats, Insert, InsertFails, NextInterval,
     Take, End, ReclaimDue, Elapse, Next, ledgerVars, schedulerVars

\* Only an insert adds to what is outstanding.
LEMMA OpenShrinks ==
  ASSUME LedgerInv,
         \/ \E w \in Owners : Take(w) \/ End(w)
         \/ ReclaimDue \/ Elapse
  PROVE  Open' \subseteq Open
<1> SUFFICES ASSUME NEW j \in Jobs, jobs'[j].state \in {"queued", "running", "retrying"}
             PROVE  jobs[j].state \in {"queued", "running", "retrying"}
  BY DEF Open
<1>1. ASSUME NEW w \in Owners, NEW i \in Jobs, Claim(w, i)
      PROVE  jobs[j].state \in {"queued", "running", "retrying"}
  BY <1>1, ClaimEffect
<1>2. ASSUME NEW w \in Owners, NEW i \in Jobs, Complete(i, w) \/ Fail(i, w, 0)
      PROVE  jobs[j].state \in {"queued", "running", "retrying"}
  <2>1. 0 \in Delays
    BY TimesAssumption
  <2> QED BY <1>2, <2>1, CompleteEffect, FailEffect
<1>3. ASSUME ReclaimExpired
      PROVE  jobs[j].state \in {"queued", "running", "retrying"}
  BY <1>3, ReclaimEffect
<1>4. ASSUME Tick
      PROVE  jobs[j].state \in {"queued", "running", "retrying"}
  BY <1>4, TickEffect
<1> QED BY <1>1, <1>2, <1>3, <1>4 DEF Take, End, ReclaimDue, Elapse

\* Nothing is outstanding and nobody has decided anything at first.
LEMMA SchedInitInv == SchedInit => SchedInv
<1> SUFFICES ASSUME SchedInit
             PROVE  SchedInv
  OBVIOUS
<1>1. LedgerInv /\ SchedTypeOK /\ DecidingIsServed
  BY InitInv DEF SchedInit, SchedTypeOK, DecidingIsServed
<1>2. Open = {} /\ Deciding = {}
  BY DEF SchedInit, Init, NoRow, Open, Deciding
<1>3. RoomForAll
  BY <1>2, FS_EmptySet, SchedulerSets DEF RoomForAll
<1>4. MadeByServed
  <2>1. Served \in SUBSET Schedulers /\ made = 0
    BY DEF Served, SchedInit
  <2> QED BY <2>1, SchedulerSets DEF MadeByServed
<1> QED BY <1>1, <1>3, <1>4 DEF SchedInv

\* Every step keeps the invariant.
LEMMA SchedStepInv == SchedInv /\ [SchedNext]_schedulerVars => SchedInv'
<1> SUFFICES ASSUME SchedInv, [SchedNext]_schedulerVars
             PROVE  SchedInv'
  OBVIOUS
<1> USE DEF SchedInv
<1>l. LedgerInv'
  BY SchedStepIsLedgerStep, StepInv
<1>f. /\ IsFiniteSet(Open) /\ Cardinality(Open) \in Nat
      /\ Deciding \in SUBSET Schedulers /\ Served \in SUBSET Schedulers
      /\ Deciding' \in SUBSET Schedulers /\ Served' \in SUBSET Schedulers
      /\ IsFiniteSet(Deciding) /\ IsFiniteSet(Served) /\ IsFiniteSet(Served')
      /\ Cardinality(Deciding) \in Nat /\ Cardinality(Deciding') \in Nat
      /\ Cardinality(Served) \in Nat /\ Cardinality(Served') \in Nat
      /\ Cardinality(Schedulers) \in Nat
      /\ Cardinality(Deciding') <= Cardinality(Schedulers)
  <2>1. /\ Deciding \in SUBSET Schedulers /\ Served \in SUBSET Schedulers
        /\ Deciding' \in SUBSET Schedulers /\ Served' \in SUBSET Schedulers
    BY DEF Deciding, Served
  <2>2. IsFiniteSet(Open) /\ Cardinality(Open) \in Nat
    BY FS_CardinalityType DEF RoomForAll
  <2> QED BY <2>1, <2>2, SchedulerSets
<1>1. ASSUME NEW s \in Schedulers, ReadStats(s)
      PROVE  SchedInv'
  <2>1. /\ fresh[s] /\ ~deciding[s]
        /\ fresh' = [fresh EXCEPT ![s] = FALSE]
        /\ deciding' = [deciding EXCEPT ![s] = (Open = {})]
        /\ late' = [late EXCEPT ![s] = FALSE]
        /\ jobs' = jobs /\ made' = made
    BY <1>1 DEF ReadStats, ledgerVars
  <2>2. SchedTypeOK' /\ DecidingIsServed'
    BY <2>1 DEF SchedTypeOK, DecidingIsServed
  <2>3. RoomForAll'
    <3>1. Open' = Open
      BY <2>1 DEF Open
    <3>2. CASE Open = {}
      BY <1>f, <3>1, <3>2, FS_EmptySet DEF RoomForAll
    <3>3. CASE Open # {}
      <4>1. Deciding' = Deciding
        BY <2>1, <3>3 DEF Deciding, SchedTypeOK
      <4> QED BY <3>1, <4>1 DEF RoomForAll
    <3> QED BY <3>2, <3>3
  <2>4. MadeByServed'
    <3>1. Served \in SUBSET Served'
      BY <2>1 DEF Served, SchedTypeOK
    <3>2. Cardinality(Served) <= Cardinality(Served')
      BY <1>f, <3>1, FS_Subset
    <3> QED BY <1>f, <2>1, <3>2 DEF MadeByServed, SchedTypeOK
  <2> QED BY <1>l, <2>2, <2>3, <2>4
<1>2. ASSUME NEW s \in Schedulers, NEW j \in Jobs, Insert(s, j)
      PROVE  SchedInv'
  <2>1. /\ deciding[s] /\ Enqueue(j, 0)
        /\ deciding' = [deciding EXCEPT ![s] = FALSE]
        /\ made' = IF late[s] THEN made ELSE made + 1
        /\ fresh' = fresh /\ late' = late
    BY <1>2 DEF Insert
  <2>2. SchedTypeOK' /\ DecidingIsServed'
    BY <2>1 DEF SchedTypeOK, DecidingIsServed
  <2>3. RoomForAll'
    <3>1. j \notin Open /\ Open' = Open \cup {j}
      BY <2>1 DEF Enqueue, Open, LedgerInv, RowsWereIssued, TypeOK, NoRow
    <3>2. IsFiniteSet(Open') /\ Cardinality(Open') = Cardinality(Open) + 1
      BY <1>f, <3>1, FS_AddElement
    <3>3. s \in Deciding /\ Deciding' = Deciding \ {s}
      BY <2>1 DEF Deciding, SchedTypeOK
    <3>4. Cardinality(Deciding') = Cardinality(Deciding) - 1
      BY <1>f, <3>3, FS_RemoveElement
    <3> QED BY <1>f, <3>2, <3>4 DEF RoomForAll
  <2>4. MadeByServed'
    <3>1. CASE late[s]
      <4>1. Served' = Served
        BY <2>1, <3>1 DEF Served, SchedTypeOK, DecidingIsServed
      <4> QED BY <2>1, <3>1, <4>1 DEF MadeByServed
    <3>2. CASE ~late[s]
      <4>1. s \notin Served /\ Served' = Served \cup {s}
        BY <2>1, <3>2 DEF Served, SchedTypeOK, DecidingIsServed
      <4>2. Cardinality(Served') = Cardinality(Served) + 1
        BY <1>f, <4>1, FS_AddElement
      <4> QED BY <1>f, <2>1, <3>2, <4>2 DEF MadeByServed, SchedTypeOK
    <3> QED BY <3>1, <3>2
  <2> QED BY <1>l, <2>2, <2>3, <2>4
<1>3. ASSUME NEW s \in Schedulers, InsertFails(s)
      PROVE  SchedInv'
  <2>1. /\ deciding[s]
        /\ deciding' = [deciding EXCEPT ![s] = FALSE]
        /\ fresh' = [fresh EXCEPT ![s] = TRUE]
        /\ jobs' = jobs /\ late' = late /\ made' = made
    BY <1>3 DEF InsertFails, ledgerVars
  <2>2. SchedTypeOK' /\ DecidingIsServed'
    BY <2>1 DEF SchedTypeOK, DecidingIsServed
  <2>3. RoomForAll'
    <3>1. Open' = Open
      BY <2>1 DEF Open
    <3>2. Deciding' \in SUBSET Deciding
      BY <2>1 DEF Deciding, SchedTypeOK
    <3>3. Cardinality(Deciding') <= Cardinality(Deciding)
      BY <1>f, <3>2, FS_Subset
    <3> QED BY <1>f, <3>1, <3>3 DEF RoomForAll
  <2>4. MadeByServed'
    <3>1. Served' = Served
      BY <2>1 DEF Served, SchedTypeOK, DecidingIsServed
    <3> QED BY <2>1, <3>1 DEF MadeByServed
  <2> QED BY <1>l, <2>2, <2>3, <2>4
<1>4. ASSUME NextInterval
      PROVE  SchedInv'
  <2>1. /\ fresh' = [s \in Schedulers |-> TRUE]
        /\ late' = deciding /\ made' = 0
        /\ jobs' = jobs /\ deciding' = deciding
    BY <1>4 DEF NextInterval, ledgerVars
  <2>2. SchedTypeOK' /\ DecidingIsServed'
    BY <2>1 DEF SchedTypeOK, DecidingIsServed
  <2>3. Open' = Open /\ Deciding' = Deciding
    BY <2>1 DEF Open, Deciding
  <2>4. MadeByServed'
    BY <1>f, <2>1 DEF MadeByServed
  <2> QED BY <1>l, <2>2, <2>3, <2>4 DEF RoomForAll
<1>5. ASSUME UNCHANGED schedVars, Open' \subseteq Open
      PROVE  SchedInv'
  <2>1. SchedTypeOK' /\ DecidingIsServed'
    BY <1>5 DEF SchedTypeOK, DecidingIsServed, schedVars
  <2>2. Deciding' = Deciding /\ Served' = Served /\ made' = made
    BY <1>5 DEF Deciding, Served, schedVars
  <2>3. /\ IsFiniteSet(Open') /\ Cardinality(Open') \in Nat
        /\ Cardinality(Open') <= Cardinality(Open)
    BY <1>f, <1>5, FS_Subset, FS_CardinalityType
  <2> QED BY <1>f, <1>l, <2>1, <2>2, <2>3 DEF RoomForAll, MadeByServed
<1>6. ASSUME (\E w \in Owners : Take(w) \/ End(w)) \/ ReclaimDue \/ Elapse
      PROVE  SchedInv'
  <2>1. UNCHANGED schedVars
    BY <1>6 DEF Take, End, ReclaimDue, Elapse
  <2> QED BY <1>5, <1>6, <2>1, OpenShrinks
<1>7. ASSUME UNCHANGED schedulerVars
      PROVE  SchedInv'
  BY <1>5, <1>7 DEF schedulerVars, schedVars, Open
<1> QED
  BY <1>1, <1>2, <1>3, <1>4, <1>6, <1>7 DEF SchedNext, SchedStep
-----------------------------------------------------------------------------
\* The inductive invariant holds in every state of every run.
THEOREM SchedSafe == SchedSpec => []SchedInv
  BY SchedInitInv, SchedStepInv, PTL DEF SchedSpec

\* However many schedulers race and however late or unlucky their inserts are,
\* neither the jobs made in an interval nor those outstanding exceed the number
\* of schedulers.
THEOREM SchedulingBounded == SchedSpec => []SchedulingIsBounded
<1>1. SchedInv => SchedulingIsBounded
  <2> SUFFICES ASSUME SchedInv
               PROVE  SchedulingIsBounded
    OBVIOUS
  <2>1. Served \in SUBSET Schedulers /\ Deciding \in SUBSET Schedulers
    BY DEF Served, Deciding
  <2>2. made <= Cardinality(Schedulers)
    BY <2>1, SchedulerSets DEF SchedInv, SchedTypeOK, MadeByServed
  <2>3. Cardinality(Open) <= Cardinality(Schedulers)
    <3>1. Cardinality(Open) \in Nat
      BY FS_CardinalityType DEF SchedInv, RoomForAll
    <3> QED BY <2>1, <3>1, SchedulerSets DEF SchedInv, RoomForAll
  <2> QED BY <2>2, <2>3 DEF SchedulingIsBounded, OneJobEachPerInterval, BacklogIsBounded
<1> QED BY <1>1, SchedSafe, PTL

\* What is proved of the ledger holds of it in the hands of the schedulers.
THEOREM SchedulersUseLedger == SchedSpec => Spec
<1>1. SchedInit => Init
  BY DEF SchedInit
<1> QED BY <1>1, SchedStepIsLedgerStep, PTL DEF SchedSpec, Spec
=============================================================================
