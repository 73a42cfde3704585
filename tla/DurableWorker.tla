--------------------------- MODULE DurableWorker ----------------------------
(***************************************************************************)
(* DurableWorker (src/durable-worker.ts): worker processes that claim jobs *)
(* from the shared ledger, run them under a renewed lease and settle them. *)
(*                                                                         *)
(* A worker is one Node process, named by its lease owner.  A step is one  *)
(* turn of its event loop, in which the SQL statement it issues runs       *)
(* synchronously; the steps of different processes interleave freely.      *)
(***************************************************************************)
EXTENDS JobLedger

CONSTANTS Concurrency,   \* the most jobs a worker wants in flight
          RenewMs,       \* the period of a run's lease renewal
          Sweeper,       \* TRUE: the host calls reclaimExpired(); src/ nowhere does
          StoreErrors,   \* TRUE: a ledger statement may throw
          Mortal,        \* the workers whose process may die
          Stoppable      \* the workers on which stop() may be called

ASSUME WorkerAssumption == /\ Concurrency \in Nat \ {0}
                           /\ RenewMs \in Nat \ {0}
                           /\ Sweeper \in BOOLEAN /\ StoreErrors \in BOOLEAN
                           /\ Mortal \subseteq Owners /\ Stoppable \subseteq Owners

VARIABLES mode,          \* up: running; then what stop() or a crash made of it
          pump,          \* where the worker's pump() loop is
          inFlight,      \* the Map jobId -> run, as pairs <<job, attempt>>
          releasing,     \* the entries stop() has still to release
          runs,          \* the handler calls in progress
          commits,       \* history: the runs whose complete() returned true
          smooth,        \* history: no renewal was late, no statement threw
          cut            \* history: stop() gave up on a handler that was running

history == <<commits, smooth, cut>>
workerVars == <<mode, pump, inFlight, releasing, runs, commits, smooth, cut>>
vars == <<jobs, issued, stamp, mode, pump, inFlight, releasing, runs,
          commits, smooth, cut>>
-----------------------------------------------------------------------------
Modes == {"up", "draining", "releasing", "stopped", "crashed"}

\* loop: between awaits.  spin: full, and looping without an await.  wait: the
\* poll timer is set.  orphan: stop() cleared the timer that pump() awaits.
PumpStates == {"loop", "spin", "wait", "orphan"}

Run == [job : Jobs, attempt : Nat, worker : Owners,
        lost : BOOLEAN,  \* lostLease, on which the abort signal is raised too
        timer : BOOLEAN, \* the renewal interval is installed
        due : 0..RenewMs]

WorkerInit == /\ Init
              /\ mode = [w \in Owners |-> "up"]
              /\ pump = [w \in Owners |-> "loop"]
              /\ inFlight = [w \in Owners |-> {}]
              /\ releasing = [w \in Owners |-> {}]
              /\ runs = {}
              /\ commits = {} /\ smooth = TRUE /\ cut = FALSE

\* A spinning event loop runs no timer, no continuation and no signal handler.
Alive(w) == mode[w] # "crashed" /\ pump[w] # "spin"

\* Map.set and Map.delete go by job id, whichever attempt the entry is for.
Without(w, j) == {e \in inFlight[w] : e[1] # j}
-----------------------------------------------------------------------------
\* A client or a scheduler submits work.
Submit(j) == Enqueue(j, 0) /\ UNCHANGED workerVars

\* pump(): claimOne(), then run() up to the handler's first await.  When that
\* fills the window the outer loop comes round with nothing left to await.
PumpClaim(w, j) ==
    /\ mode[w] = "up" /\ pump[w] = "loop"
    /\ Cardinality(inFlight[w]) < Concurrency
    /\ Claim(w, j)
    /\ LET a == jobs[j].attempt + 1 IN
       /\ inFlight' = [inFlight EXCEPT ![w] = Without(w, j) \cup {<<j, a>>}]
       /\ runs' = runs \cup {[job |-> j, attempt |-> a, worker |-> w,
                              lost |-> FALSE, timer |-> TRUE, due |-> RenewMs]}
    /\ pump' = [pump EXCEPT ![w] = IF Cardinality(inFlight'[w]) >= Concurrency
                                   THEN "spin" ELSE "loop"]
    /\ UNCHANGED <<mode, releasing, history>>

\* Nothing to claim, or claim() threw and was logged: wait for the poll timer.
PumpIdle(w) ==
    /\ mode[w] = "up" /\ pump[w] = "loop"
    /\ Claimable(w) = {} \/ StoreErrors
    /\ pump' = [pump EXCEPT ![w] = "wait"]
    /\ UNCHANGED <<ledgerVars, mode, inFlight, releasing, runs, history>>

PollTimer(w) ==
    /\ mode[w] = "up" /\ pump[w] = "wait"
    /\ pump' = [pump EXCEPT ![w] = "loop"]
    /\ UNCHANGED <<ledgerVars, mode, inFlight, releasing, runs, history>>
-----------------------------------------------------------------------------
Replace(r, s) == runs' = (runs \ {r}) \cup {s}

\* The renewal interval of a run: extend the lease, or learn that it is lost.
RenewTick(r) ==
    LET w == r.worker
        again == [r EXCEPT !.due = RenewMs]
        held == jobs[r.job].leaseOwner = w /\ jobs[r.job].lease > 0
    IN  /\ Alive(w) /\ pump[w] # "loop"
        /\ r.timer /\ r.due = 0
        /\ \/ Renew(r.job, w) /\ Replace(r, again) /\ UNCHANGED smooth
           \/ /\ ~held \/ StoreErrors
              /\ Replace(r, [again EXCEPT !.lost = TRUE])
              /\ smooth' = (smooth /\ ~held)
              /\ UNCHANGED ledgerVars
        /\ UNCHANGED <<mode, pump, inFlight, releasing, commits, cut>>

\* The finally block: the interval is cleared and the entry of the job goes.
\* pump() is called again, and returns: the first pump() has never ended.
Settles(r) ==
    /\ runs' = runs \ {r}
    /\ inFlight' = [inFlight EXCEPT ![r.worker] = Without(r.worker, r.job)]
    /\ UNCHANGED <<mode, pump, releasing, cut>>

Owns(r) == jobs[r.job].leaseOwner = r.worker

\* store.fail() as run() and stop() call it: refused without a lease, and an
\* exception is swallowed.
TryFail(j, w) == \/ Fail(j, w, 0) /\ UNCHANGED smooth
                 \/ jobs[j].leaseOwner # w /\ UNCHANGED <<ledgerVars, smooth>>
                 \/ StoreErrors /\ smooth' = FALSE /\ UNCHANGED ledgerVars

MutHandlerReturns(r) ==  \* completes without looking whether the lease was lost
    /\ Alive(r.worker)
    /\ \/ Complete(r.job, r.worker) /\ commits' = commits \cup {<<r.job, r.attempt>>}
       \/ ~Owns(r) /\ UNCHANGED ledgerVars /\ commits' = commits \cup {<<r.job, r.attempt>>}
    /\ UNCHANGED smooth
    /\ Settles(r)

\* The handler ends well.  A lost run reports lease_lost and touches nothing;
\* otherwise complete() decides, and if it throws the run fails instead.
HandlerReturns(r) ==
    /\ Alive(r.worker)
    /\ \/ r.lost /\ UNCHANGED <<ledgerVars, commits, smooth>>
       \/ /\ ~r.lost
          /\ Complete(r.job, r.worker)
          /\ commits' = commits \cup {<<r.job, r.attempt>>}
          /\ UNCHANGED smooth
       \/ ~r.lost /\ ~Owns(r) /\ UNCHANGED <<ledgerVars, commits, smooth>>
       \/ ~r.lost /\ StoreErrors /\ TryFail(r.job, r.worker) /\ UNCHANGED commits
    /\ Settles(r)

MutHandlerThrows(r) ==   \* the entry is deleted, the job is not failed
    /\ Alive(r.worker)
    /\ Settles(r)
    /\ UNCHANGED <<ledgerVars, commits, smooth>>

\* The handler throws, of itself or because it was aborted.
HandlerThrows(r) ==
    /\ Alive(r.worker)
    /\ TryFail(r.job, r.worker)
    /\ Settles(r)
    /\ UNCHANGED commits
-----------------------------------------------------------------------------
\* stop(), called from a signal handler or a host, never inside the loop.
Stop(w) ==
    /\ w \in Stoppable
    /\ mode[w] = "up" /\ pump[w] = "wait"
    /\ mode' = [mode EXCEPT ![w] = "draining"]
    /\ pump' = [pump EXCEPT ![w] = "orphan"]
    /\ UNCHANGED <<ledgerVars, inFlight, releasing, runs, history>>

\* The drain ends: nothing is in flight, or the deadline has passed.
StopDrained(w) ==
    /\ mode[w] = "draining"
    /\ releasing' = [releasing EXCEPT ![w] = inFlight[w]]
    /\ mode' = [mode EXCEPT ![w] = IF inFlight[w] = {} THEN "stopped" ELSE "releasing"]
    /\ UNCHANGED <<ledgerVars, pump, inFlight, runs, history>>

Quiet(e) == {IF r.job = e[1] /\ r.attempt = e[2] THEN [r EXCEPT !.timer = FALSE] ELSE r
               : r \in runs}

\* An entry still in flight: its interval is cleared, the handler is left
\* running, and its lease is given up by way of fail().
StopRelease(w, e) ==
    /\ mode[w] = "releasing" /\ e \in releasing[w]
    /\ releasing' = [releasing EXCEPT ![w] = @ \ {e}]
    /\ mode' = [mode EXCEPT ![w] = IF releasing'[w] = {} THEN "stopped" ELSE "releasing"]
    /\ inFlight' = [inFlight EXCEPT ![w] = Without(w, e[1])]
    /\ runs' = Quiet(e)
    /\ TryFail(e[1], w)
    /\ cut' = (cut \/ \E r \in runs : r.job = e[1] /\ r.worker = w)
    /\ UNCHANGED <<pump, commits>>

\* The process dies; its handlers, timers and Map die with it.
Crash(w) ==
    /\ w \in Mortal /\ mode[w] # "crashed"
    /\ mode' = [mode EXCEPT ![w] = "crashed"]
    /\ runs' = {r \in runs : r.worker # w}
    /\ inFlight' = [inFlight EXCEPT ![w] = {}]
    /\ releasing' = [releasing EXCEPT ![w] = {}]
    /\ UNCHANGED <<ledgerVars, pump, history>>
-----------------------------------------------------------------------------
Sweep == Sweeper /\ ReclaimExpired /\ UNCHANGED workerVars

\* A renewal is due and the event loop has not come to it.
Late(r) == r.timer /\ r.due = 0

Time == /\ Tick
        /\ smooth' = (smooth /\ \A r \in runs : ~Late(r))
        /\ runs' = {[r EXCEPT !.due = IF @ > 0 THEN @ - 1 ELSE 0] : r \in runs}
        /\ UNCHANGED <<mode, pump, inFlight, releasing, commits, cut>>

PumpStep(w) == PollTimer(w) \/ PumpIdle(w) \/ (\E j \in Jobs : PumpClaim(w, j))

StopStep(w) == StopDrained(w) \/ (\E e \in releasing[w] : StopRelease(w, e))

HandlerStep(w) == \E r \in runs : /\ r.worker = w
                                  /\ HandlerReturns(r) \/ HandlerThrows(r)

WorkerNext == \/ \E j \in Jobs : Submit(j)
              \/ \E w \in Owners : \/ PumpStep(w) \/ HandlerStep(w)
                                   \/ Stop(w) \/ StopStep(w) \/ Crash(w)
              \/ \E r \in runs : RenewTick(r)
              \/ Sweep
              \/ Time

WorkerSpec == WorkerInit /\ [][WorkerNext]_vars

\* The event loop of a live process comes round, handlers end and time passes.
\* Nothing says that renewals are on time, that stop() is called, that a process
\* lives or that anybody sweeps.
Fairness == /\ \A w \in Owners : /\ WF_vars(PumpStep(w))
                                 /\ WF_vars(StopStep(w))
                                 /\ WF_vars(HandlerStep(w))
            /\ WF_vars(Time)

FairSpec == WorkerSpec /\ Fairness
-----------------------------------------------------------------------------
WorkerTypeOK == /\ TypeOK
                /\ mode \in [Owners -> Modes]
                /\ pump \in [Owners -> PumpStates]
                /\ inFlight \in [Owners -> SUBSET (Jobs \X Nat)]
                /\ releasing \in [Owners -> SUBSET (Jobs \X Nat)]
                /\ runs \subseteq Run
                /\ commits \subseteq Jobs \X Nat
                /\ smooth \in BOOLEAN /\ cut \in BOOLEAN

\* One job, one handler: as long as renewals are on time and stop() cuts no
\* handler off, no other worker, and no other run of the same worker, executes
\* the job while a handler runs.  Crashes and sweeps do not change that.
OneHandlerPerJob ==
    smooth /\ ~cut => \A r, s \in runs : r.job = s.job => r = s

\* Under the same conditions only the newest attempt at a job commits it:
\* complete() of a run whose job has been claimed again returns false.
CommitIsCurrent ==
    smooth /\ ~cut => \A c \in commits : jobs[c[1]].attempt = c[2]

\* The ledger says completed exactly when one run was told that its work
\* counts; no other run of that job, before or after, is told the same.
CompletedMeansCommittedOnce ==
    \A j \in Jobs :
       LET told == {c \in commits : c[1] = j}
       IN  /\ Cardinality(told) <= 1
           /\ jobs[j].state = "completed" <=> told # {}

\* What a run that is told that its work counts may rely on.
CommitsAreSound == WorkerTypeOK /\ CommitIsCurrent /\ CompletedMeansCommittedOnce

\* A worker that is up knows of every lease it holds, so that it is renewed or
\* settled; one whose stop() has returned holds none, unless it be that of a
\* handler that still runs.  (stop() gives up that one too, where its comment has
\* it kept until it expires: this holds either way.)
LeasesAreAccountedFor ==
    smooth => \A j \in Jobs, w \in Owners :
       jobs[j].leaseOwner = w =>
          /\ mode[w] \in {"up", "draining"} => <<j, jobs[j].attempt>> \in inFlight[w]
          /\ mode[w] = "stopped" => \E r \in runs : r.job = j /\ r.worker = w

\* A worker that is saturated runs on: one of its jobs completes, whereupon
\* the window has room again.
SaturationEnds ==
    \A w \in Owners : (Cardinality(inFlight[w]) >= Concurrency)
                          ~> (Cardinality(inFlight[w]) < Concurrency)

\* Every job that was submitted is settled in the end, whatever worker dies: a
\* lease that has run out goes back to the others, as the comment of the ledger
\* says.  Without a sweep the row stays as it is.
EveryJobSettles ==
    \A j \in Jobs : j \in issued ~> jobs[j].state \in Terminal
=============================================================================
