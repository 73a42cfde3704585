--------------------------- MODULE ServerProcess ----------------------------
(***************************************************************************)
(* A server process: the shutdown sequence (Shutdown) and the queue of     *)
(* background jobs (JobQueue) that its stop-jobs phase shuts down and waits *)
(* for (shutdownBackgroundJobs in src/service.ts).                         *)
(***************************************************************************)
EXTENDS Shutdown, FiniteSets

CONSTANTS Jobs, Waiters, Concurrency, MaxQueue, MaxAttempts,
          Hanging        \* the jobs whose handler need never end

VARIABLES queue, running, phase, attempt, aborted, closed, waiter

Q == INSTANCE JobQueue

ASSUME ProcessAssumption == /\ ShutdownAssumption /\ Q!QueueAssumption
                            /\ Hanging \subseteq Jobs

queueVars   == <<queue, running, phase, attempt, aborted, closed, waiter>>
processVars == <<at, status, active, left, serverLeft, busy, signalled, exit,
                 queue, running, phase, attempt, aborted, closed, waiter>>

ProcessInit == Init /\ Q!Init

\* jobs.shutdown() has got what it waits for.
JobsDrained == queue = <<>> /\ running = {}

InStopJobs == at \in 1..Len(Phases) /\ Current = "stop-jobs"

\* Jobs are submitted, run and waited for until the process is gone.
JobStep(j) == /\ exit = "none"
              /\ Q!Enqueue(j) \/ Q!Retry(j) \/ Q!Finally(j)
              /\ UNCHANGED vars

HandlerEnds(j) == /\ exit = "none"
                  /\ Q!HandlerReturns(j) \/ Q!HandlerThrows(j)
                  /\ UNCHANGED vars

Await(d) == /\ exit = "none"
            /\ Q!Drain(d)
            /\ UNCHANGED vars

\* stop-jobs starts: the queue is closed in the same turn.
StopJobs == /\ InStopJobs
            /\ Start
            /\ Q!Shutdown

\* stop-jobs settles once the queue has drained.
JobsStopped == /\ InStopJobs
               /\ JobsDrained
               /\ Settle
               /\ UNCHANGED queueVars

\* The steps the coordinator takes of itself, and those it waits for.
SequenceStep == /\ Skip \/ Timeout \/ Exit \/ GiveUp \/ (~InStopJobs /\ Start)
                /\ UNCHANGED queueVars

OtherStep == /\ \/ Signal \/ WorkEnds \/ (~InStopJobs /\ Settle)
                \/ LateEnd /\ ("stop-jobs" \in active \ active' => JobsDrained)
             /\ UNCHANGED queueVars

Time == Tick /\ UNCHANGED queueVars

ProcessNext == \/ \E j \in Jobs : JobStep(j) \/ HandlerEnds(j)
               \/ \E d \in Waiters : Await(d)
               \/ StopJobs \/ JobsStopped \/ SequenceStep \/ OtherStep \/ Time

ProcessSpec == ProcessInit /\ [][ProcessNext]_processVars

\* The event loop turns and time passes.  Handlers end, even those that ignore
\* the abort, unless they hang; nothing makes a request or any other phase end.
Fairness == /\ WF_processVars(SequenceStep) /\ WF_processVars(StopJobs)
            /\ WF_processVars(Time)
            /\ \A j \in Jobs : WF_processVars(JobStep(j))
            /\ \A j \in Jobs \ Hanging : WF_processVars(HandlerEnds(j))

FairSpec == ProcessSpec /\ Fairness
-----------------------------------------------------------------------------
ProcessTypeOK == TypeOK /\ Q!TypeOK

\* No slot is idle while a job waits: a completion that raced a submission
\* does not leave work behind that nobody will pick up.
NoIdleSlot == queue # <<>> => ~closed /\ Cardinality(running) = Concurrency

\* A job's result is settled once, and a job that was aborted never reports
\* success afterwards, even if its handler ignored the signal.
SettledOnce ==
    [][\A j \in Jobs : /\ phase[j] \in Q!Outcomes => phase'[j] = phase[j]
                       /\ j \in aborted => phase'[j] \in {phase[j], "cancelled"}]_processVars

\* Every job that was accepted and does not hang gets its result, unless the
\* process is gone first or jobs that hang have taken every slot.
EveryJobSettles == \A j \in Jobs \ Hanging :
    phase[j] \in {"queued", "handler", "backoff"}
       ~> \/ phase[j] \in Q!Outcomes \/ exit # "none"
          \/ Cardinality(running \cap Hanging) = Concurrency

\* Every drain() returns, unless a job hangs or the process is gone first.
DrainReturns == \A d \in Waiters :
    waiter[d] = "waiting" ~> \/ waiter[d] = "done" \/ exit # "none"
                             \/ running \cap Hanging # {}

\* A shutdown that was asked for ends, even if a phase or a job hangs for ever.
ShutdownEnds == signalled ~> exit # "none"

\* Storage is closed only after every phase before it has ended and after the
\* last background job has left its slot: not under one that timed out.
StorageIsClosedLast ==
    status["close-storage"] \in {"completed", "failed"} =>
       active \subseteq Detached /\ running = {}

\* The exit code is honest: 0 means that every phase ran to its end and that
\* every job that was accepted has its result.
CleanExitLosesNothing ==
    exit = "0" => /\ \A n \in Names : status[n] = "completed" /\ n \notin active \ Detached
                  /\ \A j \in Jobs : phase[j] \in {"new", "refused"} \cup Q!Outcomes

\* A shutdown in any state of the job queue, which leaves no slot idle, closes
\* storage last and tells the truth about it.
ShutdownIsOrderly == /\ ProcessTypeOK /\ NoIdleSlot
                     /\ StorageIsClosedLast /\ CleanExitLosesNothing

\* Every job that was accepted has one result, in the end, and everybody who
\* waits for the queue to drain is woken.
JobsGetResults == SettledOnce /\ EveryJobSettles /\ DrainReturns

\* Storage is never closed under an in-flight write.
NoCloseUnderWrite == status["close-storage"] = "completed" => ~busy
=============================================================================
