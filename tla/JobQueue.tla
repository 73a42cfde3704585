------------------------------ MODULE JobQueue ------------------------------
(***************************************************************************)
(* JobQueue (src/job-queue.ts): the bounded in-process queue of background *)
(* work.  Everything between two awaits is one step.  A job whose result   *)
(* is settled still occupies its slot until the finally callback of        *)
(* execute() runs, and other callbacks may run before that.                *)
(***************************************************************************)
EXTENDS Naturals, Sequences, FiniteSets, SequencesExt

CONSTANTS Jobs,          \* the jobs that callers submit, each once
          Waiters,       \* the calls of drain()
          Concurrency, MaxQueue, MaxAttempts

\* What the constants are assumed to be.
QueueAssumption == /\ Concurrency \in Nat \ {0}
                   /\ MaxQueue \in Nat \ {0}
                   /\ MaxAttempts \in Nat \ {0}

VARIABLES queue,         \* the jobs waiting for a slot, in order
          running,       \* the jobs that occupy a slot
          phase,         \* how far each job is
          attempt,       \* job.attempts
          aborted,       \* the jobs whose AbortSignal was raised
          closed,
          waiter         \* what has become of each drain()

vars == <<queue, running, phase, attempt, aborted, closed, waiter>>

Outcomes == {"completed", "failed", "cancelled"}
Phases == {"new", "refused", "queued", "handler", "backoff"} \cup Outcomes

Init == /\ queue = <<>>
        /\ running = {}
        /\ phase = [j \in Jobs |-> "new"]
        /\ attempt = [j \in Jobs |-> 0]
        /\ aborted = {}
        /\ closed = FALSE
        /\ waiter = [d \in Waiters |-> "idle"]
-----------------------------------------------------------------------------
\* How many jobs pump() moves from queue q into the slots that r leaves free.
Taken(q, r) == LET free == Concurrency - Cardinality(r)
               IN  IF Len(q) < free THEN Len(q) ELSE free

\* pump() on queue q and slots r, with the state of the jobs as in ph: the
\* jobs at the head start their first attempt.  Then notifyDrain().
Pump(q, r, ph) ==
    LET n == IF closed THEN 0 ELSE Taken(q, r)
        start == ToSet(SubSeq(q, 1, n))
    IN  /\ queue' = SubSeq(q, n + 1, Len(q))
        /\ running' = r \cup start
        /\ phase' = [j \in Jobs |-> IF j \in start THEN "handler" ELSE ph[j]]
        /\ attempt' = [j \in Jobs |-> IF j \in start THEN 1 ELSE attempt[j]]

\* notifyDrain(): resolve every waiter once nothing is queued or running.
NotifyDrain ==
    waiter' = [d \in Waiters |-> IF waiter[d] = "waiting" /\ queue' = <<>> /\ running' = {}
                                 THEN "done" ELSE waiter[d]]

\* enqueue(): QUEUE_CLOSED, QUEUE_FULL, or the job is accepted.
Enqueue(j) ==
    /\ phase[j] = "new"
    /\ \/ /\ closed \/ Len(queue) >= MaxQueue
          /\ phase' = [phase EXCEPT ![j] = "refused"]
          /\ UNCHANGED <<queue, running, attempt, waiter>>
       \/ /\ ~closed /\ Len(queue) < MaxQueue
          /\ Pump(Append(queue, j), running, [phase EXCEPT ![j] = "queued"])
          /\ NotifyDrain
    /\ UNCHANGED <<aborted, closed>>

Settle(j, outcome) == /\ phase' = [phase EXCEPT ![j] = outcome]
                      /\ UNCHANGED attempt

HandlerReturns(j) ==
    /\ phase[j] = "handler"
    /\ Settle(j, IF j \in aborted THEN "cancelled" ELSE "completed")
    /\ UNCHANGED <<queue, running, aborted, closed, waiter>>

HandlerThrows(j) ==
    /\ phase[j] = "handler"
    /\ \/ j \in aborted /\ Settle(j, "cancelled")
       \/ j \notin aborted /\ attempt[j] >= MaxAttempts /\ Settle(j, "failed")
       \/ /\ j \notin aborted /\ attempt[j] < MaxAttempts
          /\ phase' = [phase EXCEPT ![j] = "backoff"]
          /\ UNCHANGED attempt
    /\ UNCHANGED <<queue, running, aborted, closed, waiter>>

\* waitForRetry() is over: its timer fired, or the job was aborted.
Retry(j) ==
    /\ phase[j] = "backoff"
    /\ \/ j \in aborted /\ Settle(j, "cancelled")
       \/ /\ j \notin aborted
          /\ phase' = [phase EXCEPT ![j] = "handler"]
          /\ attempt' = [attempt EXCEPT ![j] = @ + 1]
    /\ UNCHANGED <<queue, running, aborted, closed, waiter>>

MutFinally(j) ==         \* the slot is freed, but nobody pumps
    /\ j \in running /\ phase[j] \in Outcomes
    /\ running' = running \ {j}
    /\ UNCHANGED <<queue, phase, attempt, aborted, closed>>
    /\ NotifyDrain

\* The finally callback of execute(): the slot is free again.
Finally(j) ==
    /\ j \in running /\ phase[j] \in Outcomes
    /\ Pump(queue, running \ {j}, phase)
    /\ NotifyDrain
    /\ UNCHANGED <<aborted, closed>>

\* drain(): done at once when there is nothing, else it waits.
Drain(d) ==
    /\ waiter[d] = "idle"
    /\ waiter' = [waiter EXCEPT ![d] = IF queue = <<>> /\ running = {}
                                       THEN "done" ELSE "waiting"]
    /\ UNCHANGED <<queue, running, phase, attempt, aborted, closed>>

\* shutdown(): queued jobs are cancelled, running ones are told to stop.  It
\* then awaits drain(), as any of the waiters may.
Shutdown ==
    /\ ~closed
    /\ closed' = TRUE
    /\ queue' = <<>>
    /\ phase' = [j \in Jobs |-> IF j \in ToSet(queue) THEN "cancelled" ELSE phase[j]]
    /\ aborted' = aborted \cup ToSet(queue) \cup running
    /\ UNCHANGED <<running, attempt, waiter>>

Next == \/ \E j \in Jobs : \/ Enqueue(j) \/ HandlerReturns(j) \/ HandlerThrows(j)
                           \/ Retry(j) \/ Finally(j)
        \/ \E d \in Waiters : Drain(d)
        \/ Shutdown

Spec == Init /\ [][Next]_vars
-----------------------------------------------------------------------------
TypeOK == /\ queue \in Seq(Jobs)
          /\ running \subseteq Jobs /\ aborted \subseteq Jobs
          /\ phase \in [Jobs -> Phases]
          /\ attempt \in [Jobs -> 0..MaxAttempts]
          /\ closed \in BOOLEAN
          /\ waiter \in [Waiters -> {"idle", "waiting", "done"}]
=============================================================================
