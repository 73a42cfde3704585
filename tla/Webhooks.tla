------------------------------ MODULE Webhooks ------------------------------
(***************************************************************************)
(* The webhook outbox (src/webhooks.ts): events are queued as rows of a    *)
(* database that the processes of a host share, and each process drains    *)
(* it.  A drain lists what is due once, then sends one delivery after the  *)
(* other and records each outcome; the statements of other processes, a    *)
(* restore that retires the queue, and deaths come in between.             *)
(***************************************************************************)
EXTENDS Naturals, FiniteSets

CONSTANTS Drainers,
          Deliveries,       \* one per subscription and event: webhookDeliveryId()
          Orphans,          \* those whose subscription is no longer configured
          MaxAttempts, MaxPending, BatchSize,
          MaxRetires        \* bound on restores

ASSUME WebhookAssumption ==
    /\ IsFiniteSet(Drainers) /\ Drainers # {} /\ Orphans \subseteq Deliveries
    /\ MaxAttempts \in Nat \ {0} /\ MaxPending \in Nat \ {0} /\ BatchSize \in Nat \ {0}

VARIABLES row,        \* status, attempts, and whether next_attempt_at has come
          drain,      \* of each process: what it has listed, and what it is sending
          retires,
          retired,    \* deliveries that a restore has retired
          late        \* deliveries that a drain began to send after that

webhookVars == <<row, drain, retires, retired, late>>

NoRow   == [status |-> "none", attempts |-> 0, due |-> FALSE]
Idle    == [list |-> {}, sending |-> {}, attempt |-> 0]
Pending == {d \in Deliveries : row[d].status = "pending"}
Due     == {d \in Pending : row[d].due}
Batches(S) == IF Cardinality(S) <= BatchSize THEN {S} ELSE {T \in SUBSET S : Cardinality(T) = BatchSize}

WebhookInit == /\ row = [d \in Deliveries |-> NoRow]
               /\ drain = [p \in Drainers |-> Idle]
               /\ retires = 0
               /\ retired = {} /\ late = [p \in Drainers |-> 0]

\* enqueue(): a delivery that exists is a duplicate, a full queue drops it.
Queueable(d) == row[d].status = "none" /\ Cardinality(Pending) < MaxPending

\* publish(), one subscription of the event: another process may act before
\* the next one.
Publish(d) == /\ Queueable(d)
              /\ row' = [row EXCEPT ![d] = [status |-> "pending", attempts |-> 0, due |-> TRUE]]
              /\ UNCHANGED <<drain, retires, retired, late>>

\* The retry time of a delivery comes.
Wait(d) == /\ d \in Pending \ Due
           /\ row' = [row EXCEPT ![d].due = TRUE]
           /\ UNCHANGED <<drain, retires, retired, late>>

\* recordAttempt(): refused for a delivery that is no longer pending.
MutMayRecord(d) == TRUE
MayRecord(d) == d \in Pending

Record(d, outcome, dead) ==
    row' = [row EXCEPT ![d] = [status |-> IF outcome = "delivered" THEN "delivered" ELSE IF dead THEN "dead" ELSE "pending",
                               attempts |-> row[d].attempts + 1, due |-> FALSE]]
-----------------------------------------------------------------------------
(* runDrain().  drain() joins one that runs in its process.                *)

\* prune(): whatever is terminal and has reached the retention.
Prune == \E old \in SUBSET {d \in Deliveries : row[d].status \in {"delivered", "dead"}} :
            row' = [d \in Deliveries |-> IF d \in old THEN [row[d] EXCEPT !.status = "pruned"] ELSE row[d]]

List(p) == /\ drain[p] = Idle
           /\ Prune
           /\ \E T \in Batches(Due) :
                 drain' = [drain EXCEPT ![p].list = {[d |-> d, attempts |-> row[d].attempts] : d \in T}]
           /\ late' = [late EXCEPT ![p] = 0]
           /\ UNCHANGED <<retires, retired>>

\* The number of the attempt comes from the list.
Send(p) ==
    /\ drain[p].sending = {}
    /\ \E x \in drain[p].list :
          /\ x.d \notin Orphans
          /\ drain' = [drain EXCEPT ![p] = [list |-> @.list \ {x}, sending |-> {x.d}, attempt |-> x.attempts + 1]]
          /\ late' = IF x.d \in retired THEN [late EXCEPT ![p] = @ + 1] ELSE late
    /\ UNCHANGED <<row, retires, retired>>

\* Its subscription is gone: it is given up, or the drain rejects.
SendOrphan(p) ==
    /\ drain[p].sending = {}
    /\ \E x \in drain[p].list :
          /\ x.d \in Orphans
          /\ IF MayRecord(x.d)
                THEN Record(x.d, "failed", TRUE) /\ drain' = [drain EXCEPT ![p].list = @ \ {x}]
                ELSE drain' = [drain EXCEPT ![p] = Idle] /\ UNCHANGED row
    /\ UNCHANGED <<retires, retired, late>>

\* 2xx; 408, 429, 5xx, a timeout or no answer, whether it arrived or not; any
\* other answer.
Outcomes == {"delivered", "retryable", "refused"}
Exhausted(outcome, attempt) == outcome = "refused" \/ (outcome = "retryable" /\ attempt >= MaxAttempts)

Answer(p) ==
    /\ \E d \in drain[p].sending, outcome \in Outcomes :
          IF MayRecord(d)
          THEN /\ Record(d, outcome, Exhausted(outcome, drain[p].attempt))
               /\ drain' = [drain EXCEPT ![p].sending = {}, ![p].attempt = 0]
          ELSE drain' = [drain EXCEPT ![p] = Idle] /\ UNCHANGED row
    /\ UNCHANGED <<retires, retired, late>>

\* retireQueued(), by the process that completes a restore.
RetireQueued == /\ retires < MaxRetires /\ Pending # {}
                /\ retires' = retires + 1
                /\ retired' = retired \cup Pending
                /\ row' = [d \in Deliveries |-> IF d \in Pending THEN [row[d] EXCEPT !.status = "dead", !.due = FALSE]
                                                ELSE row[d]]
                /\ UNCHANGED <<drain, late>>

\* The process dies, or shutdown aborts the drain.
Crash(p) == /\ drain[p] # Idle
            /\ drain' = [drain EXCEPT ![p] = Idle]
            /\ UNCHANGED <<row, retires, retired, late>>

WebhookNext == \/ \E d \in Deliveries : Publish(d) \/ Wait(d)
               \/ \E p \in Drainers : List(p) \/ Send(p) \/ SendOrphan(p) \/ Answer(p) \/ Crash(p)
               \/ RetireQueued

WebhookSpec == WebhookInit /\ [][WebhookNext]_webhookVars
-----------------------------------------------------------------------------
\* What drains of several processes may do to a subscriber is bounded.  "Retire
\* it rather than report a state that is false": after a restore a drain that is
\* under way sends at most one of the deliveries that it had listed, because
\* recordAttempt() of the one that it is sending fails.  And the attempts on a
\* delivery outrun its budget by less than one per process, although their
\* number comes from a list that others have overtaken.
DeliveriesAreBounded ==
    /\ \A p \in Drainers : late[p] <= 1
    /\ \A d \in Deliveries : row[d].attempts < MaxAttempts + Cardinality(Drainers)
=============================================================================
