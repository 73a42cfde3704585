------------------------------ MODULE Shutdown ------------------------------
(***************************************************************************)
(* ShutdownCoordinator and its wiring (src/shutdown.ts, src/index.ts): the *)
(* phases that run, in order and under one deadline, when a process gets a *)
(* signal.  A phase may hang; the requests that were in flight when the    *)
(* signal came may end at any time or never.                               *)
(***************************************************************************)
EXTENDS Integers, Sequences, SequencesExt

CONSTANTS Role,          \* an HTTP server, an MCP server on stdio, or a durable worker
          Webhooks,      \* a webhook dispatcher is configured
          DeadlineMs,    \* REMEMBRA_SHUTDOWN_TIMEOUT_MS
          ServerMs       \* that of closeServerBounded: half of it, and at least a second

\* What the constants are assumed to be.
ShutdownAssumption == /\ Role \in {"serve", "mcp", "worker"}
                      /\ Webhooks \in BOOLEAN
                      /\ DeadlineMs \in Nat \ {0} /\ ServerMs \in Nat

VARIABLES at,            \* the phase being run: 0 before, Len(Phases) + 1 after
          status,        \* the result recorded for each phase
          active,        \* the phases whose body has started and not ended
          left,          \* the milliseconds left of the budget
          serverLeft,    \* the milliseconds left to closeServerBounded
          busy,          \* requests (or jobs) are still being worked on
          signalled,     \* a signal has been received
          exit           \* the exit code, "none" while the process runs

vars == <<at, status, active, left, serverLeft, busy, signalled, exit>>
-----------------------------------------------------------------------------
\* registerStandardShutdownPhases, with what installSignalHandlers passes to it:
\* only an HTTP server has a socket to close, and webhooks are optional.
Phases ==
    IF Role = "serve"
    THEN IF Webhooks
         THEN <<"mark-draining", "stop-accepting", "stop-background-work",
                "drain-webhooks", "stop-jobs", "close-providers", "close-storage">>
         ELSE <<"mark-draining", "stop-accepting", "stop-background-work",
                "stop-jobs", "close-providers", "close-storage">>
    ELSE IF Webhooks
         THEN <<"mark-draining", "stop-background-work", "drain-webhooks",
                "stop-jobs", "close-providers", "close-storage">>
         ELSE <<"mark-draining", "stop-background-work",
                "stop-jobs", "close-providers", "close-storage">>

Critical == {"mark-draining", "stop-accepting", "close-storage"}

\* The phases whose run() returns a promise.  A worker's stop-background-work
\* starts worker.stop() with `void`: the phase is over, its work is not.
Async == {"stop-accepting", "drain-webhooks", "stop-jobs", "close-providers"}
Detached == IF Role = "worker" THEN {"stop-background-work"} ELSE {}

\* The phases in which nothing can throw: a flag is set, a timer is cleared, or
\* the body catches what goes wrong.
Safe == {"mark-draining", "stop-accepting", "stop-background-work", "close-providers"}

Names == ToSet(Phases)
Endings(n) == {"completed"} \cup (IF n \in Safe THEN {} ELSE {"failed"})
Done == Len(Phases) + 1

Init == /\ at = 0
        /\ status = [n \in Names |-> "pending"]
        /\ active = {}
        /\ left = 0 /\ serverLeft = 0
        /\ busy \in BOOLEAN
        /\ signalled = FALSE
        /\ exit = "none"

Current == Phases[at]
Later(i) == {Phases[k] : k \in {k \in 1..Len(Phases) : k > i}}
-----------------------------------------------------------------------------
\* The first signal starts the sequence.  A later one is given the promise of
\* the sequence that is running, and its shorter deadline is not used: a stutter.
Signal == /\ ~signalled /\ exit = "none"
          /\ signalled' = TRUE
          /\ at' = 1
          /\ left' = DeadlineMs
          /\ UNCHANGED <<status, active, serverLeft, busy, exit>>

\* The loop reaches a phase with the budget spent.
Skip == /\ at \in 1..Len(Phases) /\ left = 0
        /\ status[Current] = "pending"
        /\ status' = [status EXCEPT ![Current] = "skipped"]
        /\ at' = at + 1
        /\ UNCHANGED <<active, left, serverLeft, busy, signalled, exit>>

\* The body of a phase starts.  A synchronous one is over at once, well or by
\* an exception; the loop goes on in either case.
Start == /\ at \in 1..Len(Phases) /\ left > 0
         /\ status[Current] = "pending"
         /\ \/ /\ Current \in Async
               /\ status' = [status EXCEPT ![Current] = "running"]
               /\ active' = active \cup {Current}
               /\ serverLeft' = IF Current = "stop-accepting" THEN ServerMs ELSE serverLeft
               /\ UNCHANGED at
            \/ /\ Current \notin Async
               /\ \E s \in Endings(Current) : status' = [status EXCEPT ![Current] = s]
               /\ active' = active \cup (IF busy THEN Detached \cap {Current} ELSE {})
               /\ at' = at + 1
               /\ UNCHANGED serverLeft
         /\ UNCHANGED <<left, busy, signalled, exit>>

\* The promise of the running phase settles.  server.close() waits for the
\* requests in flight; closeServerBounded gives up on them after ServerMs.
Settle == /\ at \in 1..Len(Phases) /\ status[Current] = "running"
          /\ Current = "stop-accepting" => ~busy \/ serverLeft = 0
          /\ \E s \in Endings(Current) : status' = [status EXCEPT ![Current] = s]
          /\ active' = active \ {Current}
          /\ at' = at + 1
          /\ UNCHANGED <<left, serverLeft, busy, signalled, exit>>

MutTimeout ==            \* the sequence goes on after a timeout
    /\ at \in 1..Len(Phases) /\ status[Current] = "running" /\ left = 0
    /\ status' = [status EXCEPT ![Current] = "timeout"]
    /\ left' = 1
    /\ at' = at + 1
    /\ UNCHANGED <<active, serverLeft, busy, signalled, exit>>

MutAwait ==              \* a phase is awaited without a race against the budget
    /\ at \in 1..Len(Phases) /\ status[Current] = "running" /\ left = 0
    /\ Current \notin active
    /\ status' = [status EXCEPT ![Current] = "timeout"]
    /\ at' = Done
    /\ UNCHANGED <<active, left, serverLeft, busy, signalled, exit>>

\* The budget runs out in a phase: it is left running and the rest is skipped.
Timeout == /\ at \in 1..Len(Phases) /\ status[Current] = "running" /\ left = 0
           /\ status' = [n \in Names |-> IF n = Current THEN "timeout"
                                         ELSE IF n \in Later(at) THEN "skipped"
                                         ELSE status[n]]
           /\ at' = Done
           /\ UNCHANGED <<active, left, serverLeft, busy, signalled, exit>>

\* A body that the coordinator does not wait for (any more) ends after all.
LateEnd == \E n \in active : /\ status[n] # "running" /\ exit = "none"
                             /\ active' = active \ {n}
                             /\ UNCHANGED <<at, status, left, serverLeft, busy,
                                            signalled, exit>>

WorkEnds == /\ busy /\ exit = "none"
            /\ busy' = FALSE
            /\ UNCHANGED <<at, status, active, left, serverLeft, signalled, exit>>

Forced == \E n \in Critical \cap Names : status[n] # "completed"
Clean  == ~Forced /\ \A n \in Names : status[n] = "completed"

\* The report is in: process.exit(report.clean ? 0 : 1).
Exit == /\ at = Done /\ exit = "none"
        /\ exit' = IF Clean THEN "0" ELSE "1"
        /\ UNCHANGED <<at, status, active, left, serverLeft, busy, signalled>>

\* Timers are on time: the clock does not pass one that is due.
Tick == /\ signalled /\ exit = "none"
        /\ left > 0
        /\ at # Done /\ status[Current] = "running"
        /\ serverLeft > 0 \/ Current # "stop-accepting"
        /\ left' = left - 1
        /\ serverLeft' = IF serverLeft > 0 THEN serverLeft - 1 ELSE 0
        /\ UNCHANGED <<at, status, active, busy, signalled, exit>>

\* The timer of closeServerBounded fires.
GiveUp == /\ at \in 1..Len(Phases) /\ Current = "stop-accepting" /\ serverLeft = 0
          /\ Settle

Progress == Skip \/ Start \/ Timeout \/ Exit

Next == \/ Signal \/ Progress \/ Settle
        \/ LateEnd \/ WorkEnds \/ Tick

Spec == Init /\ [][Next]_vars
-----------------------------------------------------------------------------
TypeOK == /\ at \in 0..Done
          /\ status \in [Names -> {"pending", "running", "completed", "failed",
                                   "timeout", "skipped"}]
          /\ active \subseteq Names
          /\ left \in 0..DeadlineMs /\ serverLeft \in 0..ServerMs
          /\ busy \in BOOLEAN /\ signalled \in BOOLEAN
          /\ exit \in {"none", "0", "1"}
=============================================================================
