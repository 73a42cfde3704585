---------------------------- MODULE RecoveryState ---------------------------
(***************************************************************************)
(* The recovery state of a deployment (src/recovery-state.ts, its file in  *)
(* src/recovery-state-store.ts, and the calls of src/service.ts on it).    *)
(* Every process holds a copy.  Health probes read the file, then read the *)
(* storage, and write what they conclude from the copy; the operator's     *)
(* `recover` commands are processes of their own.                          *)
(***************************************************************************)
EXTENDS FiniteSets

CONSTANTS Services, Operators,
          Fallback          \* the processes that run on the fallback backend

Procs  == Services \cup Operators
States == {"Healthy", "Degraded", "Recovering", "Failed", "ReadOnly"}

VARIABLES durable,    \* the state in .recovery-state.json, or "none"
          local, stage,
          started,    \* processes whose initial health check is behind them
          frozen,     \* read-only mode was acknowledged, no verification since
          old,        \* processes that have not read the file since then
          raced,      \* one of those has written it
          leaked      \* a write was accepted in read-only mode

recoveryVars == <<durable, local, stage, started, frozen, old, raced, leaked>>

MutTransition(current, event) ==
    IF event = "ready" THEN "Healthy"
    ELSE IF event = "failed" THEN "Failed"
    ELSE IF current \in {"Failed", "ReadOnly"} THEN current ELSE "Degraded"

\* transitionRecoveryState(), of the events that probes apply.
Transition(current, event) ==
    CASE event = "ready" -> IF current = "Recovering" THEN "Healthy" ELSE current
      [] event \in {"degraded", "storage_error"} ->
            IF current \in {"Failed", "ReadOnly"} THEN current ELSE "Degraded"
      [] event = "failed" -> "Failed"

RecoveryInit == /\ durable = "none"
                /\ local = [p \in Procs |-> "Recovering"]
                /\ stage = [p \in Procs |-> "off"]
                /\ started = {} /\ old = {}
                /\ frozen = FALSE /\ raced = FALSE /\ leaked = FALSE

Move(p, l)    == stage' = [stage EXCEPT ![p] = l]
Believe(p, s) == local' = [local EXCEPT ![p] = s]
Off(p)  == Move(p, "off") /\ started' = started \ {p}
Read(p) == IF durable = "none" THEN local[p] ELSE durable
Latched(p) == local[p] = "Failed" /\ durable # "Failed"

\* initializeRecovery(); a process whose file is unreadable does not start.
Start(p) == /\ stage[p] = "off"
            /\ Believe(p, IF durable = "none" THEN "Recovering" ELSE durable)
            /\ Move(p, "probe")
            /\ old' = old \ {p}
            /\ UNCHANGED <<durable, started, frozen, raced, leaked>>

\* health(): refreshDurableRecoveryState(), which fails for a process that
\* has latched a failure and finds another state.
ProbeRead(p) ==
    /\ stage[p] = "probe" \/ (stage[p] = "up" /\ p \in Services)
    /\ \/ ~Latched(p) /\ Believe(p, Read(p)) /\ Move(p, "reading") /\ old' = old \ {p}
       \/ Latched(p) /\ Move(p, "caught") /\ UNCHANGED <<local, old>>
       \/ Move(p, "caught") /\ UNCHANGED <<local, old>>          \* unreadable
    /\ UNCHANGED <<durable, started, frozen, raced, leaked>>

ProbeStorage(p) == /\ stage[p] = "reading"
                   /\ Move(p, "ready") \/ Move(p, "caught")
                   /\ UNCHANGED <<durable, local, started, frozen, old, raced, leaked>>

\* applyRecoveryEvent(): nothing, or the new state written and believed.
ApplyEvent(p, event, then) ==
    LET next == Transition(local[p], event) IN
    /\ \/ /\ next # local[p]
          /\ durable' = next /\ Believe(p, next) /\ Move(p, then)
          /\ raced' = (raced \/ (frozen /\ p \in old))
       \/ next # local[p] /\ Move(p, "caught") /\ UNCHANGED <<durable, local, raced>>   \* unwritable
       \/ next = local[p] /\ Move(p, then) /\ UNCHANGED <<durable, local, raced>>
    /\ UNCHANGED <<frozen, old, leaked>>

ProbeReady(p) == stage[p] = "ready" /\ ApplyEvent(p, "ready", "fallback") /\ UNCHANGED started

ProbeFallback(p) == /\ stage[p] = "fallback"
                    /\ IF p \in Fallback THEN ApplyEvent(p, "degraded", "up")
                       ELSE Move(p, "up") /\ UNCHANGED <<durable, local, frozen, old, raced, leaked>>
                    /\ started' = started \cup {p}

\* The handler of health(); a server that is not up yet gives up.
ProbeCaught(p) ==
    LET next == Transition(local[p], IF local[p] = "ReadOnly" THEN "storage_error" ELSE "failed") IN
    /\ stage[p] = "caught"
    /\ (next = "Failed" /\ durable' = "Failed") \/ UNCHANGED durable
    /\ Believe(p, next)
    /\ IF p \in Services \ started THEN Off(p) ELSE Move(p, "up") /\ started' = started \cup {p}
    /\ UNCHANGED <<frozen, old, raced, leaked>>
-----------------------------------------------------------------------------
(* recover read-only, recover verify.                                      *)

EnterReadOnly(p) ==
    /\ p \in Operators /\ stage[p] = "up"
    /\ \/ durable' = "ReadOnly" /\ frozen' = TRUE /\ raced' = FALSE
          /\ old' = {q \in Procs : stage[q] # "off"}
       \/ UNCHANGED <<durable, frozen, raced, old>>       \* unwritable: an error
    /\ Believe(p, "ReadOnly") /\ Off(p)
    /\ UNCHANGED leaked

VerifyRecovery(p) ==
    /\ p \in Operators /\ stage[p] = "up"
    /\ \/ /\ durable' = IF p \in Fallback THEN "Degraded" ELSE "Healthy"
          /\ Believe(p, durable') /\ frozen' = FALSE
          /\ Move(p, "probe") /\ UNCHANGED started
       \/ durable' = "Failed" /\ Off(p) /\ UNCHANGED <<local, frozen>>
    /\ UNCHANGED <<old, raced, leaked>>
-----------------------------------------------------------------------------
(* A service write: refresh, then assertRecoveryWritable().                *)

Writable(s) == s \notin {"ReadOnly", "Failed", "Recovering"}

Write(p) == /\ p \in Services /\ stage[p] = "up" /\ ~Latched(p)
            /\ Believe(p, Read(p))
            /\ old' = old \ {p}
            /\ leaked' = (leaked \/ (Writable(Read(p)) /\ frozen /\ ~raced))
            /\ UNCHANGED <<durable, stage, started, frozen, raced>>

\* It ends, or dies between any two steps.
Exit(p) == stage[p] # "off" /\ Off(p) /\ UNCHANGED <<durable, local, frozen, old, raced, leaked>>

RecoveryNext == \E p \in Procs :
    \/ Start(p) \/ ProbeRead(p) \/ ProbeStorage(p) \/ ProbeReady(p) \/ ProbeFallback(p) \/ ProbeCaught(p)
    \/ EnterReadOnly(p) \/ VerifyRecovery(p) \/ Write(p) \/ Exit(p)

RecoverySpec == RecoveryInit /\ [][RecoveryNext]_recoveryVars
-----------------------------------------------------------------------------
\* "Ordinary health probes cannot clear Failed or ReadOnly": once the operator
\* has been told that the deployment is read-only, no probe, storage failure or
\* restart of any process makes it writable, and no write is accepted, until it
\* is verified.  The exception is a probe that read the file before the command
\* and writes its own conclusion over it (raced).
ReadOnlyHolds == /\ frozen /\ ~raced => durable \in {"ReadOnly", "Failed"}
                 /\ ~leaked
=============================================================================
