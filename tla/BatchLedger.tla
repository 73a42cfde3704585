---------------------------- MODULE BatchLedger -----------------------------
(***************************************************************************)
(* FileBatchIdempotencyStore (src/batch-idempotency-store.ts), once it is  *)
(* open: the durable claims of keyed batches, and the gate that is held    *)
(* while the data is being replaced.  Every method is one immediate SQLite *)
(* transaction and hence one action; the gate is a flag in the database    *)
(* together with a marker file, which are written one after the other.     *)
(*                                                                         *)
(* A fingerprint stands for its request.  The generation number is left    *)
(* out: invalidate() deletes every row in the transaction that raises it,  *)
(* so that no row is ever of another generation.  The limits on entries,   *)
(* on entries per scope and on bytes are one limit on rows.                *)
(***************************************************************************)
EXTENDS Naturals, FiniteSets

CONSTANTS Keys,          \* idempotency keys, each with its scope
          Bodies,        \* what a key may be used for
          OpOf,          \* the operation of each body: store, update or delete
          Requests,      \* the calls that make claims
          Nobody,        \* no call
          MaxEntries

ASSUME LedgerAssumption == /\ Nobody \notin Requests
                           /\ Bodies # {}
                           /\ MaxEntries \in Nat

VARIABLES claims,        \* a row for every key
          pending,       \* restore_pending
          marker         \* the file restore.pending: its reason, or torn

gate == <<pending, marker>>

ClaimStates == {"absent", "in_progress", "completed", "released"}
Markers == {"none", "restore", "migration", "torn"}

\* A row names the call that made it: a completed one holds its response.
Claim == [state : ClaimStates, body : Bodies, by : Requests \cup {Nobody}]
NoClaim == [state |-> "absent", body |-> CHOOSE b \in Bodies : TRUE, by |-> Nobody]

LedgerInit == /\ claims = [k \in Keys |-> NoClaim]
              /\ pending = FALSE
              /\ marker = "none"
-----------------------------------------------------------------------------
\* get restorePending: either half of the gate holds it.
Restoring == marker # "none" \/ pending

\* get restoreReason: what cannot be read is never taken for either reason.
Reason == IF marker \in {"restore", "migration"} THEN marker ELSE "unknown"

Active == {k \in Keys : claims[k].state = "in_progress"}
Held   == {k \in Keys : claims[k].state \in {"in_progress", "completed"}}

\* A key that was never used, or that was released for the same operation.
Open(k, b) == \/ claims[k].state = "absent"
              \/ claims[k].state = "released" /\ OpOf[claims[k].body] = OpOf[b]

\* claim(): fresh, a replay, or an exception.
ClaimFresh(k, b, r) ==
    /\ ~pending /\ Open(k, b)
    /\ Cardinality(Held) < MaxEntries
    /\ claims' = [claims EXCEPT ![k] = [state |-> "in_progress", body |-> b, by |-> r]]
    /\ UNCHANGED gate

Replays(k, b) == ~pending /\ claims[k].state = "completed" /\ claims[k].body = b

ClaimRefused(k, b) == /\ ~Replays(k, b)
                      /\ pending \/ ~Open(k, b) \/ Cardinality(Held) >= MaxEntries

\* complete() and abandon() of a claim that is still in progress for this body.
CompleteClaim(k, b) ==
    /\ ~Restoring
    /\ claims[k].state = "in_progress" /\ claims[k].body = b
    /\ claims' = [claims EXCEPT ![k].state = "completed"]
    /\ UNCHANGED gate

Abandon(k, b) ==
    /\ ~Restoring
    /\ claims[k].state = "in_progress" /\ claims[k].body = b
    /\ claims' = [claims EXCEPT ![k].state = "released"]
    /\ UNCHANGED gate
-----------------------------------------------------------------------------
MutBeginRestore ==       \* running batches are not looked for
    /\ ~pending
    /\ pending' = TRUE
    /\ UNCHANGED <<claims, marker>>

\* beginRestore(): the flag first, unless a keyed batch is under way ...
BeginRestore == /\ ~pending /\ Active = {}
                /\ pending' = TRUE
                /\ UNCHANGED <<claims, marker>>

\* ... then the marker, unless there is one.
WriteMarker(reason) == /\ marker' = IF marker = "none" THEN reason ELSE marker
                       /\ UNCHANGED <<claims, pending>>

\* What a write of the marker leaves that is interrupted or fails: nothing, a file
\* without a reason in it or, when all is written and is not synced, the marker.
TornMarker(reason) == marker' \in IF marker = "none" THEN {"none", "torn", reason} ELSE {marker}

\* The marker could not be written: the flag is taken back, the file is not.
RevertRestore(reason) == /\ TornMarker(reason)
                         /\ pending' = FALSE
                         /\ UNCHANGED claims

\* completeRestore(): the marker is removed, then invalidate() deletes the
\* claims and clears the flag.
RemoveMarker == /\ marker' = "none"
                /\ UNCHANGED <<claims, pending>>

MutInvalidate ==         \* the flag is cleared, the claims are kept
    /\ pending' = FALSE
    /\ UNCHANGED <<claims, marker>>

Invalidate == /\ claims' = [k \in Keys |-> NoClaim]
              /\ pending' = FALSE
              /\ UNCHANGED marker
-----------------------------------------------------------------------------
LedgerTypeOK == /\ claims \in [Keys -> Claim]
                /\ pending \in BOOLEAN
                /\ marker \in Markers
=============================================================================
