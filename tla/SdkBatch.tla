------------------------------ MODULE SdkBatch ------------------------------
(***************************************************************************)
(* A client of the SDK (sdk.ts: request(), requestAttempt(), batch()) and  *)
(* the server's batch() (service.ts), with the network between them: a     *)
(* request or an answer may be lost, a timed-out attempt may go on at the  *)
(* server while the next one is under way, the caller may abort, and a     *)
(* caller that has a key may issue the batch again.                        *)
(*                                                                         *)
(* What the items are is left out; an item succeeds, fails without having  *)
(* written anything, or fails for an unknown reason.  The ledger of keys   *)
(* is BatchLedger's, seen by one key.                                      *)
(***************************************************************************)
EXTENDS Integers, Sequences, SequencesExt, FiniteSets

CONSTANTS SdkCalls,     \* what a caller may ask for
          MaxIssues,    \* bound: how often a caller issues a keyed batch
          None

\* request(): one to three attempts.
ASSUME SdkAssumption ==
    /\ MaxIssues \in Nat \ {0}
    /\ \A c \in SdkCalls : /\ c.items \in Nat /\ c.attempts \in 1 .. 3
                          /\ c.keyed \in BOOLEAN /\ c.clean \in BOOLEAN /\ c.timeout \in BOOLEAN

VARIABLES call,         \* the call: fixed
          client,       \* where request() stands
          attempt,      \* attempts sent since the first issue
          tries,        \* attempt of the current request()
          issues,       \* how often the caller has issued the call
          aborted,      \* the caller's signal
          server,       \* server[a]: the handling of attempt a
          claim,        \* the ledger's row for the key
          effects,      \* effects[i]: how often item i was written
          outcome       \* what the caller was given

sdkVars == <<call, client, attempt, tries, issues, aborted, server, claim, effects, outcome>>
serverVars == <<server, claim, effects>>
clientVars == <<call, client, attempt, tries, issues, aborted, outcome>>

Mutations == {"store", "update", "delete"}
ItemOutcomes == {"ok", "releasable", "other"}
Attempts == 1 .. IF MaxIssues > 3 THEN MaxIssues ELSE 3   \* no call is both keyed and retried
NotSent == [pc |-> "none", results |-> <<>>, answer |-> None]
NoClaim == [state |-> "free", answer |-> None]

SdkInit ==
    /\ call \in SdkCalls
    /\ client = "start" /\ attempt = 0 /\ tries = 0 /\ issues = 1
    /\ aborted = FALSE
    /\ server = [a \in Attempts |-> NotSent]
    /\ claim = NoClaim
    /\ effects = [i \in 1 .. call.items |-> 0]
    /\ outcome = None

-----------------------------------------------------------------------------
(* request(): the checks that refuse a call before anything is sent.  A    *)
(* call retried although it is no GET, or keyed although it only reads, is *)
(* a TypeError; so is a batch over its budget or with an identity field.   *)
MayRetry(c) == c.attempts > 1 => c.op = "get"
MayBeKeyed(c) == c.keyed => c.op \in Mutations
Clean(c) == c.clean

Sendable(c) == MayRetry(c) /\ MayBeKeyed(c) /\ Clean(c)

Begin ==
    /\ client = "start"
    /\ IF Sendable(call) THEN client' = "send" /\ UNCHANGED outcome
                         ELSE client' = "end" /\ outcome' = [kind |-> "TypeError"]
    /\ tries' = 1
    /\ UNCHANGED <<call, attempt, issues, aborted, serverVars>>

(* requestAttempt(): fetch() with a signal that is aborted sends nothing. *)
SendRequest ==
    /\ client = "send"
    /\ IF aborted THEN client' = "end" /\ outcome' = [kind |-> "AbortError"] /\ UNCHANGED <<attempt, server>>
       ELSE /\ client' = "wait" /\ attempt' = attempt + 1
            /\ server' = [server EXCEPT ![attempt + 1].pc = "sent"]
            /\ UNCHANGED outcome
    /\ UNCHANGED <<call, tries, issues, aborted, claim, effects>>

(* isBatchResponse(): the answer the SDK accepts for a batch. *)
Expected(c) == IF c.op \in Mutations THEN IF c.keyed THEN {"stored", "replayed"} ELSE {"unsupported"}
                                     ELSE {"read-only"}
IsBatchResponse(c, r) ==
    /\ r.op = c.op /\ Len(r.oks) = c.items /\ r.requested = c.items
    /\ r.succeeded + r.failed = r.requested
    /\ c.keyed => r.failed = 0
    /\ Cardinality({i \in DOMAIN r.oks : r.oks[i]}) = r.succeeded
    /\ r.idempotency \in Expected(c)
    /\ r.policy = IF c.op \in Mutations THEN "per-item" ELSE "read-only"

(* shouldRetryRequest(): a network failure, a timeout and these statuses. *)
Retryable(error) == error \in {"network", "timeout", "unavailable"}

(* waitForRetry() rejects when the signal is, or becomes, aborted. *)
Failed(error) ==
    IF tries >= call.attempts \/ ~Retryable(error)
    THEN client' = "end" /\ outcome' = [kind |-> error]
    ELSE client' = "backoff" /\ UNCHANGED outcome

Receive ==
    /\ client = "wait" /\ server[attempt].pc = "answered" /\ ~aborted
    /\ LET r == server[attempt].answer
       IN  IF r.kind = "error" THEN Failed(r.status)
           ELSE /\ client' = "end"
                /\ outcome' = IF call.op = "get" \/ IsBatchResponse(call, r) THEN [kind |-> "answer", oks |-> r.oks]
                                                         ELSE [kind |-> "invalid"]
    /\ UNCHANGED <<call, attempt, tries, issues, aborted, serverVars>>

(* The connection breaks, or the timer of timeoutMs fires: whatever the    *)
(* server does with the request goes on without the client.  The timeout   *)
(* wins over the signal.                                                   *)
Lose ==
    /\ client = "wait"
    /\ \/ ~aborted /\ Failed("network")
       \/ call.timeout /\ Failed("timeout")
       \/ aborted /\ client' = "end" /\ outcome' = [kind |-> "AbortError"]
    /\ UNCHANGED <<call, attempt, tries, issues, aborted, serverVars>>

Backoff ==
    /\ client = "backoff"
    /\ IF aborted THEN client' = "end" /\ outcome' = [kind |-> "AbortError"] /\ UNCHANGED tries
                  ELSE client' = "send" /\ tries' = tries + 1 /\ UNCHANGED outcome
    /\ UNCHANGED <<call, attempt, issues, aborted, serverVars>>

Abort ==
    /\ client \in {"send", "wait", "backoff"} /\ ~aborted
    /\ aborted' = TRUE
    /\ UNCHANGED <<call, client, attempt, tries, issues, outcome, serverVars>>

(* A caller that got no answer issues a keyed batch again. *)
Reissue ==
    /\ client = "end" /\ call.keyed /\ issues < MaxIssues
    /\ outcome.kind \in {"network", "timeout", "unavailable", "refused", "AbortError"}
    /\ client' = "start" /\ issues' = issues + 1 /\ outcome' = None
    /\ aborted' = FALSE
    /\ UNCHANGED <<call, attempt, tries, serverVars>>

-----------------------------------------------------------------------------
(* The server's batch().  A request can be refused before anything is      *)
(* done: its size, its schema, the recovery state, its authorization.      *)
Error(status) == [kind |-> "error", status |-> status]
Answered(a, r) == server' = [server EXCEPT ![a].pc = "answered", ![a].answer = r]

Refuse(a) ==
    /\ server[a].pc = "sent"
    /\ \E status \in {"refused", "unavailable"} : Answered(a, Error(status))
    /\ UNCHANGED <<claim, effects, clientVars>>

(* The request is lost on its way. *)
Drop(a) ==
    /\ server[a].pc = "sent" /\ (client # "wait" \/ attempt # a)
    /\ server' = [server EXCEPT ![a].pc = "dropped"]
    /\ UNCHANGED <<claim, effects, clientVars>>

(* With a key, store.claim() decides; a running or unfinished claim of the *)
(* same key is a conflict.                                                 *)
Claim(a) ==
    /\ server[a].pc = "sent"
    /\ IF ~call.keyed THEN server' = [server EXCEPT ![a].pc = "running"] /\ UNCHANGED claim
       ELSE CASE claim.state = "free" ->
                    claim' = [claim EXCEPT !.state = "running"] /\ server' = [server EXCEPT ![a].pc = "running"]
              [] claim.state = "running" -> Answered(a, Error("refused")) /\ UNCHANGED claim
              [] claim.state = "stored" ->
                    Answered(a, [claim.answer EXCEPT !.idempotency = "replayed"]) /\ UNCHANGED claim
    /\ UNCHANGED <<effects, clientVars>>

(* execute(): one item after another; a failure is reported and the rest   *)
(* goes on.  What failed for an unknown reason may have been written.      *)
Execute(a) ==
    /\ server[a].pc = "running" /\ Len(server[a].results) < call.items
    /\ LET i == Len(server[a].results) + 1
       IN  \E o \in ItemOutcomes :
              /\ server' = [server EXCEPT ![a].results = Append(@, o)]
              /\ \E wrote \in (IF o = "ok" THEN {1} ELSE IF o = "releasable" THEN {0} ELSE {0, 1}) :
                    effects' = IF call.op \in Mutations THEN [effects EXCEPT ![i] = @ + wrote] ELSE effects
    /\ UNCHANGED <<claim, clientVars>>

(* batchSummary() and the execution metadata. *)
BatchAnswer(results, idempotency) ==
    LET oks == [i \in DOMAIN results |-> results[i] = "ok"]
        n == Cardinality({i \in DOMAIN oks : oks[i]})
    IN  [kind |-> "answer", op |-> call.op, oks |-> oks, requested |-> Len(oks), succeeded |-> n,
         failed |-> Len(oks) - n, idempotency |-> idempotency,
         policy |-> IF call.op \in Mutations THEN "per-item" ELSE "read-only"]

(* batchHasUnresolvedFailure(): a keyed batch with a failed item is no     *)
(* answer to be kept.                                                      *)
Unresolved(results) == \E i \in DOMAIN results : results[i] # "ok"

(* batchClaimCanBeReleased(): only what wrote nothing may run again. *)
MutReleasable(results) == "releasable" \in ToSet(results)
Releasable(results) == ToSet(results) = {"releasable"}

Finish(a) ==
    LET results == server[a].results
    IN  /\ server[a].pc = "running" /\ Len(results) = call.items
        /\ IF ~call.keyed
           THEN /\ \/ Answered(a, BatchAnswer(results, IF call.op \in Mutations THEN "unsupported" ELSE "read-only"))
                   \/ call.op \notin Mutations /\ Answered(a, Error("refused"))  \* too large
                /\ UNCHANGED claim
           ELSE IF Unresolved(results)
           THEN /\ claim' \in {claim} \cup (IF Releasable(results) THEN {NoClaim} ELSE {})
                /\ Answered(a, Error("unavailable"))
           ELSE \/ /\ claim' = [state |-> "stored", answer |-> BatchAnswer(results, "stored")]
                   /\ Answered(a, BatchAnswer(results, "stored"))
                \/ Answered(a, Error("unavailable")) /\ UNCHANGED claim          \* complete() failed
        /\ UNCHANGED <<effects, clientVars>>

SdkNext ==
    \/ Begin \/ SendRequest \/ Receive \/ Lose \/ Backoff \/ Abort \/ Reissue
    \/ \E a \in Attempts : Refuse(a) \/ Drop(a) \/ Claim(a) \/ Execute(a) \/ Finish(a)

SdkSpec == SdkInit /\ [][SdkNext]_sdkVars

-----------------------------------------------------------------------------
(* However often the SDK or its caller tries, and whatever is lost or late, *)
(* no item of a mutation is written twice (sdk.ts:569 and 591,              *)
(* service.ts:1757-1812).                                                   *)
WritesLandOnce == (\A i \in DOMAIN effects : effects[i] <= 1)

(* The SDK takes every answer the server gives for a batch, replays and     *)
(* partly failed ones included, and what it hands to the caller is true of  *)
(* the items (sdk.ts isBatchResponse() against service.ts batch()).         *)
AnswersAreTaken ==
    outcome # None =>
        /\ outcome.kind # "invalid"
        /\ outcome.kind = "answer" /\ call.op \in Mutations =>
              \A i \in DOMAIN effects : outcome.oks[i] => effects[i] = 1

\* No item of a batch is written twice, however often it is sent; the SDK takes
\* every answer of the server, and what it hands on is true.
BatchesAreExact == WritesLandOnce /\ AnswersAreTaken
=============================================================================
