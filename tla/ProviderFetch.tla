--------------------------- MODULE ProviderFetch ----------------------------
(***************************************************************************)
(* providerFetch() (src/provider.ts): one call of a provider, with its     *)
(* attempts, the timeout of each, the backoff between them, the budget of  *)
(* the whole call and the caller that may cancel it at any moment.         *)
(*                                                                         *)
(* Between two awaits the code is one step.  Timers fire when they are     *)
(* due, and fetch() obeys its signal: an aborted request is rejected in     *)
(* the turn of the abort.  An answer is its status and whether its body is *)
(* JSON; the provider may give any, at any time, or none.                  *)
(***************************************************************************)
EXTENDS Naturals

CONSTANTS Policies      \* records [timeout, retries, budget, backoff]

ASSUME FetchAssumption ==
    \A p \in Policies : /\ p \in [timeout : Nat, retries : Nat, budget : Nat, backoff : Nat]
                        /\ \A n \in 0 .. p.retries : p.backoff * 2 ^ n \in Nat

VARIABLES policy,
          at,           \* where the call waits, or how it has ended
          nth,          \* the attempt
          elapsed,      \* since the call began
          timer,        \* what is left of the timer that is running
          cancelled,    \* the caller's signal
          deaf,         \* the signal was aborted before anybody listened to it again
          sent          \* history: the requests that were sent

fetchVars == <<policy, at, nth, elapsed, timer, cancelled, deaf, sent>>

Waiting == {"sleep", "fetch", "body", "error", "client_error"}

Least(m, n) == IF m <= n THEN m ELSE n

AllowedAttempts == policy.retries + 1
Remaining == IF elapsed < policy.budget THEN policy.budget - elapsed ELSE 0

\* The backoff doubles; its cap of two seconds is beyond the bounds.
BackoffOf(n) == policy.backoff * 2 ^ (n - 2)

FetchInit == /\ policy \in Policies
             /\ at = "call" /\ nth = 1 /\ elapsed = 0 /\ timer = 0
             /\ cancelled \in BOOLEAN /\ deaf = FALSE /\ sent = 0

End(how) == /\ at' = how /\ timer' = 0
            /\ UNCHANGED <<policy, nth, elapsed, cancelled, deaf, sent>>

MutAttemptTimeout == policy.timeout
AttemptTimeout == LET t == Least(policy.timeout, Remaining) IN IF t = 0 THEN 1 ELSE t

\* The request is sent.  Who listens to a signal that was aborted before hears
\* nothing.
SendAttempt(n) == /\ at' = "fetch" /\ nth' = n /\ timer' = AttemptTimeout
                  /\ sent' = sent + 1
                  /\ deaf' = cancelled
                  /\ UNCHANGED <<policy, elapsed, cancelled>>
SendOrGiveUp(n) == IF Remaining = 0 THEN End("budget") ELSE SendAttempt(n)

Call == /\ at = "call"
        /\ IF cancelled THEN End("cancelled") ELSE SendOrGiveUp(1)

\* continue: abortableSleep(), which looks at the signal only if there is
\* nothing to sleep.
Sleep(n) == LET capped == Least(BackoffOf(n), Remaining) IN
            IF capped = 0
            THEN IF cancelled THEN End("cancelled") ELSE SendOrGiveUp(n)
            ELSE /\ at' = "sleep" /\ nth' = n /\ timer' = capped
                 /\ deaf' = cancelled
                 /\ UNCHANGED <<policy, elapsed, cancelled, sent>>

Retry(otherwise) == IF nth < AllowedAttempts /\ elapsed < policy.budget
                    THEN Sleep(nth + 1) ELSE End(otherwise)

Awake == at = "sleep" /\ timer = 0 /\ SendOrGiveUp(nth)

\* The headers of an answer have come; its body is read next.
ProviderAnswers == /\ at = "fetch"
                   /\ at' \in {"body", "error", "client_error"}
                   /\ UNCHANGED <<policy, nth, elapsed, timer, cancelled, deaf, sent>>

Body == /\ at = "body"
        /\ End("value") \/ End("malformed")

\* The text of an error is only for the message: whatever stops it, the status
\* decides.  This includes the timer and the caller's signal.
ErrorBody == \/ at = "error" /\ Retry("status")
             \/ at = "client_error" /\ End("status")

NetworkFails == at \in {"fetch", "body"} /\ Retry("network")

TimesOut == timer = 0 /\ at \in {"fetch", "body"} /\ Retry("timeout")

Hears == at \in {"sleep", "fetch", "body"}

\* The caller aborts.  The listener ends the sleep or the request.
CallerAborts == /\ at \in Waiting /\ ~cancelled
                /\ cancelled' = TRUE
                /\ IF Hears THEN at' = "cancelled" /\ timer' = 0 ELSE UNCHANGED <<at, timer>>
                /\ UNCHANGED <<policy, nth, elapsed, deaf, sent>>

\* An abort also ends the reading of an error's text, at once.
Tick == /\ at \in Waiting /\ timer > 0
        /\ at \in {"error", "client_error"} /\ cancelled => deaf
        /\ timer' = timer - 1 /\ elapsed' = elapsed + 1
        /\ UNCHANGED <<policy, at, nth, cancelled, deaf, sent>>

FetchNext == Call \/ Awake \/ ProviderAnswers \/ Body \/ ErrorBody \/ NetworkFails \/ TimesOut \/ CallerAborts \/ Tick

FetchSpec == FetchInit /\ [][FetchNext]_fetchVars
-----------------------------------------------------------------------------
\* A provider that hangs, fails or answers in pieces holds a call up no longer
\* than its budget and for no more requests than it has attempts.
CallIsBounded == /\ elapsed <= policy.budget
                 /\ sent <= AllowedAttempts

\* A call that was cancelled while it slept or waited for an answer ends at once,
\* and neither sends another request nor returns a value.  (One that was
\* cancelled while the text of an error was read does both.)
CancelIsHeard ==
    cancelled /\ ~deaf => at \notin {"sleep", "fetch", "body", "value"}

\* A provider that hangs or fails cannot hold a call beyond its budget and its
\* attempts, and a caller who cancels a wait or a sleep is heard.
ProviderIsBounded == CallIsBounded /\ CancelIsHeard
=============================================================================
