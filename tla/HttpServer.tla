----------------------------- MODULE HttpServer -----------------------------
(***************************************************************************)
(* createHttpServer() of src/http.ts: the requests of one process, from    *)
(* the concurrency limit to the answer.  A handler awaits the readiness    *)
(* check, the limiter, the resolvers of the host, the body and the         *)
(* service; the timer of its response, and the client that goes away, come *)
(* in between.                                                             *)
(***************************************************************************)
EXTENDS Naturals, FiniteSets

CONSTANTS Requests, MaxConcurrent,
          ApiKey,         \* TRUE: a key is configured
          Strict          \* TRUE: the service is in strict tenant mode

ASSUME HttpAssumption == MaxConcurrent \in Nat \ {0} /\ ApiKey \in BOOLEAN /\ Strict \in BOOLEAN

VARIABLES up,           \* FALSE: an unhandled rejection has ended the process
          concurrent,   \* the counter of the closure
          handler,      \* of each request where its handler is
          response,     \* of each request what was sent: its status, as a class
          probe,        \* the requests that wait for healthInFlight
          cached,       \* healthCached: "none", or the answer that is still fresh
          charged,      \* the buckets that each request was charged to
          shared        \* the mode of SharedState, which the limiter sets

httpVars == <<up, concurrent, handler, response, probe, cached, charged, shared>>

\* What the handler tells apart; "body" routes read one.
Routes  == {"health", "live", "static", "ready", "plain", "body", "unknown"}
Arrivals == [route : Routes, key : BOOLEAN, reserved : BOOLEAN, tenant : BOOLEAN]
Started(a) == [at |-> "start", route |-> a.route, key |-> a.key, reserved |-> a.reserved, tenant |-> a.tenant]
NoRequest == [at |-> "none"]
Ended     == [at |-> "ended"]
Done      == {"none", "ended"}

HttpInit == /\ up = TRUE /\ concurrent = 0
            /\ handler = [r \in Requests |-> NoRequest]
            /\ response = [r \in Requests |-> "none"]
            /\ probe = {} /\ cached = "none"
            /\ charged = [r \in Requests |-> {}]
            /\ shared = "connected"

At(r, l)   == up /\ handler[r].at = l
Goto(r, l) == handler' = [handler EXCEPT ![r].at = l]
Running    == {r \in Requests : handler[r].at \notin Done}

\* send() and the end of the handler: finally gives the slot back.
Answer(r, status) == /\ response' = [response EXCEPT ![r] = status]
                     /\ handler' = [handler EXCEPT ![r] = Ended]
                     /\ concurrent' = concurrent - 1
                     /\ UNCHANGED up

\* The same when the timer has answered before: setHeader() throws, the handler
\* of errors calls it again, and nobody handles the rejection.
Reject(r) == /\ up' = FALSE
             /\ handler' = [handler EXCEPT ![r] = Ended]
             /\ concurrent' = concurrent - 1
             /\ UNCHANGED response

Finish(r, status) == IF response[r] = "none" THEN Answer(r, status) ELSE Reject(r)

MutOverloaded == concurrent > MaxConcurrent
Overloaded == concurrent >= MaxConcurrent

Arrive(r) == /\ up /\ handler[r] = NoRequest
             /\ \E a \in Arrivals :
                   /\ IF Overloaded
                         THEN /\ handler' = [handler EXCEPT ![r] = Ended]
                              /\ response' = [response EXCEPT ![r] = "overloaded"]
                              /\ UNCHANGED concurrent
                         ELSE /\ handler' = [handler EXCEPT ![r] = Started(a)]
                              /\ concurrent' = concurrent + 1
                              /\ UNCHANGED response
             /\ UNCHANGED <<up, probe, cached, charged, shared>>
-----------------------------------------------------------------------------
(* The public routes.                                                      *)

Live(r) == /\ At(r, "start") /\ handler[r].route \in {"live", "static"}
           /\ Finish(r, "ok")
           /\ UNCHANGED <<probe, cached, charged, shared>>

\* readiness(): a fresh answer, the check that is under way, or a new one.
Readiness(r) == /\ \/ At(r, "start") /\ handler[r].route = "health"
                   \/ At(r, "route") /\ handler[r].route = "ready"
                /\ IF cached # "none"
                      THEN Finish(r, IF cached = "ok" THEN "ok" ELSE "error") /\ UNCHANGED probe
                      ELSE /\ Goto(r, "probe")
                           /\ probe' = probe \cup {r}
                           /\ UNCHANGED <<up, concurrent, response>>
                /\ UNCHANGED <<cached, charged, shared>>

\* withSharedState(): a shared store that is away makes the answer unready,
\* whatever service.health() says.
Health == IF shared = "unreachable" THEN {"unready"} ELSE {"ok", "unready"}

\* service.health() answers all that wait.
Probed == /\ up /\ probe # {} /\ \A r \in probe : handler[r].at = "probe"
          /\ \E value \in Health :
                /\ cached' = value
                /\ handler' = [r \in Requests |-> IF r \in probe THEN [handler[r] EXCEPT !.at = value] ELSE handler[r]]
          /\ probe' = {}
          /\ UNCHANGED <<up, concurrent, response, charged, shared>>

ProbeAnswer(r) == /\ \/ At(r, "ok") /\ Finish(r, "ok")
                     \/ At(r, "unready") /\ Finish(r, "error")
                  /\ UNCHANGED <<probe, cached, charged, shared>>

\* REMEMBRA_HEALTH_CACHE_MS has passed.
Stale == /\ up /\ cached # "none"
         /\ cached' = "none"
         /\ UNCHANGED <<up, concurrent, handler, response, probe, charged, shared>>
-----------------------------------------------------------------------------
(* Authentication, identity, budget.                                       *)

Authorized(r) == ApiKey => handler[r].key

Bucket(r) == IF handler[r].tenant THEN "tenant" ELSE IF ApiKey THEN "key" ELSE "address"

\* An unauthenticated attempt waits for the limiter of its address; a name that
\* the server manages is refused at once.
Authenticate(r) ==
    /\ At(r, "start") /\ handler[r].route \notin {"live", "static", "health"}
    /\ IF ~Authorized(r) THEN Goto(r, "anonymous") /\ UNCHANGED <<up, concurrent, response>>
       ELSE IF Strict /\ handler[r].reserved THEN Finish(r, "error")
       ELSE Goto(r, "resolve") /\ UNCHANGED <<up, concurrent, response>>
    /\ UNCHANGED <<probe, cached, charged, shared>>

\* FailingClosedRateLimiter.attempt(): the mode is that of the call that settled
\* last.  A call that fails may have been charged in the store.
Charge(r, bucket) == charged' = [charged EXCEPT ![r] = @ \cup {bucket}]
LimiterAnswers(r, bucket) == Charge(r, bucket) /\ shared' = "connected"
LimiterFails(r, bucket) == /\ Charge(r, bucket) \/ UNCHANGED charged
                           /\ shared' = "unreachable"

\* 429 or 401, or 503 when the shared limiter is unreachable.
Anonymous(r) == /\ At(r, "anonymous")
                /\ LimiterAnswers(r, "address") \/ LimiterFails(r, "address")
                /\ Finish(r, "error")
                /\ UNCHANGED <<probe, cached>>

\* resolveAgentContext and resolveTenantContext of the host, which may reject.
Resolve(r) == /\ At(r, "resolve")
              /\ \/ Goto(r, "consume") /\ UNCHANGED <<up, concurrent, response>>
                 \/ Finish(r, "error")
              /\ UNCHANGED <<probe, cached, charged, shared>>

Denied(r) == LimiterFails(r, Bucket(r)) \/ (shared' = "connected" /\ UNCHANGED charged)

Consume(r) == /\ At(r, "consume")
              /\ \/ /\ LimiterAnswers(r, Bucket(r))
                    /\ Goto(r, "route") /\ UNCHANGED <<up, concurrent, response>>
                 \/ Denied(r) /\ Finish(r, "error")   \* 503, 429
              /\ UNCHANGED <<probe, cached>>
-----------------------------------------------------------------------------
(* The routes.                                                             *)

\* A missing tenant, a bad parameter or an unknown route end it here.
Route(r) == /\ At(r, "route") /\ handler[r].route # "ready"
            /\ \/ handler[r].route = "plain" /\ Goto(r, "service") /\ UNCHANGED <<up, concurrent, response>>
               \/ handler[r].route = "body" /\ Goto(r, "body") /\ UNCHANGED <<up, concurrent, response>>
               \/ handler[r].route = "unknown" /\ Finish(r, "error")
               \/ Finish(r, "error")   \* 400, 403
            /\ UNCHANGED <<probe, cached, charged, shared>>

\* readBody(): whole and well-formed, or too large, malformed or reserved.
ReadBody(r) == /\ At(r, "body") /\ response[r] # "timeout"
               /\ \/ Goto(r, "service") /\ UNCHANGED <<up, concurrent, response>>
                  \/ Finish(r, "error")   \* 400, 413
               /\ UNCHANGED <<probe, cached, charged, shared>>

\* The service answers, or throws what statusFor() translates.
Serve(r) == /\ At(r, "service")
            /\ \E status \in {"ok", "error"} : Finish(r, status)
            /\ UNCHANGED <<probe, cached, charged, shared>>
-----------------------------------------------------------------------------
(* The timer and the client.                                               *)

\* The 504, and req.destroy(); the handler is not told.  A body that was not
\* complete never settles.
Timeout(r) == /\ up /\ handler[r].at \notin Done \cup {"start"} /\ response[r] = "none"
              /\ response' = [response EXCEPT ![r] = "timeout"]
              /\ UNCHANGED <<up, concurrent, handler, probe, cached, charged, shared>>

\* The client closes the connection: a body that is read fails, a digest or a
\* batch is aborted, anything else runs to its end.
Disconnect(r) == /\ At(r, "body") /\ response[r] = "none"
                 /\ Answer(r, "error")
                 /\ UNCHANGED <<probe, cached, charged, shared>>

HttpNext == \/ \E r \in Requests :
                 \/ Arrive(r) \/ Live(r) \/ Readiness(r) \/ ProbeAnswer(r)
                 \/ Authenticate(r) \/ Anonymous(r) \/ Resolve(r) \/ Consume(r)
                 \/ Route(r) \/ ReadBody(r) \/ Serve(r) \/ Timeout(r) \/ Disconnect(r)
            \/ Probed \/ Stale

HttpSpec == HttpInit /\ [][HttpNext]_httpVars
-----------------------------------------------------------------------------
\* Admission, through timeouts, disconnects and failures of every await: the
\* counter is the number of handlers that have not ended, and within the limit;
\* what reaches the routes was authenticated, named nothing that is reserved,
\* and was charged to its own bucket; and an attempt without the key never was
\* ("Authentication still precedes any charge").
AdmissionHolds ==
    /\ concurrent = Cardinality(Running) /\ concurrent <= MaxConcurrent
    /\ \A r \in Running :
          /\ handler[r].at \in {"route", "body", "service"} =>
                Authorized(r) /\ (Strict => ~handler[r].reserved) /\ Bucket(r) \in charged[r]
          /\ ~Authorized(r) => charged[r] \subseteq {"address"}

\* docs/v4.4.0-spec.md: "Request timeout aborts long-running handlers; 504
\* returned".  A handler that outlives its 504 does not end the process.
ServerStaysUp == up
=============================================================================
