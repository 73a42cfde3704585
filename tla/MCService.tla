----------------------------- MODULE MCService ------------------------------
(***************************************************************************)
(* The memory service: its writes over a backend, its searches, its pages, *)
(* its batches with the client that sends them, its calls of a provider,   *)
(* the memories of agents with their snapshots, and the webhook outbox.    *)
(* The models share no state; a behaviour is one of one of them, and the   *)
(* others are off.                                                         *)
(***************************************************************************)
EXTENDS MemoryService, Retrieval, SdkBatch, ProviderFetch, AgentMemories, Paging, Webhooks, TLC

CONSTANTS c1, c2, A, B, x, y

VARIABLE part       \* the model of the behaviour

\* The calls that can meet: two of a set, in every order.
ServiceWork == { {"digest", "forget"}, {"digest", "archive", "revive"},
                 {"store", "update", "maintain"}, {"store", "update", "embed"},
                 {"store", "decay", "search", "update", "age"} }

(* Searches: all ways in which three memories supersede each other, and    *)
(* those in which they are related; each with every kind of query.         *)
Memory(s, t, n, r) == [scope |-> s, text |-> t, source |-> IF s = "a" THEN 1 ELSE 2, next |-> n, rel |-> r]
Chained == {Memory(s, t, n, {}) : s \in {"a", "b", "global"}, t \in {1, 2}, n \in 0 .. 3}
Linked == {Memory(s, t, n, r) : s \in {"a", "b"}, t \in {1, 2}, n \in {0, 1}, r \in {{}, {2}}}
MCPools == {p \in [1 .. 3 -> Chained] : \A i \in 1 .. 3 : p[i].next # i}
           \cup [1 .. 3 -> Linked \cup {NoMemory}]
Query(s, l, budget, old, dedupe, expand, semantic) ==
    [scope |-> s, limit |-> l, budget |-> budget, items |-> budget, bytes |-> IF budget THEN 2 ELSE 0,
     hurried |-> budget, superseded |-> old, dedupe |-> dedupe, expand |-> expand, semantic |-> semantic,
     window |-> IF dedupe = "source" THEN 2 ELSE 100]
MCQueries == { Query("a", 2, FALSE, FALSE, "exact", TRUE, FALSE),
               Query("any", 2, TRUE, FALSE, "exact", TRUE, FALSE),
               Query("a", 3, FALSE, TRUE, "source", FALSE, FALSE),
               Query("any", 3, FALSE, FALSE, "off", FALSE, TRUE) }

(* The client: batches with and without a key, reads, and refused calls.   *)
SdkCall(op, n, keyed, attempts, timeout, clean) ==
    [op |-> op, items |-> n, keyed |-> keyed, attempts |-> attempts, timeout |-> timeout, clean |-> clean]
MCCalls == { SdkCall("store", 2, TRUE, 1, TRUE, TRUE), SdkCall("update", 2, FALSE, 1, TRUE, TRUE),
             SdkCall("delete", 2, FALSE, 2, TRUE, TRUE), SdkCall("search", 2, FALSE, 1, TRUE, TRUE),
             SdkCall("get", 1, FALSE, 3, TRUE, TRUE), SdkCall("search", 1, TRUE, 1, FALSE, TRUE),
             SdkCall("store", 1, FALSE, 1, FALSE, FALSE) }

MCPolicies == [timeout : 0 .. 3, retries : 0 .. 2, budget : 0 .. 6, backoff : 0 .. 2]

(* Agents: x has a scope of its own, y has none.                            *)
Input(s, t, access, by) == [scope |-> s, text |-> t, access |-> access, by |-> by]
MCInputs == { Input("global", 1, "global", None), Input("global", 1, "private", None), Input("sx", 2, "shared", x) }
AgentWork == { {"store", "relate", "export", "empty", "import"},
               {"store", "update", "export", "forget", "import"}, {"store", "compress"} }

MCScopesOf == [a \in {x, y} |-> IF a = x THEN {"sx"} ELSE {}]
-----------------------------------------------------------------------------
\* The models that are off stay in one of their initial states.
ServiceInit ==
    /\ part \in {"memory", "retrieval", "sdk", "paging", "provider", "agents", "webhooks"}
    /\ (part # "retrieval" => pool = (CHOOSE p \in Pools : TRUE) /\ query = CHOOSE k \in Queries : TRUE)
       /\ RetrievalInit
    /\ (part # "memory"   => workload = CHOOSE w \in Workloads : TRUE)                /\ Init
    /\ (part # "sdk"      => call = CHOOSE k \in SdkCalls : TRUE)                    /\ SdkInit
    /\ (part # "paging"   => memories = [i \in ListIds |-> Absent])                  /\ PagingInit
    /\ (part # "provider" => policy = (CHOOSE p \in Policies : TRUE) /\ cancelled = FALSE)  /\ FetchInit
    /\ (part # "agents"   => agentWork = (CHOOSE w \in AgentWorkloads : TRUE) /\ tenant = FALSE) /\ AgentInit
    /\ WebhookInit

ServiceNext ==
    /\ \/ part = "memory"    /\ Next
          /\ UNCHANGED <<retrievalVars, sdkVars, pagingVars, fetchVars, agentVars, webhookVars>>
       \/ part = "retrieval" /\ RetrievalNext
          /\ UNCHANGED <<vars, sdkVars, pagingVars, fetchVars, agentVars, webhookVars>>
       \/ part = "sdk"       /\ SdkNext
          /\ UNCHANGED <<vars, retrievalVars, pagingVars, fetchVars, agentVars, webhookVars>>
       \/ part = "paging"    /\ PagingNext
          /\ UNCHANGED <<vars, retrievalVars, sdkVars, fetchVars, agentVars, webhookVars>>
       \/ part = "provider"  /\ FetchNext
          /\ UNCHANGED <<vars, retrievalVars, sdkVars, pagingVars, agentVars, webhookVars>>
       \/ part = "agents"    /\ AgentNext
          /\ UNCHANGED <<vars, retrievalVars, sdkVars, pagingVars, fetchVars, webhookVars>>
       \/ part = "webhooks"  /\ WebhookNext
          /\ UNCHANGED <<vars, retrievalVars, sdkVars, pagingVars, fetchVars, agentVars>>
    /\ UNCHANGED part

ServiceSpec == ServiceInit /\ [][ServiceNext]_<<part, vars, retrievalVars, sdkVars, pagingVars, fetchVars,
                                              agentVars, webhookVars>>

\* A second memory is there for digest() alone, which stores several, and a
\* third one of the agents where memories are not related or changed too.
Few == /\ part = "memory" => "digest" \in workload \/ mem[2] = NoMem
       /\ part = "agents" => {"relate", "forget"} \cap agentWork = {} \/ rows[3] = NoRecord

ServiceSymmetry == Permutations({c1, c2}) \cup Permutations({A, B})
=============================================================================
