------------------------------- MODULE MCEdge -------------------------------
(***************************************************************************)
(* What stands between a request and the memory service: the HTTP server,  *)
(* the limits it charges, the tenant directory, and the V6 policy with its *)
(* lifecycle and its audit log.  The models share no state; a behaviour is *)
(* one of one of them, and the others are off.                             *)
(***************************************************************************)
EXTENDS RateLimits, HttpServer, Tenants, GuardedService, Lifecycle, PolicyAudit

CONSTANTS a, b, c, h1, h2

VARIABLE part   \* the model of the behaviour
-----------------------------------------------------------------------------
(* Limits: requests 1 and 2 share an identity, 1 to 3 an organization.     *)
Key(d, i) == [dim |-> d, id |-> i]
AllKeys == {Key("organization", 1), Key("base", 1), Key("base", 2), Key("base", 3)}
ChargedTo == [r \in 1 .. 4 |-> CASE r \in {1, 2} -> {Key("organization", 1), Key("base", 1)}
                                 [] r = 3 -> {Key("organization", 1), Key("base", 2)}
                                 [] r = 4 -> {Key("base", 3)}]
MCPolicy == [d \in {"organization", "base"} |->
                IF d = "base" THEN [limit |-> 1, windowMs |-> 1] ELSE [limit |-> 2, windowMs |-> 2]]

(* Tenants: an administrator, and an agent that acts for its user in a project. *)
Wide == [admin |-> TRUE, read |-> TRUE, user |-> None, project |-> None, agent |-> None, scopes |-> {}]
MCPrincipals == { Wide,
                  [Wide EXCEPT !.admin = FALSE, !.user = "u", !.project = "p", !.agent = "g", !.scopes = {"p"}] }
Op(verb, kind, u, p, g, there) ==
    [verb |-> verb, kind |-> kind, user |-> u, project |-> p, agent |-> g, expected |-> there]
MCOps == { Op("provision", None, None, None, None, FALSE), Op("read", "project", None, "p", None, FALSE),
           Op("grant", None, "u", "p", None, FALSE), Op("revoke", None, "u", "p", None, FALSE),
           Op("put", "user", "u", None, None, FALSE), Op("put", "user", "u", None, None, TRUE),
           Op("delete", "user", "u", None, None, TRUE),
           Op("put", "project", None, "p", None, FALSE), Op("delete", "project", None, "p", None, TRUE),
           Op("put", "agent", "u", "p", "g", FALSE), Op("delete", "agent", None, None, "g", TRUE) }

(* Policy: a project member, an organization-wide reader of the same         *)
(* organization, and a writer of another one.                                *)
Row(org, project, level, expires) ==
    [org |-> org, by |-> org, named |-> {}, project |-> project, sensitivity |-> level, trust |-> "trusted",
     legalHold |-> FALSE, expiresAt |-> expires]
MCRows == { Row("A", "p", 0, 1), Row("B", None, 0, None),
            [Row("A", None, 1, None) EXCEPT !.trust = "unverified"] }
MCPatches == { [f \in {"org"} |-> "B"], [f \in {"legalHold"} |-> FALSE] }
Grant(org, project, caps, clearance, operation, lifetime, deadline) ==
    [principal |-> [org |-> org, project |-> project, caps |-> caps, clearance |-> clearance],
     scopes |-> {"p"}, operation |-> operation, replayKey |-> TRUE,
     lifetime |-> lifetime, deadline |-> deadline]
MCGrants == { Grant("A", "p", {"tenant:read", "tenant:write"}, None, "read", 1, None),
              Grant("A", None, {"tenant:read", "tenant:export", "provider:transmit"}, 1, "export", 2, 1),
              Grant("B", None, {"tenant:read", "tenant:write"}, 3, "update", 2, None) }
Layer(source, effect) == [source |-> source, effect |-> effect, reason |-> "retention_denied"]
MCLayerings == {{}, {Layer(1, "redact"), Layer(2, "deny")}, {Layer(1, "allow"), Layer(3, "quarantine")}}

(* A record each of two organizations.                                      *)
MCOrgOf == <<"A", "B">>
-----------------------------------------------------------------------------
\* The models that are off stay in one of their initial states.
EdgeInit ==
    /\ part \in {"limits", "http", "tenants", "guard", "lifecycle", "audit"}
    /\ (part # "limits" => store = CHOOSE s \in Stores : TRUE)              /\ LimitInit
    /\ (part # "guard" => rows = [id \in Ids |-> Absent])                   /\ GuardInit
    /\ LifecycleInit /\ (part # "lifecycle" => \A i \in Records : rec[i].expiresAt = NoTime)
    /\ HttpInit /\ TenantInit /\ AuditInit

EdgeNext ==
    /\ \/ part = "limits"    /\ LimitNext
          /\ UNCHANGED <<httpVars, tenantVars, guardVars, lifecycleVars, auditVars>>
       \/ part = "http"      /\ HttpNext
          /\ UNCHANGED <<limitVars, tenantVars, guardVars, lifecycleVars, auditVars>>
       \/ part = "tenants"   /\ TenantNext
          /\ UNCHANGED <<limitVars, httpVars, guardVars, lifecycleVars, auditVars>>
       \/ part = "guard"     /\ GuardNext
          /\ UNCHANGED <<limitVars, httpVars, tenantVars, lifecycleVars, auditVars>>
       \/ part = "lifecycle" /\ LifecycleNext
          /\ UNCHANGED <<limitVars, httpVars, tenantVars, guardVars, auditVars>>
       \/ part = "audit"     /\ AuditNext
          /\ UNCHANGED <<limitVars, httpVars, tenantVars, guardVars, lifecycleVars>>
    /\ UNCHANGED part

EdgeSpec == EdgeInit /\ [][EdgeNext]_<<part, limitVars, httpVars, tenantVars, guardVars,
                                      lifecycleVars, auditVars>>

EdgeSymmetry == Permutations({a, b, c}) \cup Permutations({h1, h2})
=============================================================================
