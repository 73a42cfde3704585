--------------------------- MODULE GuardedService ---------------------------
(***************************************************************************)
(* The V6 policy: who may do what to which record.  Contexts are minted by *)
(* the host and checked for freshness (src/v6-request-context.ts), the     *)
(* evaluator decides (src/v6-policy-evaluator.ts, and its predecessor in   *)
(* src/v6-policy.ts), the predicate does so for candidates of a retrieval  *)
(* (src/v6-retrieval-policy.ts), and V6GuardedService asks before it       *)
(* touches the backend (src/v6-service-policy.ts).  Between the read that  *)
(* the decision is about and the write that it permits, others run.        *)
(*                                                                         *)
(* A band of sensitivity is its place in SENSITIVITY_ORDER.  Content, ids  *)
(* of users and agents, and inputs that the schemas refuse are left out.   *)
(***************************************************************************)
EXTENDS Integers, Sequences, FiniteSets, FiniteSetsExt

CONSTANTS Absent, Ids, Clients,
          Rows,        \* the rows the backend may start with and callers may store
          Grants,      \* what the host may mint: principal, operation, lifetime, deadline
          Directs,     \* the operations on existing rows that callers ask for
          Patches,     \* what an update may write over a row: functions of some fields
          Layerings,   \* sets of policy layers the evaluators are compared on
          MaxAge, MaxNow

VARIABLES rows, guardClock, guardCtx, guardCall

guardVars == <<rows, guardClock, guardCtx, guardCall>>

TRUST_LEVELS == {"unverified", "trusted", "verified", "system"}
Organizations == {m.org : m \in Rows} \cup {g.principal.org : g \in Grants}

RowProjects == {m.project : m \in Rows}
RowFields == {"id", "org", "project", "sensitivity", "trust", "legalHold", "expiresAt"}

\* A row of the backend: V6GuardedRow.  History: the organization that wrote it
\* last, and which of the fields to be accounted for this write named.
Accounted == {"id", "org", "legalHold"}
GuardedRows == [org : Organizations, by : Organizations, named : SUBSET Accounted,
                project : RowProjects, sensitivity : Nat, trust : TRUST_LEVELS,
                legalHold : BOOLEAN, expiresAt : Nat \cup {Absent}]

\* A patch is any part of a row: nothing restricts the fields.
IsPatch(u) == /\ DOMAIN u \subseteq RowFields
              /\ "id" \in DOMAIN u => u["id"] \in Ids
              /\ "org" \in DOMAIN u => u["org"] \in Organizations
              /\ "project" \in DOMAIN u => u["project"] \in RowProjects
              /\ "sensitivity" \in DOMAIN u => u["sensitivity"] \in Nat
              /\ "trust" \in DOMAIN u => u["trust"] \in TRUST_LEVELS
              /\ "legalHold" \in DOMAIN u => u["legalHold"] \in BOOLEAN
              /\ "expiresAt" \in DOMAIN u => u["expiresAt"] \in Nat \cup {Absent}

ASSUME GuardAssumption ==
    /\ Absent \notin GuardedRows
    /\ Rows \subseteq GuardedRows /\ \A m \in Rows : m.by = m.org
    /\ \A g \in Grants : /\ g.principal.clearance \in Nat \cup {Absent}
                         /\ g.lifetime \in Nat /\ g.deadline \in Nat \cup {Absent}
    /\ \A u \in Patches : IsPatch(u)
    /\ MaxAge \in Nat /\ MaxNow \in Nat
-----------------------------------------------------------------------------
Capability(operation) ==
    CASE operation \in {"read", "context_read", "history_read"}              -> "tenant:read"
      [] operation \in {"write", "update", "delete", "relation_write"}       -> "tenant:write"
      [] operation \in {"export", "snapshot_export"}                         -> "tenant:export"
      [] operation = "provider_transmit"                                     -> "provider:transmit"
      [] operation = "policy_admin"                                          -> "policy:admin"

OperationClass(direct) ==
    CASE direct = "store"                           -> "write"
      [] direct \in {"update", "archive", "revive"} -> "update"
      [] direct = "delete"                          -> "delete"
      [] direct \in {"read", "batch"}               -> "read"
      [] direct = "history"                         -> "history_read"
      [] direct = "relate"                          -> "relation_write"
      [] direct = "snapshot"                        -> "snapshot_export"

Clearance(p) == IF p.clearance = Absent THEN 0 ELSE p.clearance
Expired(m, now) == m.expiresAt # Absent /\ m.expiresAt <= now
-----------------------------------------------------------------------------
(* The evaluators.  Checks are asked in order, and the first that applies   *)
(* names the reason.                                                        *)

EffectRank(effect) == CASE effect = "allow"      -> 0
                        [] effect = "redact"     -> 1
                        [] effect = "quarantine" -> 2
                        [] effect = "deny"       -> 3

\* The most restrictive layer, and among equals the one of highest precedence.
ResolveLayers(layers) ==
    CHOOSE l \in layers : \A k \in layers :
       \/ EffectRank(l.effect) > EffectRank(k.effect)
       \/ EffectRank(l.effect) = EffectRank(k.effect) /\ l.source <= k.source

Decision(checks, layers) ==
    LET failing == {i \in DOMAIN checks : checks[i][1]}
    IN  IF failing # {} THEN [effect |-> "deny", reason |-> checks[Min(failing)][2]]
        ELSE IF layers # {} THEN [effect |-> ResolveLayers(layers).effect,
                                  reason |-> ResolveLayers(layers).reason]
        ELSE [effect |-> "allow", reason |-> "authorized"]

MutOtherTenant(p, m) == m.project # Absent /\ m.org # p.org
OtherTenant(p, m) == m.org # p.org
OtherProject(p, m) == m.project \notin {Absent, p.project}
NoEgress(p, operation) == operation = "provider_transmit" /\ Clearance(p) < 1

\* evaluateV6Policy(): a layer that denies comes before the capabilities.
EvaluateV6Policy(p, m, operation, layers, now) ==
    LET denying == layers # {} /\ ResolveLayers(layers).effect = "deny"
    IN  Decision(<< <<OtherTenant(p, m),                      "tenant_mismatch">>,
                    <<OtherProject(p, m),                     "project_mismatch">>,
                    <<denying,   IF denying THEN ResolveLayers(layers).reason ELSE Absent>>,
                    <<Capability(operation) \notin p.caps,    "capability_missing">>,
                    <<NoEgress(p, operation),                 "provider_not_permitted">>,
                    <<Expired(m, now),                        "expired">>,
                    <<m.sensitivity > Clearance(p),           "sensitivity_denied">>,
                    <<m.legalHold /\ operation = "delete",    "legal_hold">>,
                    <<m.trust = "unverified",                 "trust_restricted">> >>, layers)

\* evaluatePolicy(), the single-layer form, knows fewer operations and asks for
\* the layers last.
PolicyOperations == {"read", "write", "update", "delete", "export", "provider_transmit"}
EvaluatePolicy(p, m, operation, layers, now) ==
    Decision(<< <<OtherTenant(p, m),                      "tenant_mismatch">>,
                <<OtherProject(p, m),                     "project_mismatch">>,
                <<Capability(operation) \notin p.caps,    "capability_missing">>,
                <<NoEgress(p, operation),                 "provider_not_permitted">>,
                <<m.sensitivity > Clearance(p),           "sensitivity_denied">>,
                <<Expired(m, now),                        "expired">>,
                <<m.legalHold /\ operation = "delete",    "legal_hold">>,
                <<m.trust = "unverified",                 "trust_restricted">> >>, layers)
-----------------------------------------------------------------------------
(* The retrieval boundary.                                                  *)

ExcludesHeld(operation) == operation \in {Absent, "context_read"}

\* The bands that the clearance reaches, as the predicate lists them.
Reachable(p) == 0 .. Clearance(p)

\* buildV6Predicate(): exact tenant and project, reachable bands, unexpired.
Admitted(p, m, operation, now) ==
    /\ m.org = p.org /\ m.project = p.project
    /\ m.sensitivity \in Reachable(p)
    /\ ~Expired(m, now)
    /\ ExcludesHeld(operation) => ~m.legalHold

\* guardCandidateSet(), before its limit.
Candidate(p, m, now) ==
    /\ m.org = p.org /\ p.project \in {Absent, m.project}
    /\ m.sensitivity <= Clearance(p)
    /\ ~Expired(m, now) /\ ~m.legalHold
-----------------------------------------------------------------------------
(* Contexts.                                                                *)

Mutating == {"write", "update", "delete", "relation_write", "export", "snapshot_export", "policy_admin"}

\* RequestPrincipalSchema and RequestContextSchema: what they ask of a grant.  (A
\* scoped principal that names no capabilities is minted too, and never fresh.)
MayMint(g) ==
    LET p == g.principal
    IN  /\ p.caps # {}
        /\ IF p.project # Absent THEN g.scopes # {} ELSE p.caps \cap {"tenant:read", "policy:admin"} # {}
        /\ "tenant:admin" \in p.caps => "tenant:read" \in p.caps
        /\ g.operation \in Mutating => g.replayKey
        /\ g.lifetime > 0 /\ (g.deadline # Absent => g.deadline > 0)

CreateRequestContext(c, g) ==
    /\ guardCtx[c] = Absent /\ MayMint(g)
    /\ \E resolved \in {0, guardClock} :
          guardCtx' = [guardCtx EXCEPT ![c] = [principal |-> g.principal, operation |-> g.operation,
                                     authExpiresAt |-> guardClock + g.lifetime, resolvedAt |-> resolved,
                                     deadlineAt |-> IF g.deadline = Absent THEN Absent
                                                    ELSE guardClock + g.deadline]]
    /\ UNCHANGED <<rows, guardClock, guardCall>>

\* assertFreshContext(), as the service calls it: without a directory version.
Fresh(x, now) ==
    /\ x.authExpiresAt > now
    /\ now - x.resolvedAt <= MaxAge
    /\ x.deadlineAt # Absent => x.deadlineAt > now
    /\ Capability(x.operation) \in x.principal.caps
-----------------------------------------------------------------------------
(* V6GuardedService.  An operation that is refused throws and is over.      *)

Writing == {"update", "delete", "archive", "revive"}

\* #guard() up to the fetch; the service keeps the time it was made at.
Guard(c, direct, id) ==
    /\ guardCtx[c] # Absent /\ guardCall[c] = Absent
    /\ Fresh(guardCtx[c], guardClock)
    /\ guardCall' = [guardCall EXCEPT ![c] = [direct |-> direct, id |-> id, now |-> guardClock, row |-> Absent]]
    /\ UNCHANGED <<rows, guardClock, guardCtx>>

\* The fetch and the decision.  What is only read is returned at once.
Permitted(c, m) ==
    EvaluateV6Policy(guardCtx[c].principal, m, OperationClass(guardCall[c].direct), {}, guardCall[c].now).effect = "allow"

Fetched(c) ==
    /\ guardCall[c] # Absent /\ guardCall[c].row = Absent
    /\ LET m == rows[guardCall[c].id]
       IN  guardCall' = [guardCall EXCEPT ![c] = IF m # Absent /\ guardCall[c].direct \in Writing /\ Permitted(c, m)
                                       THEN [@ EXCEPT !.row = m] ELSE Absent]
    /\ UNCHANGED <<rows, guardClock, guardCtx>>

\* archive() and revive() are update() with an empty patch.
NoPatch == [f \in {} |-> f]
PatchesOf(direct) == IF direct = "update" THEN Patches ELSE {NoPatch}

\* The row as it was fetched, with the patch over it: any field, the id and the
\* organization included, and no further decision.
Field(m, u, f) == IF f \in DOMAIN u THEN u[f] ELSE m[f]
Patched(m, u, org) ==
    [org |-> Field(m, u, "org"), by |-> org, named |-> DOMAIN u \cap Accounted,
     project |-> Field(m, u, "project"), sensitivity |-> Field(m, u, "sensitivity"),
     trust |-> Field(m, u, "trust"), legalHold |-> Field(m, u, "legalHold"),
     expiresAt |-> Field(m, u, "expiresAt")]

\* delete(), or put() under the id of the patched row.
Write(c) ==
    /\ guardCall[c] # Absent /\ guardCall[c].row # Absent
    /\ LET call == guardCall[c]
           id(u) == IF "id" \in DOMAIN u THEN u["id"] ELSE call.id
       IN  \/ call.direct = "delete" /\ rows' = [rows EXCEPT ![call.id] = Absent]
           \/ /\ call.direct # "delete"
              /\ \E u \in PatchesOf(call.direct) :
                    rows' = [rows EXCEPT ![id(u)] = Patched(call.row, u, guardCtx[c].principal.org)]
    /\ guardCall' = [guardCall EXCEPT ![c] = Absent]
    /\ UNCHANGED <<guardClock, guardCtx>>

\* store(): decided on the row that would be written, under the id "pending".
Store(c, m) ==
    /\ guardCtx[c] # Absent /\ guardCall[c] = Absent
    /\ Fresh(guardCtx[c], guardClock)
    /\ EvaluateV6Policy(guardCtx[c].principal, m, "write", {}, guardClock).effect = "allow"
    /\ rows' = [rows EXCEPT !["pending"] = [m EXCEPT !.by = guardCtx[c].principal.org, !.named = Accounted]]
    /\ UNCHANGED <<guardClock, guardCtx, guardCall>>

\* The request ends, the operator sets or lifts a hold, and time passes.
EndRequest(c) == /\ guardCtx[c] # Absent /\ guardCall[c] = Absent
                 /\ guardCtx' = [guardCtx EXCEPT ![c] = Absent]
                 /\ UNCHANGED <<rows, guardClock, guardCall>>

SetHold(id) == /\ rows[id] # Absent
               /\ rows' = [rows EXCEPT ![id].legalHold = ~@]
               /\ UNCHANGED <<guardClock, guardCtx, guardCall>>

GuardTick == guardClock < MaxNow /\ guardClock' = guardClock + 1 /\ UNCHANGED <<rows, guardCtx, guardCall>>
-----------------------------------------------------------------------------
GuardInit ==
    /\ rows \in [Ids -> Rows \cup {Absent}]
    /\ guardClock = 0
    /\ guardCtx = [c \in Clients |-> Absent] /\ guardCall = [c \in Clients |-> Absent]

GuardNext ==
    \/ \E c \in Clients :
          \/ \E g \in Grants : CreateRequestContext(c, g)
          \/ \E direct \in Directs, id \in Ids : Guard(c, direct, id)
          \/ \E m \in Rows : Store(c, m)
          \/ Fetched(c) \/ Write(c) \/ EndRequest(c)
    \/ \E id \in Ids : SetHold(id)
    \/ GuardTick

GuardSpec == GuardInit /\ [][GuardNext]_guardVars
-----------------------------------------------------------------------------
\* A row is in the organization of its last writer unless the writer's patch itself
\* named an organization: what a call writes back is the row it fetched and not
\* the one that is there.
WriterOwnsRow ==
    \A id \in Ids : rows[id] # Absent => rows[id].by = rows[id].org \/ "org" \in rows[id].named

\* The two evaluators, which ask in different orders, permit the same.  The
\* predicate of a retrieval and the filter of its candidates see the same rows;
\* where they part is a principal without a project, to whom the filter shows the
\* rows of all projects, and a held row outside context_read, which only the
\* predicate shows.  And what both see a direct read would return, unless it is
\* unverified.  (A call changes no context, and no row before it ends, so that it
\* is enough to look between the calls.)
DecisionsAgree ==
    (\A c \in Clients : guardCall[c] = Absent) => \A c \in Clients, id \in Ids :
       guardCtx[c] # Absent /\ rows[id] # Absent =>
       LET p == guardCtx[c].principal
           m == rows[id]
       IN  /\ \A operation \in PolicyOperations, layers \in Layerings :
                 EvaluateV6Policy(p, m, operation, layers, guardClock).effect
                    = EvaluatePolicy(p, m, operation, layers, guardClock).effect
           /\ \A operation \in {Absent, "context_read", "read"} :
                 /\ p.project # Absent \/ m.project = Absent
                 /\ ExcludesHeld(operation) \/ ~m.legalHold
                 => (Admitted(p, m, operation, guardClock) <=> Candidate(p, m, guardClock))
           /\ Admitted(p, m, "context_read", guardClock)
              /\ "tenant:read" \in p.caps /\ m.trust # "unverified" =>
                    EvaluateV6Policy(p, m, "context_read", {}, guardClock).effect = "allow"

\* A hold ends by name: the operator lifts it, or a write names the hold or the id
\* that the row is stored under.  Otherwise a deletion or an update took it
\* away whose caller had fetched the row before the hold was set: the decision
\* is not made again after the await.
OnHold(m) == m # Absent /\ m.legalHold
HoldsEndByName ==
    [][\A id \in Ids : OnHold(rows[id]) /\ ~OnHold(rows'[id]) =>
          \/ guardCall' = guardCall /\ rows'[id] = [rows[id] EXCEPT !.legalHold = FALSE]
          \/ rows'[id] # Absent /\ rows'[id].named \cap {"id", "legalHold"} # {}
          \/ \E c \in Clients : /\ guardCall[c] # Absent /\ guardCall[c].row # Absent
                               /\ guardCall[c].id = id /\ ~guardCall[c].row.legalHold
                               /\ guardCall'[c] = Absent]_guardVars

\* All of it: rows stay with the organization of their writer unless a patch says
\* otherwise, the evaluators and the two sides of a retrieval decide alike, and
\* nobody loses a hold that was there when the decision was made.
PolicyHolds == [](WriterOwnsRow /\ DecisionsAgree) /\ HoldsEndByName
=============================================================================
