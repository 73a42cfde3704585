------------------------------ MODULE Tenants ------------------------------
(***************************************************************************)
(* The tenant directory (tenant-directory.ts) kept in a file               *)
(* (tenant-directory-file.ts), the entity service over it                  *)
(* (tenant-entities.ts) and the authorization decision (authorization.ts)  *)
(* for one organization.  A host mints contexts that carry the membership  *)
(* version it read; each call awaits the directory several times, and      *)
(* calls of other tenants of the process, failed writes and crashes come   *)
(* in between.                                                             *)
(***************************************************************************)
EXTENDS Integers, FiniteSets

CONSTANTS
    Callers,        \* hosts that hold one context and make one call at a time
    Users, Projects, Agents,
    Principals,     \* claims a host may put in a context
    Ops,            \* calls of the entity service that are explored
    None,           \* an absent field, directory, context or caller
    MaxVersion      \* bound: the membership version

(* What the entity service lets through: an operation on an entity names it. *)
Operations == [verb : {"provision", "read", "grant", "revoke", "put", "delete"},
               kind : {"user", "project", "agent", None},
               user : Users \cup {None}, project : Projects \cup {None}, agent : Agents \cup {None},
               expected : BOOLEAN]

Directories == [version : Nat, users : SUBSET Users, projects : SUBSET Projects,
                members : SUBSET (Projects \X Users),
                agents : [Agents -> [user : Users \cup {None}, project : Projects \cup {None}, exists : BOOLEAN]],
                assoc : [Agents -> Projects \cup {None}]]

ASSUME TenantAssumption ==
    /\ None \notin Directories \cup Callers \cup Users \cup Projects \cup Agents
    /\ Ops \subseteq Operations
    /\ \A op \in Ops : op.verb \in {"put", "delete"} =>
           /\ op.kind \in {"user", "project", "agent"}
           /\ op.kind = "user" => op.user # None
           /\ op.kind = "project" => op.project # None
           /\ op.kind = "agent" => op.agent # None

VARIABLES
    disk,           \* the directory file, or None when there is none
    dir,            \* this.state of the process, None until it is loaded
    usable,         \* FALSE once loadPromise rejected: it is never retried
    queue,          \* the caller whose mutation holds operationQueue, or None
    before,         \* the snapshot mutate() took before it applied its change
    ctx,            \* ctx[c]: the context of caller c and the directory it was minted from
    call            \* call[c]: the call of c and the await it stands at

tenantVars == <<disk, dir, usable, queue, before, ctx, call>>

-----------------------------------------------------------------------------
(* InMemoryTenantDirectory: version 0 stands for "no organization". *)

NoAgent == [user |-> None, project |-> None, exists |-> FALSE]
EmptyDirectory ==
    [version |-> 0, users |-> {}, projects |-> {}, members |-> {},
     agents |-> [a \in Agents |-> NoAgent], assoc |-> [a \in Agents |-> None]]

Bump(d) == [d EXCEPT !.version = @ + 1]

(* createOrganization(): refused when the organization is there. *)
CreateOrganization(d) == [d EXCEPT !.version = 1]

UpsertUser(d, u) == Bump([d EXCEPT !.users = @ \cup {u}])

(* removeUser(): its memberships and its agents go with it. *)
RemoveUser(d, u) ==
    LET gone == {a \in Agents : d.agents[a].user = u}
    IN  Bump([d EXCEPT
                !.users = @ \ {u},
                !.members = {m \in @ : m[2] # u},
                !.agents = [a \in Agents |-> IF a \in gone THEN NoAgent ELSE @[a]],
                !.assoc = [a \in Agents |-> IF a \in gone THEN None ELSE @[a]]])

UpsertProject(d, p) == Bump([d EXCEPT !.projects = @ \cup {p}])

(* removeProject(): its agents stay, without a project. *)
RemoveProject(d, p) ==
    Bump([d EXCEPT
            !.projects = @ \ {p},
            !.members = {m \in @ : m[1] # p},
            !.assoc = [a \in Agents |-> IF @[a] = p THEN None ELSE @[a]],
            !.agents = [a \in Agents |-> IF @[a].project = p THEN [@[a] EXCEPT !.project = None]
                                                             ELSE @[a]]])

UpsertAgent(d, a, u, p) ==
    Bump([d EXCEPT !.agents[a] = [user |-> u, project |-> p, exists |-> TRUE], !.assoc[a] = p])

RemoveAgent(d, a) == Bump([d EXCEPT !.agents[a] = NoAgent, !.assoc[a] = None])

GrantProjectMembership(d, p, u) == Bump([d EXCEPT !.members = @ \cup {<<p, u>>}])

RevokeProjectMembership(d, p, u) == Bump([d EXCEPT !.members = @ \ {<<p, u>>}])

(* What each mutation of the directory requires, and what it makes of it. *)
Accepts(d, op) ==
    IF op.verb = "provision" THEN d.version = 0
    ELSE /\ d.version > 0
         /\ (op.verb = "put" /\ op.kind = "agent") =>
                /\ op.user = None \/ op.user \in d.users
                /\ op.project = None \/ op.project \in d.projects
         /\ op.verb = "grant" => op.project \in d.projects /\ op.user \in d.users

Applied(d, op) ==
    CASE op.verb = "provision" -> CreateOrganization(d)
      [] op.verb = "grant"  -> GrantProjectMembership(d, op.project, op.user)
      [] op.verb = "revoke" -> RevokeProjectMembership(d, op.project, op.user)
      [] op.verb = "put" /\ op.kind = "user"    -> UpsertUser(d, op.user)
      [] op.verb = "put" /\ op.kind = "project" -> UpsertProject(d, op.project)
      [] op.verb = "put" /\ op.kind = "agent"   -> UpsertAgent(d, op.agent, op.user, op.project)
      [] op.verb = "delete" /\ op.kind = "user"    -> RemoveUser(d, op.user)
      [] op.verb = "delete" /\ op.kind = "project" -> RemoveProject(d, op.project)
      [] op.verb = "delete" /\ op.kind = "agent"   -> RemoveAgent(d, op.agent)

(* fromSnapshot() accepts a file whose references all resolve. *)
FromSnapshot(d) ==
    /\ \A a \in Agents : d.agents[a].exists =>
           /\ d.agents[a].user \in d.users \cup {None}
           /\ d.agents[a].project \in d.projects \cup {None}
    /\ d.members \subseteq d.projects \X d.users
    /\ \A a \in Agents : d.assoc[a] = d.agents[a].project

(* verifyContext() of a principal against the directory. *)
Allowed(d, p) ==
    \/ p.user # None /\ <<p.project, p.user>> \in d.members
    \/ p.agent # None /\ d.assoc[p.agent] = p.project

VerifyContext(d, c) ==
    LET p == c.principal
    IN  /\ d.version > 0 /\ d.version = c.version
        /\ p.user # None => p.user \in d.users
        /\ p.agent # None =>
              LET agent == d.agents[p.agent]
              IN  /\ agent.exists
                  /\ p.user = None \/ agent.user = None \/ agent.user = p.user
                  /\ p.project = None \/ agent.project = None \/ agent.project = p.project
        /\ p.project # None =>
              /\ p.project \in d.projects
              /\ p.admin \/ (Allowed(d, p) /\ p.project \in p.scopes)

(* TenantPrincipalSchema: what createTenantContext() refuses to mint. *)
OrganizationWide(p) == p.user = None /\ p.project = None /\ p.agent = None
Parsed(p) == /\ ~OrganizationWide(p) => p.scopes # {}
             /\ OrganizationWide(p) => p.read
             /\ p.admin => p.read

(* evaluateAuthorization() and authorizeAdmin(): mutations are for an      *)
(* organization-wide administrator, reads for whoever may read.            *)
Authorizes(p, op) ==
    IF op.verb = "read" THEN p.read \/ p.admin ELSE p.admin /\ OrganizationWide(p)

-----------------------------------------------------------------------------
NoCall == [op |-> None, pc |-> "idle"]
NoContext == [principal |-> None, version |-> 0, minted |-> None]

TenantInit ==
    /\ disk = None /\ dir = None /\ usable = TRUE
    /\ queue = None /\ before = None
    /\ ctx = [c \in Callers |-> NoContext]
    /\ call = [c \in Callers |-> NoCall]

MoveTo(c, pc) == call' = [call EXCEPT ![c].pc = pc]
Return(c) == call' = [call EXCEPT ![c] = NoCall]
Ready == queue = None /\ dir # None

(* ensureLoaded(): the first operation reads the file, once. *)
Load ==
    /\ dir = None /\ usable /\ queue = None
    /\ IF disk = None THEN dir' = EmptyDirectory /\ UNCHANGED usable
       ELSE IF FromSnapshot(disk) THEN dir' = disk /\ UNCHANGED usable
       ELSE usable' = FALSE /\ UNCHANGED dir
    /\ UNCHANGED <<disk, queue, before, ctx, call>>

(* The host reads getMembershipVersion() and mints a context. *)
Mint(c, p) ==
    /\ Ready /\ call[c].pc = "idle" /\ Parsed(p) /\ dir.version > 0
    /\ ctx' = [ctx EXCEPT ![c] = [principal |-> p, version |-> dir.version, minted |-> dir]]
    /\ UNCHANGED <<disk, dir, usable, queue, before, call>>

(* provisionOrganization() asks the host's hook and no context. *)
Call(c, op) ==
    /\ call[c].pc = "idle"
    /\ op.verb = "provision" \/ ctx[c] # NoContext
    /\ call' = [call EXCEPT ![c] = [op |-> op,
                    pc |-> IF op.verb = "provision" THEN "mutate" ELSE "authorize"]]
    /\ UNCHANGED <<disk, dir, usable, queue, before, ctx>>

(* authorize(): the answer of verifyContext() is used after an await. *)
Authorize(c) ==
    /\ Ready /\ call[c].pc = "authorize"
    /\ IF ~VerifyContext(dir, ctx[c]) \/ ~Authorizes(ctx[c].principal, call[c].op) THEN Return(c)
       ELSE MoveTo(c, IF call[c].op.verb \in {"grant", "revoke"} THEN "mutate" ELSE "check")
    /\ UNCHANGED <<disk, dir, usable, queue, before, ctx>>

(* The snapshot that create, update and delete look the entity up in. *)
Exists(d, op) ==
    CASE op.kind = "user" -> op.user \in d.users
      [] op.kind = "project" -> op.project \in d.projects
      [] op.kind = "agent" -> d.agents[op.agent].exists

Check(c) ==
    LET op == call[c].op
    IN  /\ Ready /\ call[c].pc = "check"
        /\ IF op.verb = "read" \/ Exists(dir, op) # op.expected THEN Return(c) ELSE MoveTo(c, "mutate")
        /\ UNCHANGED <<disk, dir, usable, queue, before, ctx>>

(* mutate(): the change is applied in memory and the queue held during     *)
(* persist(); a refused change restores the snapshot at once.              *)
Mutate(c) ==
    /\ Ready /\ call[c].pc = "mutate"
    /\ IF ~Accepts(dir, call[c].op)
       THEN Return(c) /\ UNCHANGED <<dir, queue, before>>
       ELSE /\ dir.version < MaxVersion
            /\ before' = dir
            /\ dir' = Applied(dir, call[c].op)
            /\ queue' = c
            /\ MoveTo(c, "persist")
    /\ UNCHANGED <<disk, usable, ctx>>

(* persist() renames a complete file into place. *)
Persist(c) ==
    /\ queue = c /\ call[c].pc = "persist"
    /\ disk' = dir
    /\ MoveTo(c, IF call[c].op.verb = "put" THEN "reread" ELSE "audit")
    /\ queue' = None /\ before' = None
    /\ UNCHANGED <<dir, usable, ctx>>

MutRestored(d, snapshot) == [d EXCEPT !.version = snapshot.version]
(* A failed persist() goes back to the snapshot. *)
Restored(d, snapshot) == snapshot

PersistFails(c) ==
    /\ queue = c /\ call[c].pc = "persist"
    /\ dir' = Restored(dir, before)
    /\ Return(c)
    /\ queue' = None /\ before' = None
    /\ UNCHANGED <<disk, usable, ctx>>

(* auditAndReturn() looks for the entity again; another call may have      *)
(* deleted it meanwhile, and then a change that was made reports NOT_FOUND. *)
Reread(c) ==
    /\ Ready /\ call[c].pc = "reread"
    /\ IF Exists(dir, call[c].op) THEN MoveTo(c, "audit") ELSE Return(c)
    /\ UNCHANGED <<disk, dir, usable, queue, before, ctx>>

Audit(c) ==
    /\ Ready /\ call[c].pc = "audit"
    /\ Return(c)
    /\ UNCHANGED <<disk, dir, usable, queue, before, ctx>>

(* The process dies, before or after the rename of a running persist().    *)
(* The hosts keep their contexts.                                          *)
Crash ==
    /\ dir # None \/ ~usable
    /\ dir' = None /\ usable' = TRUE /\ before' = None /\ queue' = None
    /\ call' = [c \in Callers |-> NoCall]
    /\ disk' \in IF queue = None THEN {disk} ELSE {disk, dir}
    /\ UNCHANGED ctx

Step(c) == Authorize(c) \/ Check(c) \/ Mutate(c) \/ Persist(c) \/ PersistFails(c) \/ Reread(c) \/ Audit(c)

TenantNext ==
    \/ Load \/ Crash
    \/ \E c \in Callers : Step(c)
    \/ \E c \in Callers, p \in Principals : Mint(c, p)
    \/ \E c \in Callers, op \in Ops : Call(c, op)

TenantSpec == TenantInit /\ [][TenantNext]_tenantVars

-----------------------------------------------------------------------------
(* A context verifyContext() accepts was minted from the directory as it   *)
(* stands: no grant, revocation, removal, failed write or crash lies        *)
(* between the two, so what the host knew of the membership still holds    *)
(* (tenant-directory.ts:344-348, bump()).                                  *)
VerifiedIsCurrent ==
    dir # None => \A c \in Callers :
        ctx[c] # NoContext /\ VerifyContext(dir, ctx[c]) => ctx[c].minted = dir

(* Whatever was written can be loaded again: no sequence of removals,      *)
(* moves and grants leaves a reference that fromSnapshot() rejects, which  *)
(* would make every later start of the server fail                         *)
(* (tenant-directory.ts:155-215 against 217-342).                          *)
DirectoryLoads == (disk # None => FromSnapshot(disk)) /\ usable

(* Both: a context that is accepted was minted from the directory as it    *)
(* stands, and whatever the directory has written can be loaded again.     *)
TenantsHold == VerifiedIsCurrent /\ DirectoryLoads
=============================================================================
