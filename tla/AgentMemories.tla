---------------------------- MODULE AgentMemories ---------------------------
(***************************************************************************)
(* Agent mode of src/service.ts and src/agent.ts, and the snapshots: who   *)
(* may read and write which memory, what an export shows of it, and what   *)
(* an import makes of that.  A call is one step here (MemoryService has    *)
(* the awaits within the calls), except an import: its preflight reads the *)
(* store, and its batch lands when other calls may have changed it.        *)
(***************************************************************************)
EXTENDS Naturals, FiniteSets

CONSTANTS Agents, Nobody,     \* verified identities, and a caller without one
          AgentIds, AgentTexts, Global,
          ScopesOf,           \* the scopes that each agent may use
          Inputs,             \* what callers ask store() to keep
          MinPool,            \* fewer memories compress() leaves alone
          AgentWorkloads,     \* the sets of calls that are made, one per behaviour
          MaxCalls            \* bound on the calls of a behaviour

ASSUME AgentAssumption == Nobody \notin Agents /\ MinPool \in Nat /\ MaxCalls \in Nat

VARIABLES rows,       \* the backend: a memory or NoRecord for each id
          seen,       \* ids that have been in this store
          used,       \* ids that have been given out anywhere
          snapshot,   \* the memories of the snapshot file, by id
          import,     \* the import that has passed its preflight
          tenant,     \* TRUE: the calls carry a tenant context
          restored,   \* what the imports that ended have answered for
          agentWork, calls

agentVars == <<rows, seen, used, snapshot, import, tenant, restored, agentWork, calls>>

Callers  == Agents \cup {Nobody}
Scopes   == {Global} \cup UNION {ScopesOf[a] : a \in Agents}
Accesses == {"global", "shared", "private"}
NoRecord == [access |-> "none"]
NoImport == [by |-> "none"]
Kept     == {id \in AgentIds : rows[id] # NoRecord}
Fresh    == {id \in AgentIds \ used : \A i \in AgentIds \ used : id <= i}

ASSUME InputsAssumption ==
    Inputs \subseteq [scope : Scopes, text : AgentTexts, access : Accesses, by : Callers]

AgentInit == /\ rows = [id \in AgentIds |-> NoRecord]
             /\ seen = {} /\ used = {} /\ restored = {} /\ calls = 0
             /\ snapshot = [id \in {} |-> NoRecord]
             /\ import = NoImport
             /\ tenant \in BOOLEAN
             /\ agentWork \in AgentWorkloads

Called(op) == op \in agentWork /\ calls < MaxCalls /\ calls' = calls + 1
-----------------------------------------------------------------------------
(* The rules.                                                              *)

CanUseScope(s, c) == s = Global \/ (c # Nobody /\ s \in ScopesOf[c])

CanRead(m, c) == /\ CanUseScope(m.scope, c)
                 /\ \/ m.access = "global"
                    \/ c # Nobody /\ (m.access = "shared" \/ m.by = c)

Visible(c) == {id \in Kept : CanRead(rows[id], c)}

\* canonicalizeAgentInput(): an attribution that is not the caller's own is
\* refused, and the caller's own is filled in.
Attributable(m, c) == m.by \in {Nobody, c}
Canonical(m, c) == [m EXCEPT !.by = c]

AgentWrite(m, c) == /\ CanUseScope(m.scope, c)
                    /\ m.access = "private" => c # Nobody /\ m.by = c

\* relations, and supersededBy with compressedFrom.
References(m) == m.rel \cup m.sup

\* assertTenantReferences(): without a tenant nothing is looked up.
MayRefer(m, c, allowed) == tenant => References(m) \subseteq Visible(c) \cup allowed

Sanitized(m, S) == [m EXCEPT !.rel = @ \cap S, !.sup = @ \cap S]

\* dedupKey().
KeyOf(m) == <<m.scope, m.text>>
-----------------------------------------------------------------------------
(* The calls.                                                              *)

Put(id, m) == /\ rows' = [rows EXCEPT ![id] = m]
              /\ seen' = seen \cup {id} /\ used' = used \cup {id}

AgentStore(c) == /\ Called("store")
                 /\ \E in \in Inputs, id \in Fresh, old \in {{}} \cup {{i} : i \in used} :
                       LET m == [scope |-> in.scope, text |-> in.text, access |-> in.access, by |-> in.by,
                                 rel |-> {}, sup |-> old]
                       IN /\ Attributable(m, c) /\ AgentWrite(Canonical(m, c), c) /\ MayRefer(m, c, {})
                          /\ Put(id, Canonical(m, c))
                 /\ UNCHANGED <<snapshot, import, tenant, restored>>

\* The memory, and with it what stands for its equals in a snapshot, is no longer
\* what an import has found or left.
Changes(id) ==
    LET Other(S) == {e \in S : /\ e.id # id /\ e.key # KeyOf(rows[id])
                               /\ \A f \in S : f.id = id => f.key # e.key}
    IN /\ restored' = Other(restored)
       /\ import' = IF import = NoImport THEN import ELSE [import EXCEPT !.owed = Other(@)]

Update(c, id) == /\ Called("update") /\ id \in Visible(c)
                 /\ \E s \in Scopes, t \in AgentTexts :
                       /\ CanUseScope(s, c)
                       /\ <<s, t>> # KeyOf(rows[id])
                       /\ rows' = [rows EXCEPT ![id].scope = s, ![id].text = t]
                 /\ Changes(id)
                 /\ UNCHANGED <<seen, used, snapshot, tenant>>

AgentForget(c, id) == /\ Called("forget") /\ id \in Visible(c)
                      /\ rows' = [rows EXCEPT ![id] = NoRecord]
                      /\ Changes(id)
                      /\ UNCHANGED <<seen, used, snapshot, tenant>>

\* Both ends must be readable, to unlink them as well.
Relate(c, id) == /\ Called("relate") /\ id \in Visible(c)
                 /\ \E r \in Visible(c) \ {id} :
                       \E rel \in {rows[id].rel \cup {r}, rows[id].rel \ {r}} :
                          rows' = [rows EXCEPT ![id].rel = rel]
                 /\ UNCHANGED <<seen, used, snapshot, import, tenant, restored>>

\* The scope is the one asked for, whose pool are the memories in it and the
\* global ones, or that of the oldest source.  A private source makes the
\* result private to the caller.
Compressed(pool, s, t, c) ==
    [scope |-> s, text |-> t, by |-> c, rel |-> {}, sup |-> pool,
     access |-> IF \E id \in pool : rows[id].access = "private" THEN "private" ELSE "global"]

Compress(c) ==
    /\ Called("compress")
    /\ \E pool \in SUBSET Visible(c), s \in Scopes, t \in AgentTexts, id \in Fresh :
          /\ Cardinality(pool) >= MinPool
          /\ \/ \A i \in pool : rows[i].scope \in {s, Global}
             \/ \E i \in pool : rows[i].scope = s
          /\ AgentWrite(Compressed(pool, s, t, c), c)
          /\ Put(id, Compressed(pool, s, t, c))
    /\ UNCHANGED <<snapshot, import, tenant, restored>>
-----------------------------------------------------------------------------
(* Snapshots.                                                              *)

\* exportSnapshot() of all that the caller sees, or the batch of some of it; one
\* snapshot in a behaviour.
Export(c) == /\ Called("export") /\ DOMAIN snapshot = {}
             /\ \E S \in SUBSET Visible(c) :
                   snapshot' = [id \in S |-> Sanitized(rows[id], S)]
             /\ UNCHANGED <<rows, seen, used, import, tenant, restored>>

\* What the store has, by id or by content, is skipped; of two memories of the
\* snapshot with the same content the first one is taken.
NewTo(c) == {id \in DOMAIN snapshot : /\ id \notin Visible(c)
                                      /\ KeyOf(snapshot[id]) \notin {KeyOf(rows[i]) : i \in Visible(c)}}
Taken(c) == {S \in SUBSET NewTo(c) :
                /\ \A i, k \in S : KeyOf(snapshot[i]) = KeyOf(snapshot[k]) => i = k
                /\ \A i \in NewTo(c) : \E k \in S : KeyOf(snapshot[i]) = KeyOf(snapshot[k])}

\* One record that may not be written refuses the whole snapshot.
Accepted(S, c) == \A id \in S : /\ Attributable(snapshot[id], c)
                                /\ AgentWrite(Canonical(snapshot[id], c), c)
                                /\ MayRefer(snapshot[id], c, S)

\* Relations to what the caller cannot see go.
Prepared(id, c) == [Canonical(snapshot[id], c) EXCEPT !.rel = @ \ (Kept \ Visible(c))]

PrepareSnapshotImport(c) ==
    /\ Called("import") /\ import = NoImport
    /\ \E S \in Taken(c) :
          /\ Accepted(S, c)
          /\ import' = [by |-> c, batch |-> [id \in S |-> Prepared(id, c)],
                        owed |-> {[id |-> id, key |-> KeyOf(snapshot[id])] : id \in DOMAIN snapshot}]
    /\ UNCHANGED <<rows, seen, used, snapshot, tenant, restored>>

\* importBatch() writes all that is absent, or fails and leaves nothing.
MutLanding(b) == DOMAIN b \ used
Landing(b) == DOMAIN b \ Kept

ImportSnapshot ==
    /\ import # NoImport
    /\ import' = NoImport
    /\ \/ LET landing == Landing(import.batch)
          IN /\ rows' = [id \in AgentIds |-> IF id \in landing THEN import.batch[id] ELSE rows[id]]
             /\ seen' = seen \cup landing
             /\ restored' = restored \cup import.owed
       \/ UNCHANGED <<rows, seen, restored>>
    /\ UNCHANGED <<used, snapshot, tenant, calls>>

\* The snapshot is carried to an empty store.
EmptyStore == /\ Called("empty") /\ Kept # {} /\ DOMAIN snapshot # {} /\ import = NoImport
              /\ rows' = [id \in AgentIds |-> NoRecord]
              /\ seen' = {} /\ restored' = {}
              /\ UNCHANGED <<used, snapshot, import, tenant>>

AgentStep == \/ \E c \in Callers : \/ AgentStore(c) \/ Compress(c) \/ Export(c) \/ PrepareSnapshotImport(c)
                                   \/ \E id \in AgentIds : Update(c, id) \/ AgentForget(c, id) \/ Relate(c, id)
             \/ ImportSnapshot \/ EmptyStore

AgentNext == AgentStep /\ UNCHANGED agentWork

AgentSpec == AgentInit /\ [][AgentNext]_agentVars
-----------------------------------------------------------------------------
\* Nobody is locked out of a private memory, however it was made and moved: it
\* has an owner, and the owner can read it.
PrivateHasItsReader ==
    \A id \in Kept : rows[id].access = "private" => rows[id].by \in Agents /\ CanRead(rows[id], rows[id].by)

\* An import that has succeeded leaves every memory of its snapshot in the
\* store, by its id or by its content, or as the first of its equals, whatever
\* came between its preflight and its batch and was not about that memory.
SnapshotIsRestored ==
    \A e \in restored : \/ e.id \in Kept
                        \/ \E id \in Kept : KeyOf(rows[id]) = e.key
                        \/ \E f \in restored : f.key = e.key /\ f.id \in Kept

\* With a tenant, nothing refers to what never was in its store, through
\* exports of a part, imports into another store and imports that are skipped.
ReferencesWereThere == tenant => \A id \in Kept : References(rows[id]) \subseteq seen

\* Agents: a private memory has a reader, an import that succeeds restores its
\* snapshot, and within a tenant a reference names what was in its store.
AgentsAreServed == PrivateHasItsReader /\ SnapshotIsRestored /\ ReferencesWereThere
=============================================================================
