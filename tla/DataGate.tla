------------------------------ MODULE DataGate ------------------------------
(***************************************************************************)
(* Keyed batches (batch() in src/service.ts) and the operator commands     *)
(* that replace the data under them (restore, migrate apply and recover    *)
(* verify in src/index.ts), on one durable claim ledger.                   *)
(*                                                                         *)
(* Server processes run the batches that clients send, and retry, under a  *)
(* key.  An operator runs one command at a time, which may die at any      *)
(* step.  Ledger transactions and file renames are steps of their own.     *)
(***************************************************************************)
EXTENDS BatchLedger

CONSTANTS Servers,
          KeyOf, BodyOf, \* what each request sends
          ServerOf,      \* the server that gets it
          Items,         \* the items of a batch
          Records        \* the records of the migration plan

ASSUME GateAssumption == /\ KeyOf \in [Requests -> Keys]
                         /\ BodyOf \in [Requests -> Bodies]
                         /\ ServerOf \in [Requests -> Servers]
                         /\ Items \in Nat \ {0} /\ Records \in Nat \ {0}

VARIABLES server,        \* down, opening the database, or up
          pc,            \* where each request is: over when it is answered or cut off
          done,          \* the items that an executing one has run
          results,       \* and the kinds of outcome they had
          cli,           \* the step the operator's command is at
          purpose,       \* what the gate is for that it is about to set
          migrated,      \* the records of the plan that are in the data
          plan,          \* the status in the migration state file
          effect,        \* history: calls that may have written, under present claims
          landed,        \* history: calls whose writes the present data may hold
          stray          \* history: a marker was left without its flag, and the ledger
                         \* has not been invalidated at rest since

requestVars == <<server, pc, done, results>>
cliVars     == <<cli, purpose, migrated, plan>>
history     == <<effect, landed, stray>>
vars == <<claims, pending, marker, server, pc, done, results,
          cli, purpose, migrated, plan, effect, landed, stray>>

Outcomes == {"ok", "releasable", "other"}
Phases == {"new", "called", "executing", "over"}
Steps == {"idle", "begin", "mark", "copy", "apply", "publish", "unlink", "invalidate"}

Init == /\ LedgerInit
        /\ server = [p \in Servers |-> "down"]
        /\ pc = [r \in Requests |-> "new"]
        /\ done = [r \in Requests |-> 0]
        /\ results = [r \in Requests |-> {}]
        /\ cli = "idle" /\ purpose = "none"
        /\ migrated = 0 /\ plan = "none"
        /\ effect = {} /\ landed = {} /\ stray = FALSE

Goto(r, l) == pc' = [pc EXCEPT ![r] = l]
Serving(r) == server[ServerOf[r]] = "up"
-----------------------------------------------------------------------------
\* Startup opens the database if there is no marker, and looks at the whole
\* gate when it has.
OpenServer(p) == /\ server[p] = "down" /\ marker = "none"
                 /\ server' = [server EXCEPT ![p] = "opening"]
                 /\ UNCHANGED <<claims, gate, pc, done, results, cliVars, history>>

ServeOrRefuse(p) ==
    /\ server[p] = "opening"
    /\ server' = [server EXCEPT ![p] = IF Restoring THEN "down" ELSE "up"]
    /\ UNCHANGED <<claims, gate, pc, done, results, cliVars, history>>

\* The process stops or dies, and its requests with it.
Halt(p) == /\ server[p] # "down"
           /\ server' = [server EXCEPT ![p] = "down"]
           /\ LET cut == {r \in Requests : ServerOf[r] = p /\ pc[r] \in {"called", "executing"}}
              IN /\ pc' = [r \in Requests |-> IF r \in cut THEN "over" ELSE pc[r]]
                 /\ done' = [r \in Requests |-> IF r \in cut THEN 0 ELSE done[r]]
                 /\ results' = [r \in Requests |-> IF r \in cut THEN {} ELSE results[r]]
           /\ UNCHANGED <<claims, gate, cliVars, history>>

\* batch() with a key: claim() first looks at the gate ...
Call(r) == /\ pc[r] = "new" /\ Serving(r)
           /\ Goto(r, IF Restoring THEN "over" ELSE "called")
           /\ UNCHANGED <<claims, gate, server, done, results, cliVars, history>>

\* ... and then, in its transaction, at the flag and the row.
ClaimStep(r) ==
    /\ pc[r] = "called"
    /\ \/ ClaimFresh(KeyOf[r], BodyOf[r], r) /\ Goto(r, "executing")
       \/ /\ Replays(KeyOf[r], BodyOf[r])
          /\ Goto(r, "over")
          /\ UNCHANGED <<claims, gate>>
       \/ /\ ClaimRefused(KeyOf[r], BodyOf[r])
          /\ Goto(r, "over")
          /\ UNCHANGED <<claims, gate>>
    /\ UNCHANGED <<server, done, results, cliVars, history>>

\* execute(): one item.  A releasable failure (NOT_FOUND, CONFLICT,
\* INVALID_INPUT) has written nothing; of any other nobody can tell.
Item(r) ==
    /\ pc[r] = "executing" /\ done[r] < Items
    /\ done' = [done EXCEPT ![r] = @ + 1]
    /\ \E o \in Outcomes :
          /\ results' = [results EXCEPT ![r] = @ \cup {o}]
          /\ effect' = IF o = "releasable" THEN effect ELSE effect \cup {r}
          /\ landed' = IF o = "releasable" THEN landed ELSE landed \cup {r}
    /\ UNCHANGED <<claims, gate, server, pc, cliVars, stray>>

MutReleasable(r) ==      \* one deterministic failure is enough
    "releasable" \in results[r]

\* batchClaimCanBeReleased
Releasable(r) == results[r] = {"releasable"}

\* The claim is completed, released or left as it is, when the items have run.
\* Neither of the two transactions need succeed.
Finish(r) ==
    /\ pc[r] = "executing" /\ done[r] = Items
    /\ \/ results[r] = {"ok"} /\ CompleteClaim(KeyOf[r], BodyOf[r]) /\ Goto(r, "over")
       \/ Releasable(r) /\ Abandon(KeyOf[r], BodyOf[r]) /\ Goto(r, "over")
       \/ Goto(r, "over") /\ UNCHANGED <<claims, gate>>
    /\ done' = [done EXCEPT ![r] = 0] /\ results' = [results EXCEPT ![r] = {}]
    /\ UNCHANGED <<server, cliVars, history>>
-----------------------------------------------------------------------------
At(s) == cli' = s /\ purpose' = IF s = "mark" THEN purpose ELSE "none"

\* remembra restore: an existing gate is kept.
StartRestore == /\ cli = "idle"
                /\ cli' = IF Restoring THEN "copy" ELSE "begin"
                /\ purpose' = IF Restoring THEN "none" ELSE "restore"
                /\ UNCHANGED <<claims, gate, requestVars, migrated, plan, history>>

\* remembra migrate apply: as every command but restore and recover, it is
\* refused at startup while there is a gate.
StartMigrate == /\ cli = "idle" /\ ~Restoring
                /\ cli' = "begin"
                /\ purpose' = "migration"
                /\ UNCHANGED <<claims, gate, requestVars, migrated, plan, history>>

MutStartVerify ==        \* the owner of the gate is not asked for
    /\ cli = "idle" /\ Restoring
    /\ At("unlink")
    /\ UNCHANGED <<claims, gate, requestVars, migrated, plan, history>>

\* remembra recover verify, on storage that reads well: it opens the gate of a
\* restore, and of nothing else.
StartVerify == /\ cli = "idle" /\ Restoring /\ Reason = "restore"
               /\ At("unlink")
               /\ UNCHANGED <<claims, gate, requestVars, migrated, plan, history>>

Begin == /\ cli = "begin"
         /\ \/ BeginRestore /\ At("mark")
            \/ /\ pending \/ Active # {}
               /\ At("idle")
               /\ UNCHANGED <<claims, gate>>
         /\ UNCHANGED <<requestVars, migrated, plan, history>>

Mark == /\ cli = "mark"
        /\ \/ /\ WriteMarker(purpose)
              /\ At(IF purpose = "restore" THEN "copy" ELSE "apply")
              /\ UNCHANGED stray
           \/ /\ RevertRestore(purpose)
              /\ At("idle")
              /\ stray' = (stray \/ marker' # "none")
        /\ UNCHANGED <<requestVars, migrated, plan, effect, landed>>

\* restoreSqliteBackup renames the backup into place, unless a process that
\* has the database open has left its sidecar files there.  The backup holds
\* some of the writes and, as no backup is taken under a gate, nothing of the
\* migration or, once it was published, all of it.
Copy == /\ cli = "copy"
        /\ \A p \in Servers : server[p] = "down"
        /\ landed' \in SUBSET landed
        /\ migrated' \in {0} \cup (IF plan = "published" THEN {Records} ELSE {})
        /\ At("unlink")
        /\ UNCHANGED <<claims, gate, requestVars, plan, effect, stray>>

CopyFails == /\ cli = "copy"
             /\ At("idle")
             /\ UNCHANGED <<claims, gate, requestVars, migrated, plan, history>>

\* runDurableTenantMigration: the records one by one, those that are there
\* already being skipped; then the state file says applied.  It says failed
\* after an error, and the next run resumes from what is there.
Apply == /\ cli = "apply" /\ plan \notin {"applied", "published"}
         /\ \/ /\ migrated < Records
               /\ migrated' = migrated + 1 /\ plan' = "applying"
               /\ UNCHANGED <<cli, purpose>>
            \/ /\ migrated = Records
               /\ plan' = "applied" /\ At("publish")
               /\ UNCHANGED migrated
            \/ /\ plan' = "failed" /\ At("idle")
               /\ UNCHANGED migrated
         /\ UNCHANGED <<claims, gate, requestVars, history>>

\* A plan that was applied before is verified against the data.
Reapply == /\ cli = "apply" /\ plan \in {"applied", "published"}
           /\ At(IF migrated < Records THEN "idle"
                 ELSE IF plan = "applied" THEN "publish" ELSE "unlink")
           /\ UNCHANGED <<claims, gate, requestVars, migrated, plan, history>>

Publish == /\ cli = "publish"
           /\ plan' = "published"
           /\ At("unlink")
           /\ UNCHANGED <<claims, gate, requestVars, migrated, history>>

Unlink == /\ cli = "unlink"
          /\ RemoveMarker
          /\ At("invalidate")
          /\ UNCHANGED <<requestVars, migrated, plan, history>>

Clear == /\ cli = "invalidate"
         /\ Invalidate
         /\ effect' = {}
         /\ stray' = (stray /\ \E r \in Requests : pc[r] = "executing")
         /\ At("idle")
         /\ UNCHANGED <<requestVars, migrated, plan, landed>>

\* The command dies.
Die == /\ cli # "idle"
       /\ At("idle")
       /\ IF cli = "mark" THEN TornMarker(purpose) ELSE UNCHANGED marker
       /\ UNCHANGED <<claims, pending, requestVars, migrated, plan, history>>

Next == \/ \E p \in Servers : OpenServer(p) \/ ServeOrRefuse(p) \/ Halt(p)
        \/ \E r \in Requests : Call(r) \/ ClaimStep(r) \/ Item(r) \/ Finish(r)
        \/ StartRestore \/ StartMigrate \/ StartVerify
        \/ Begin \/ Mark \/ Copy \/ CopyFails \/ Apply \/ Reapply \/ Publish
        \/ Unlink \/ Clear \/ Die

Spec == Init /\ [][Next]_vars
-----------------------------------------------------------------------------
DataGateTypeOK ==
    /\ LedgerTypeOK
    /\ server \in [Servers -> {"down", "opening", "up"}]
    /\ pc \in [Requests -> Phases]
    /\ done \in [Requests -> 0..Items]
    /\ results \in [Requests -> SUBSET Outcomes]
    /\ cli \in Steps /\ purpose \in {"none", "restore", "migration"}
    /\ migrated \in 0..Records
    /\ plan \in {"none", "applying", "failed", "applied", "published"}
    /\ effect \subseteq Requests /\ landed \subseteq Requests /\ stray \in BOOLEAN

\* A beginRestore() that fails may leave its marker and takes the flag back (stray).
\* Calls that have passed the first look then make claims under that marker, and
\* the next command takes it for a gate that holds and works without the flag.
\* The first three properties except what happens from there until a
\* completeRestore() finds no keyed batch running.

\* Under one key the items of at most one call are applied, however often and
\* on however many servers it is sent, as long as the ledger is not invalidated:
\* a claim is released only by a call that has written nothing.
AtMostOnce == ~stray => \A r, s \in effect : KeyOf[r] = KeyOf[s] => r = s

\* A response is replayed only if the data holds what it reports: when the data
\* has been replaced, the gate stays until the claims of the old data are gone.
ReplayIsTrue ==
    ~stray /\ ~Restoring => \A k \in Keys :
       claims[k].state = "completed" => claims[k].by \in landed

\* No keyed batch runs while a command replaces or migrates the data, nor when
\* the command has died half-way: beginRestore() waits for none and admits none.
RestoreExcludesBatches ==
    ~stray /\ (pending \/ cli \in {"copy", "apply", "publish"}) =>
       \A r \in Requests : pc[r] # "executing"

\* A tenant migration becomes visible as a whole: once the gate is open, all of
\* its records are in the data or, after a restore, none is.  This holds behind
\* a stray marker too: no migration starts there.
NoHalfMigration == ~Restoring => migrated \in {0, Records}
=============================================================================
