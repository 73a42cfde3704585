--------------------------- MODULE SqliteRestore ----------------------------
(***************************************************************************)
(* Backup, restore and rollback of the SQLite database by same-directory   *)
(* renames (src/sqlite-recovery.ts), and the reconciliation that           *)
(* selectInitialBackend() (src/backend-selection.ts) does before the       *)
(* database is opened.  The process may die between any two file           *)
(* operations, also of a reconciliation; MaxErrors of them may fail, those *)
(* included that a failed restore is undone with.                          *)
(*                                                                         *)
(* A database is the number of its version, and every edit makes a new     *)
(* one.  Databases that fail their verification are left out: what is      *)
(* staged, moved or published has been verified.                           *)
(***************************************************************************)
EXTENDS Naturals

CONSTANTS None, Restores, MaxVersion, MaxErrors

ASSUME RestoreAssumption ==
    /\ None \notin Nat /\ None \notin [k : Restores, phase : {"prepared", "previous-moved"}]
    /\ MaxVersion \in Nat /\ MaxErrors \in Nat

VARIABLES target, rollback, backup,   \* data.sqlite, its .pre-restore, a backup of it
          temp,                       \* the staged copy of each restore
          restoreJournal,             \* the restore journal: which staged copy, and the phase
          step, op,                   \* the command or start that runs
          up, version, errors,
          old, told, refused,         \* what a restore retains, what it reported, starts refused in a row
          stranded                    \* the previous database could not be moved back

restoreFiles == <<target, rollback, backup, temp, restoreJournal>>
restoreGhosts == <<old, told, refused, stranded>>
restoreVars == <<restoreFiles, step, op, up, version, errors, restoreGhosts>>

Quiet == step = "idle" /\ ~up
Then(label) == step' = label
Works == errors' = errors
Fails == errors < MaxErrors /\ errors' = errors + 1
-----------------------------------------------------------------------------
(* The restore.                                                             *)

\* Checks, and the verified copy.  `keep` is keepPrevious; it has no effect when
\* there is no target to keep.  The command has started the backend, and so has
\* reconciled an earlier restore, before it comes here.
Stage(k, source, keep) ==
    /\ Quiet /\ op = None /\ restoreJournal = None /\ source # None
    /\ temp[k] = None
    /\ temp' = [temp EXCEPT ![k] = source]
    /\ op' = [k |-> k, keep |-> keep /\ target # None, moved |-> FALSE, source |-> source]
    /\ old' = (IF keep THEN target ELSE None)
    /\ told' = None /\ refused' = 0
    /\ Then(IF keep /\ target # None THEN "prepare" ELSE "publish")
    /\ UNCHANGED <<target, rollback, backup, restoreJournal, up, version, errors, stranded>>

RestoreSqliteBackup(k)  == \E keep \in BOOLEAN : Stage(k, backup, keep)
RollbackSqliteBackup(k) == Stage(k, rollback, FALSE)

\* The journal is written as "prepared", the previous database moved aside, the
\* journal written as "previous-moved".
Prepare == /\ step = "prepare" /\ Then("move")
           /\ restoreJournal' = [k |-> op.k, phase |-> "prepared"]
           /\ UNCHANGED <<target, rollback, backup, temp, op, up, version, errors, restoreGhosts>>

Move == /\ step = "move" /\ Then("moved")
        /\ rollback' = target /\ target' = None
        /\ op' = [op EXCEPT !.moved = TRUE]
        /\ UNCHANGED <<backup, temp, restoreJournal, up, version, errors, restoreGhosts>>

Moved == /\ step = "moved" /\ Then("publish")
         /\ restoreJournal' = [restoreJournal EXCEPT !.phase = "previous-moved"]
         /\ UNCHANGED <<target, rollback, backup, temp, op, up, version, errors, restoreGhosts>>

Publish == /\ step = "publish" /\ Then("confirm")
           /\ target' = temp[op.k] /\ temp' = [temp EXCEPT ![op.k] = None]
           /\ stranded' = FALSE
           /\ UNCHANGED <<rollback, backup, restoreJournal, op, up, version, errors, old, told, refused>>

Confirm == /\ step = "confirm" /\ Then("idle")
           /\ restoreJournal' = (IF op.keep THEN None ELSE restoreJournal)
           /\ told' = op.source /\ op' = None
           /\ UNCHANGED <<target, rollback, backup, temp, up, version, errors, old, refused, stranded>>

\* A file operation fails, and the handler unlinks the copy, moves the previous
\* database back and removes the journal; none of the three is looked at when it
\* fails, and the journal goes also when the database is left where it was moved.
FailRestore == /\ step \in {"prepare", "move", "moved", "publish", "confirm"}
               /\ Fails /\ Then("unlink")
               /\ UNCHANGED <<restoreFiles, op, up, version, restoreGhosts>>

UnlinkStaged == /\ step = "unlink" /\ Then("undo")
                /\ \/ Works /\ temp' = [temp EXCEPT ![op.k] = None]
                   \/ Fails /\ UNCHANGED temp
                /\ UNCHANGED <<target, rollback, backup, restoreJournal, op, up, version, restoreGhosts>>

MovedAside == op.moved /\ target = None

UndoRestore ==
    /\ step = "undo" /\ Then("forget")
    /\ \/ MovedAside /\ Works /\ target' = rollback /\ rollback' = None /\ UNCHANGED stranded
       \/ MovedAside /\ Fails /\ stranded' = TRUE /\ UNCHANGED <<target, rollback>>
       \/ ~MovedAside /\ Works /\ UNCHANGED <<target, rollback, stranded>>
    /\ UNCHANGED <<backup, temp, restoreJournal, op, up, version, old, told, refused>>

\* Only the look at the target throws, and then the journal stays.
UndoThrows == /\ step = "undo" /\ op.moved /\ Fails
              /\ Then("idle") /\ op' = None
              /\ UNCHANGED <<restoreFiles, up, version, restoreGhosts>>

RemoveJournal == /\ step = "forget" /\ Then("idle")
                 /\ \/ Works /\ restoreJournal' = (IF op.keep THEN None ELSE restoreJournal)
                    \/ op.keep /\ Fails /\ UNCHANGED restoreJournal
                 /\ op' = None
                 /\ UNCHANGED <<target, rollback, backup, temp, up, version, restoreGhosts>>
-----------------------------------------------------------------------------
(* reconcileSqliteRestore(), at every start.                                *)

MutKeepsTarget == target # None /\ restoreJournal.phase = "previous-moved"
KeepsTarget == target # None /\ (restoreJournal.phase = "previous-moved" \/ rollback # None)

\* What is there is looked up once; the previous database that is moved aside
\* next is not in it.
ReconcileRestore ==
    /\ Quiet /\ op = None /\ restoreJournal # None
    /\ op' = [k |-> restoreJournal.k, staged |-> temp[restoreJournal.k] # None, rollback |-> rollback # None]
    /\ Then(IF KeepsTarget THEN "keep" ELSE IF target # None THEN "aside" ELSE "choose")
    /\ UNCHANGED <<restoreFiles, up, version, errors, restoreGhosts>>

Aside == /\ step = "aside" /\ Then("choose")
         /\ rollback' = target /\ target' = None
         /\ UNCHANGED <<backup, temp, restoreJournal, op, up, version, errors, restoreGhosts>>

KeptTarget == /\ step = "keep" /\ Then("settle")
              /\ temp' = [temp EXCEPT ![op.k] = None]
              /\ UNCHANGED <<target, rollback, backup, restoreJournal, op, up, version, errors, restoreGhosts>>

PublishedStaged == /\ step = "choose" /\ op.staged /\ Then("settle")
                   /\ target' = temp[op.k] /\ temp' = [temp EXCEPT ![op.k] = None]
                   /\ stranded' = FALSE
                   /\ UNCHANGED <<rollback, backup, restoreJournal, op, up, version, errors, old, told, refused>>

RestoredPrevious == /\ step = "choose" /\ ~op.staged /\ op.rollback /\ Then("settle")
                    /\ target' = rollback /\ rollback' = None /\ stranded' = FALSE
                    /\ UNCHANGED <<backup, temp, restoreJournal, op, up, version, errors, old, told, refused>>

\* Nothing was found: the start is refused.
Refuse == /\ step = "choose" /\ ~op.staged /\ ~op.rollback /\ Then("idle")
          /\ op' = None /\ refused' = refused + 1
          /\ UNCHANGED <<restoreFiles, up, version, errors, old, told, stranded>>

Settle == /\ step = "settle" /\ Then("idle")
          /\ restoreJournal' = None /\ op' = None
          /\ UNCHANGED <<target, rollback, backup, temp, up, version, errors, restoreGhosts>>
-----------------------------------------------------------------------------
(* The server: it opens the target, or makes an empty one (version 0).      *)

OpenTarget == /\ Quiet /\ op = None /\ restoreJournal = None
              /\ up' = TRUE /\ refused' = 0 /\ stranded' = FALSE
              /\ target' = (IF target = None THEN 0 ELSE target)
              /\ UNCHANGED <<rollback, backup, temp, restoreJournal, step, op, version, errors, old, told>>

Edit == /\ up /\ version < MaxVersion
        /\ version' = version + 1 /\ target' = version'
        /\ old' = (IF target = old THEN None ELSE old) /\ told' = None
        /\ UNCHANGED <<rollback, backup, temp, restoreJournal, step, op, up, errors, refused, stranded>>

\* An online backup is published by one rename.
BackupSqlite == /\ step = "idle" /\ target # None
                /\ backup' = target
                /\ UNCHANGED <<target, rollback, temp, restoreJournal, step, op, up, version, errors, restoreGhosts>>

\* The server closes or dies, or the process of a restore or of a start dies.
Stop == /\ up \/ step # "idle"
        /\ up' = FALSE /\ Then("idle") /\ op' = None /\ refused' = 0
        /\ UNCHANGED <<restoreFiles, version, errors, old, told, stranded>>
-----------------------------------------------------------------------------
RestoreInit ==
    /\ target = 1 /\ version = 1
    /\ rollback = None /\ backup = None /\ restoreJournal = None
    /\ temp = [k \in Restores |-> None]
    /\ step = "idle" /\ op = None /\ up = FALSE /\ errors = 0
    /\ old = None /\ told = None /\ refused = 0 /\ stranded = FALSE

RestoreNext ==
    \/ \E k \in Restores : RestoreSqliteBackup(k) \/ RollbackSqliteBackup(k)
    \/ Prepare \/ Move \/ Moved \/ Publish \/ Confirm
    \/ FailRestore \/ UnlinkStaged \/ UndoRestore \/ UndoThrows \/ RemoveJournal
    \/ ReconcileRestore \/ Aside \/ KeptTarget \/ PublishedStaged \/ RestoredPrevious \/ Refuse \/ Settle
    \/ OpenTarget \/ Edit \/ BackupSqlite \/ Stop

RestoreSpec == RestoreInit /\ [][RestoreNext]_restoreVars
-----------------------------------------------------------------------------
\* A restore that keeps the previous database has it at every instant under one
\* of its two names, one that was reported is in place until the next edit, no
\* two starts in a row are refused, and no server opens an empty database in
\* place of one: while none is in place a journal stands that brings one back.
\* The exception is the restore that fails and then fails to move the previous
\* database back: its journal is removed all the same.
RestoreIsWhole ==
    /\ old # None => old \in {target, rollback}
    /\ told # None /\ step = "idle" => target = told
    /\ target = None /\ restoreJournal = None => stranded
    /\ refused <= 1
=============================================================================
