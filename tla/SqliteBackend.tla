--------------------------- MODULE SqliteBackend ----------------------------
(***************************************************************************)
(* SqliteBackend (src/sqlite-backend.ts): memories as rows of a database   *)
(* that processes share.  withLock() orders the calls of one process only, *)
(* and a call is a sequence of statements that commit one by one, so calls *)
(* of two processes interleave between statements and a death leaves a     *)
(* prefix.  Opening rebuilds the full-text index and takes over the files  *)
(* of the file backend.                                                    *)
(***************************************************************************)
EXTENDS Naturals, Sequences, SequencesExt

CONSTANTS Connections,     \* the processes, each with a backend of its own
          Memories,        \* ids
          SqliteWorkloads, \* sets of <<call, id>>: callers use one of them;
                           \* <<"legacy", id>> is a file of the file backend
          Fragile,         \* the processes that may die
          SnapshotsKept,   \* REMEMBRA_HISTORY_LIMIT
          MaxRevision, MaxHistory   \* bounds on versions and on entries not yet pruned

ASSUME SqliteAssumption ==
    /\ Fragile \subseteq Connections
    /\ SnapshotsKept \in Nat \ {0} /\ MaxRevision \in Nat \ {0} /\ MaxHistory \in Nat

VARIABLES rows,       \* memories: the row of each id, or NoRow
          versions,   \* memory_versions: the old contents of each id, oldest first
          audited,    \* the ids with rows in memory_audit, which refer to memories
          fts,        \* memories_fts: ids and the contents they are indexed under
          files,      \* the ids whose legacy file has not been moved away
          at, call,   \* of each process: where it is in which call
          indexing,   \* ftsEnabled of each process
          demand,     \* what there is to do in this behaviour
          acked,      \* the <<version, content>> acknowledged for each id
          gone,       \* ids whose forget() has begun
          skipped     \* ids whose file a takeover has passed over

sqliteVars == <<rows, versions, audited, fts, files, at, call, indexing, demand, acked, gone, skipped>>
ghosts == <<acked, gone, skipped>>

Contents == (Connections \cup {"legacy"}) \X (1 .. MaxRevision)
Rows  == [ver : 1 .. MaxRevision, text : Contents, arch : BOOLEAN]
NoRow == [ver |-> 0, text |-> <<"legacy", 1>>, arch |-> FALSE]
NoCall == [op |-> "none"]

Legacy == {id \in Memories : <<"legacy", id>> \in demand}
Has(id)     == rows[id] # NoRow
Indexed(id) == \E e \in fts : e[1] = id
Unindex(id) == {e \in fts : e[1] # id}

SqliteInit == /\ rows = [id \in Memories |-> NoRow]
              /\ versions = [id \in Memories |-> <<>>]
              /\ demand \in SqliteWorkloads
              /\ audited = {} /\ fts = {} /\ files = Legacy
              /\ at = [p \in Connections |-> "closed"]
              /\ call = [p \in Connections |-> NoCall]
              /\ indexing = [p \in Connections |-> FALSE]
              /\ acked = [id \in Memories |-> {}] /\ gone = {} /\ skipped = {}

Proceed(p, l) == at' = [at EXCEPT ![p] = l]
Answer(p)  == Proceed(p, "idle") /\ call' = [call EXCEPT ![p] = NoCall]
Begin(p, j, l) == /\ at[p] = "idle" /\ <<j.op, j.id>> \in demand
                  /\ call' = [call EXCEPT ![p] = j] /\ Proceed(p, l)
-----------------------------------------------------------------------------
(* The constructor and ready(): empty the index, fill it from the rows,    *)
(* archived ones too, insert the legacy memories, move their files away,    *)
(* those passed over as well.                                               *)

Open(p) == /\ at[p] = "closed"
           /\ fts' = {}
           /\ Proceed(p, "fill")
           /\ UNCHANGED <<rows, versions, audited, files, call, indexing, ghosts>>

\* A row that another process has indexed in between makes the rebuild fail.
CreateFts(p) ==
    LET ok == \A id \in Memories : ~(Has(id) /\ Indexed(id)) IN
    /\ at[p] = "fill"
    /\ fts' = IF ok THEN fts \cup {<<id, rows[id].text>> : id \in {i \in Memories : Has(i)}} ELSE fts
    /\ indexing' = [indexing EXCEPT ![p] = ok]
    /\ call' = [call EXCEPT ![p] = [op |-> "migrate", left |-> files]]
    /\ Proceed(p, "migrate")
    /\ UNCHANGED <<rows, versions, audited, files, ghosts>>

\* insertRow() for one file: the row and its index entry.  A file that another
\* process has moved away by now, or whose id has a row, leaves nothing to do.
\* Any file may be passed over: the walk does not reach it (a directory below the
\* second level ends the walk of its tree), it does not parse, or its row cannot
\* be written.
MigrateOne(p) ==
    /\ at[p] = "migrate"
    /\ \E id \in call[p].left :
          LET new == id \in files /\ ~Has(id) IN
          /\ call' = [call EXCEPT ![p].left = @ \ {id}]
          /\ \/ /\ rows' = IF new THEN [rows EXCEPT ![id] = [NoRow EXCEPT !.ver = 1]] ELSE rows
                /\ fts' = IF new /\ indexing[p] /\ ~Indexed(id) THEN fts \cup {<<id, NoRow.text>>} ELSE fts
                /\ UNCHANGED skipped
             \/ new /\ skipped' = skipped \cup {id} /\ UNCHANGED <<rows, fts>>
    /\ UNCHANGED <<versions, audited, files, at, indexing, acked, gone>>

MutMigrated(p) == at[p] = "migrate"
Migrated(p) == at[p] = "migrate" /\ call[p].left = {}

Ready(p) == /\ Migrated(p)
            /\ files' = {}
            /\ Answer(p)
            /\ UNCHANGED <<rows, versions, audited, fts, indexing, ghosts>>
-----------------------------------------------------------------------------
(* store(): the row, the index, the audit row.                             *)

\* A new id is a UUIDv7: nobody has used it.
InsertRow(p, id) == /\ Begin(p, [op |-> "store", id |-> id], "index")
                    /\ id \notin Legacy /\ ~Has(id) /\ acked[id] = {} /\ id \notin gone
                    /\ \A q \in Connections : "id" \in DOMAIN call[q] => call[q].id # id
                    /\ rows' = [rows EXCEPT ![id] = [ver |-> 1, text |-> <<p, 1>>, arch |-> FALSE]]
                    /\ UNCHANGED <<versions, audited, fts, files, indexing, ghosts>>

\* store() and revive(): the index refuses a second entry of a row and the
\* call rejects, with the row changed.
InsertFts(p) ==
    LET id   == call[p].id
        text == IF call[p].op = "store" THEN <<p, 1>> ELSE call[p].seen.text
    IN /\ at[p] = "index"
       /\ IF indexing[p] /\ Indexed(id) THEN Answer(p) /\ UNCHANGED fts
          ELSE /\ fts' = IF indexing[p] THEN fts \cup {<<id, text>>} ELSE fts
               /\ Proceed(p, "audit") /\ UNCHANGED call
       /\ UNCHANGED <<rows, versions, audited, files, indexing, ghosts>>

\* The last statement of every call but forget(): it needs the row it refers
\* to.  The caller has its answer from here on.
Audit(p) ==
    LET id == call[p].id IN
    /\ at[p] = "audit"
    /\ audited' = IF Has(id) THEN audited \cup {id} ELSE audited
    /\ acked' = IF ~Has(id) THEN acked
                ELSE CASE call[p].op = "store"  -> [acked EXCEPT ![id] = @ \cup {<<1, <<p, 1>>>>}]
                       [] call[p].op = "update" -> [acked EXCEPT ![id] = @ \cup {<<call[p].seen.ver + 1, call[p].text>>}]
                       [] OTHER -> acked
    /\ Answer(p)
    /\ UNCHANGED <<rows, versions, fts, files, indexing, gone, skipped>>
-----------------------------------------------------------------------------
(* update(): read the version, keep the old content, compare and swap,     *)
(* reindex.  The rest of the row is what the caller read earlier.          *)

GetRow(p, id) == /\ Has(id) /\ rows[id].ver < MaxRevision
                 /\ \E edits, guarded \in BOOLEAN :
                    /\ guarded => edits
                    /\ Begin(p, [op |-> "update", id |-> id, copy |-> rows[id], seen |-> rows[id],
                                 edits |-> edits, guarded |-> guarded, text |-> rows[id].text], "select")
                 /\ UNCHANGED <<rows, versions, audited, fts, files, indexing, ghosts>>

Select(p) ==
    LET j == call[p]
        row == rows[j.id]
    IN /\ at[p] = "select"
       /\ IF ~Has(j.id) \/ row.ver = MaxRevision \/ (j.guarded /\ row.ver # j.copy.ver) THEN Answer(p)
          ELSE LET text == IF j.edits THEN <<p, row.ver + 1>> ELSE j.copy.text
               IN /\ call' = [call EXCEPT ![p] = [j EXCEPT !.seen = row, !.text = text]]
                  /\ Proceed(p, IF text # row.text THEN "snapshot" ELSE "swap")
       /\ UNCHANGED <<rows, versions, audited, fts, files, indexing, ghosts>>

KeepVersion(p) ==
    LET id == call[p].id IN
    /\ at[p] = "snapshot" /\ Len(versions[id]) < MaxHistory
    /\ IF Has(id) THEN /\ versions' = [versions EXCEPT ![id] = Append(@, call[p].seen.text)]
                       /\ Proceed(p, "prune") /\ UNCHANGED call
       ELSE Answer(p) /\ UNCHANGED versions
    /\ UNCHANGED <<rows, audited, fts, files, indexing, ghosts>>

\* The newest entries of this memory stay.  Everything else goes: the DELETE
\* names the tenant but not the memory.
Pruned(id) == [i \in Memories |-> IF i # id THEN <<>>
                             ELSE LET n == Len(versions[id])
                                  IN SubSeq(versions[id], IF n > SnapshotsKept THEN n - SnapshotsKept + 1 ELSE 1, n)]

PruneHistory(p) == /\ at[p] = "prune"
                   /\ versions' = Pruned(call[p].id)
                   /\ Proceed(p, "swap")
                   /\ UNCHANGED <<rows, audited, fts, files, call, indexing, ghosts>>

\* UPDATE ... WHERE version = the version that Select saw.
MutUnmoved(j) == Has(j.id)
Unmoved(j) == rows[j.id].ver = j.seen.ver

CompareAndSwap(p) ==
    LET j == call[p] IN
    /\ at[p] = "swap"
    /\ IF Unmoved(j)
          THEN /\ rows' = [rows EXCEPT ![j.id] = [ver |-> j.seen.ver + 1, text |-> j.text, arch |-> j.copy.arch]]
               /\ Proceed(p, IF indexing[p] /\ j.text # j.seen.text THEN "unindex" ELSE "audit")
               /\ UNCHANGED call
          ELSE Answer(p) /\ UNCHANGED rows       \* CONFLICT or NOT_FOUND
    /\ UNCHANGED <<versions, audited, fts, files, indexing, ghosts>>

DeleteFts(p) == /\ at[p] = "unindex"
                /\ fts' = Unindex(call[p].id)
                /\ Proceed(p, IF call[p].op = "update" THEN "reindex" ELSE "audit")
                /\ UNCHANGED <<rows, versions, audited, files, call, indexing, ghosts>>

Reindex(p) == /\ at[p] = "reindex"
              /\ IF Indexed(call[p].id) THEN Answer(p) /\ UNCHANGED fts
                 ELSE /\ fts' = fts \cup {<<call[p].id, call[p].text>>}
                      /\ Proceed(p, "audit") /\ UNCHANGED call
              /\ UNCHANGED <<rows, versions, audited, files, indexing, ghosts>>
-----------------------------------------------------------------------------
(* archive() and revive(): no version is compared and none is raised.      *)

SetArchived(p, id) ==
    /\ \E op \in {"archive", "revive"} :
          /\ Has(id) /\ rows[id].arch = (op = "revive")
          /\ Begin(p, [op |-> op, id |-> id, seen |-> rows[id]], "mark")
    /\ UNCHANGED <<rows, versions, audited, fts, files, indexing, ghosts>>

Mark(p) == /\ at[p] = "mark"
           /\ rows' = [rows EXCEPT ![call[p].id] =
                          IF @ = NoRow THEN @ ELSE [@ EXCEPT !.arch = (call[p].op = "archive")]]
           /\ Proceed(p, IF ~indexing[p] THEN "audit" ELSE IF call[p].op = "archive" THEN "unindex" ELSE "index")
           /\ UNCHANGED <<versions, audited, fts, files, call, indexing, ghosts>>
-----------------------------------------------------------------------------
(* forget(): audit, index, then the rows that refer to the memory, then    *)
(* the memory.  Old versions go with it; an audit row written meanwhile    *)
(* keeps it and the call rejects.                                          *)

Forget(p, id) == /\ Has(id)
                 /\ Begin(p, [op |-> "forget", id |-> id], "erase1")
                 /\ gone' = gone \cup {id}
                 /\ UNCHANGED <<rows, versions, audited, fts, files, indexing, acked, skipped>>

EraseIndex(p) == /\ at[p] = "erase1"
                 /\ IF Has(call[p].id)
                       THEN /\ audited' = audited \cup {call[p].id}
                            /\ fts' = IF indexing[p] THEN Unindex(call[p].id) ELSE fts
                            /\ Proceed(p, "erase2") /\ UNCHANGED call
                       ELSE Answer(p) /\ UNCHANGED <<audited, fts>>
                 /\ UNCHANGED <<rows, versions, files, indexing, ghosts>>

EraseAudit(p) == /\ at[p] = "erase2"
                 /\ audited' = audited \ {call[p].id}
                 /\ Proceed(p, "erase3")
                 /\ UNCHANGED <<rows, versions, fts, files, call, indexing, ghosts>>

EraseVersions(p) == /\ at[p] = "erase3"
                    /\ versions' = [versions EXCEPT ![call[p].id] = <<>>]
                    /\ Proceed(p, "erase4")
                    /\ UNCHANGED <<rows, audited, fts, files, call, indexing, ghosts>>

EraseRow(p) == /\ at[p] = "erase4"
               /\ IF call[p].id \in audited THEN UNCHANGED <<rows, versions>>
                  ELSE /\ rows' = [rows EXCEPT ![call[p].id] = NoRow]
                       /\ versions' = [versions EXCEPT ![call[p].id] = <<>>]
               /\ Answer(p)
               /\ UNCHANGED <<audited, fts, files, indexing, ghosts>>
-----------------------------------------------------------------------------
ProcessDies(p) == /\ p \in Fragile /\ at[p] # "closed"
                  /\ Proceed(p, "closed") /\ call' = [call EXCEPT ![p] = NoCall]
                  /\ UNCHANGED <<rows, versions, audited, fts, files, indexing, ghosts>>

SqliteStep == \E p \in Connections :
    \/ Open(p) \/ CreateFts(p) \/ MigrateOne(p) \/ Ready(p)
    \/ \E id \in Memories : InsertRow(p, id) \/ GetRow(p, id) \/ SetArchived(p, id) \/ Forget(p, id)
    \/ InsertFts(p) \/ Audit(p)
    \/ Select(p) \/ KeepVersion(p) \/ PruneHistory(p) \/ CompareAndSwap(p) \/ DeleteFts(p) \/ Reindex(p)
    \/ Mark(p)
    \/ EraseIndex(p) \/ EraseAudit(p) \/ EraseVersions(p) \/ EraseRow(p)
    \/ ProcessDies(p)

SqliteNext == SqliteStep /\ UNCHANGED demand
SqliteSpec == SqliteInit /\ [][SqliteNext]_sqliteVars
-----------------------------------------------------------------------------
\* The compare-and-swap of update() (finding S1 of docs/v5.6.0-audit.md): of
\* the calls of several processes that start from one version a single one is
\* acknowledged, and what it wrote is replaced by later versions only.
AcknowledgedWins ==
    \A id \in Memories : \A a \in acked[id] :
        /\ \A b \in acked[id] : a[1] = b[1] => a = b
        /\ Has(id) => /\ rows[id].ver >= a[1]
                      /\ rows[id].ver = a[1] => rows[id].text = a[2]
        /\ Has(id) \/ id \in gone

\* Taking over the files of the file backend loses no memory by a death or by
\* another process that takes over at the same time: each one is in its file, or
\* has its row, or was forgotten, or is one whose file the takeover passed over
\* and moved away with the rest.
LegacyIsNotLost == \A id \in Legacy : id \in files \/ Has(id) \/ id \in gone \/ id \in skipped

\* History is per memory ("Max version snapshots kept per memory"): a memory
\* that has been edited, and that nobody is forgetting, has a snapshot.
EditedHasHistory == \A id \in Memories \ gone : Has(id) /\ rows[id].text[2] > 1 => versions[id] # <<>>
=============================================================================
