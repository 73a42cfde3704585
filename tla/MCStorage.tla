----------------------------- MODULE MCStorage ------------------------------
(***************************************************************************)
(* The two backends of memories, and the restore of the second.  A         *)
(* deployment uses one backend, and closes it to restore it: a behaviour   *)
(* is one of the file backend, one of the SQLite backend, or one of its    *)
(* backups, restores and starts.                                           *)
(***************************************************************************)
EXTENDS FileStore, SqliteBackend, SqliteRestore

CONSTANTS p1, p2, m, x, y, g, s

VARIABLE backend   \* the model of the behaviour

\* One id: reads and writes, moves between the trees, moves between scopes;
\* two ids of a snapshot import beside other calls on one of them.
FileWork == { {"store", "update", "archive"} \X {m},
              {"store", "archive", "revive"} \X {m},
              {"store", "update", "move"} \X {m},
              ({"importBatch"} \X {x, y}) \cup ({"archive", "forget", "touch"} \X {x}) }

SqliteWork == { {"store", "update", "archive", "revive"} \X {m},
                {"store", "update", "forget"} \X {m},
                {"legacy", "update", "forget"} \X {x} }
TwoMemories == { {"store", "update"} \X {m, x} }

StorageInit == /\ backend \in {"file", "sqlite", "restore"}
               /\ (backend # "file"   => workload = CHOOSE w \in Workloads : TRUE)     /\ Init
               /\ (backend # "sqlite" => demand = CHOOSE w \in SqliteWorkloads : TRUE) /\ SqliteInit
               /\ RestoreInit

StorageNext == /\ \/ backend = "file"    /\ Next        /\ UNCHANGED <<sqliteVars, restoreVars>>
                  \/ backend = "sqlite"  /\ SqliteNext  /\ UNCHANGED <<vars, restoreVars>>
                  \/ backend = "restore" /\ RestoreNext /\ UNCHANGED <<vars, sqliteVars>>
               /\ UNCHANGED backend

StorageSpec == StorageInit /\ [][StorageNext]_<<backend, vars, sqliteVars, restoreVars>>

\* Locks that are taken from live processes end the run: nothing is claimed after.
NotBreached == ~breached
=============================================================================
