---------------------------- MODULE LedgerStart -----------------------------
(***************************************************************************)
(* The constructor of FileBatchIdempotencyStore                            *)
(* (src/batch-idempotency-store.ts): processes that open one claim         *)
(* directory at the same time, for the first time or over a ledger of the  *)
(* older schema.  The constructor is synchronous, so that within a process *)
(* nothing comes between two of its calls; between processes everything    *)
(* does, and a process may die after each of them.                         *)
(*                                                                         *)
(* The key and the identity are files, each published by link() from a     *)
(* staging file; the database is created empty and gets its two tables and *)
(* its generation row in three statements.  A process that sees a part of  *)
(* this polls until a deadline: here it may give up at any moment.  A key  *)
(* or an identity stands for itself by the process that drew it, and a mac *)
(* by the key it was made with.  The generation and its restore flag are   *)
(* in BatchLedger; a supplied key, file modes and symlinks are left out.   *)
(***************************************************************************)
EXTENDS Naturals

CONSTANTS Starts,     \* the processes, each of which opens the ledger once
          ClaimKeys,       \* idempotency keys
          None        \* no such file, no such row

\* Those whose key or identity a file may hold: "old" stands for an earlier version.
Origins == Starts \cup {"old"}

ASSUME StartAssumption ==
    /\ Starts # {} /\ "old" \notin Starts
    /\ None \notin Origins \cup {"v1", "v2", "legacy", "unbound", "bound"}
    /\ None \notin [identity : Origins, mac : Origins]

VARIABLES keyFile,    \* claims.key
          idFile,     \* claims.identity
          staging,    \* the staging files, by kind and process
          db,         \* claims.sqlite
          rows,       \* its claims: under which payload each was signed
          at,         \* where each process is
          mine,       \* the fields of its store
          made        \* the operation that every key was claimed for

startVars == <<keyFile, idFile, staging, db, rows, at, mine, made>>

NoDb == [file |-> FALSE, meta |-> FALSE, claims |-> None, row |-> None]

\* A fresh directory, or one of a version whose rows were not bound to their
\* operation: its ledger has one claim.
StartInit ==
  /\ staging = {}
  /\ at = [s \in Starts |-> "scan"]
  /\ mine = [s \in Starts |-> [key |-> None, identity |-> None, created |-> FALSE]]
  /\ \/ /\ keyFile = None /\ idFile = None /\ db = NoDb
        /\ rows = [k \in ClaimKeys |-> None]
        /\ made = [k \in ClaimKeys |-> None]
     \/ /\ keyFile = "old" /\ idFile = "old"
        /\ db = [file |-> TRUE, meta |-> TRUE, claims |-> "v1",
                 row |-> [identity |-> "old", mac |-> "old"]]
        /\ \E k \in ClaimKeys : /\ rows = [j \in ClaimKeys |-> IF j = k THEN "legacy" ELSE None]
                           /\ made = [j \in ClaimKeys |-> IF j = k THEN "unbound" ELSE None]

Advance(s, where) == at' = [at EXCEPT ![s] = where]
-----------------------------------------------------------------------------
\* The scan of the directory waits for the staging files of others.
Scan(s) == /\ at[s] = "scan" /\ staging = {}
           /\ Advance(s, "stage_key")
           /\ UNCHANGED <<keyFile, idFile, staging, db, rows, mine, made>>

\* loadIntegrityKeySync(): write the staging file, link it unless there is a
\* key, remove it and read what is there.
StageKey(s) == /\ at[s] = "stage_key"
               /\ staging' = staging \cup {<<"key", s>>}
               /\ Advance(s, "link_key")
               /\ UNCHANGED <<keyFile, idFile, db, rows, mine, made>>

MutLinked(file, s) == s
Linked(file, s) == IF file = None THEN s ELSE file

LinkKey(s) == /\ at[s] = "link_key"
              /\ keyFile' = Linked(keyFile, s)
              /\ Advance(s, "take_key")
              /\ UNCHANGED <<idFile, staging, db, rows, mine, made>>

TakeKey(s) == /\ at[s] = "take_key"
              /\ staging' = staging \ {<<"key", s>>}
              /\ mine' = [mine EXCEPT ![s].key = keyFile]
              /\ Advance(s, "read_identity")
              /\ UNCHANGED <<keyFile, idFile, db, rows, made>>

\* ledgerIdentitySync(): the identity is read first, and then the database is
\* looked for.
ReadIdentity(s) == /\ at[s] = "read_identity"
                   /\ mine' = [mine EXCEPT ![s].identity = idFile]
                   /\ Advance(s, "look")
                   /\ UNCHANGED <<keyFile, idFile, staging, db, rows, made>>

LookForDatabase(s) ==
  /\ at[s] = "look"
  /\ Advance(s, IF mine[s].identity # None THEN IF db.file THEN "create" ELSE "await_file"
             ELSE IF db.file THEN "refused" ELSE "stage_identity")
  /\ UNCHANGED <<keyFile, idFile, staging, db, rows, mine, made>>

DatabaseAppears(s) == /\ at[s] = "await_file" /\ db.file
                      /\ Advance(s, "create")
                      /\ UNCHANGED <<keyFile, idFile, staging, db, rows, mine, made>>

StageIdentity(s) == /\ at[s] = "stage_identity"
                    /\ staging' = staging \cup {<<"identity", s>>}
                    /\ Advance(s, "link_identity")
                    /\ UNCHANGED <<keyFile, idFile, db, rows, mine, made>>

\* EEXIST: another process was first, and its identity is read.
LinkIdentity(s) == /\ at[s] = "link_identity"
                   /\ idFile' = Linked(idFile, s)
                   /\ mine' = IF idFile' = s
                              THEN [mine EXCEPT ![s].identity = s, ![s].created = TRUE]
                              ELSE mine
                   /\ Advance(s, "clear_identity")
                   /\ UNCHANGED <<keyFile, staging, db, rows, made>>

ClearIdentity(s) == /\ at[s] = "clear_identity"
                    /\ staging' = staging \ {<<"identity", s>>}
                    /\ Advance(s, IF mine[s].created THEN "create" ELSE "read_identity")
                    /\ UNCHANGED <<keyFile, idFile, db, rows, mine, made>>
-----------------------------------------------------------------------------
\* The rest of the constructor.  The file is created with O_EXCL: that it is
\* there already is no error.
CreateFile(s) == /\ at[s] = "create"
                 /\ db' = [db EXCEPT !.file = TRUE]
                 /\ Advance(s, IF mine[s].created THEN "make_meta" ELSE "await_meta")
                 /\ UNCHANGED <<keyFile, idFile, staging, rows, mine, made>>

MakeMeta(s) == /\ at[s] = "make_meta"
               /\ db' = [db EXCEPT !.meta = TRUE]
               /\ Advance(s, "make_claims")
               /\ UNCHANGED <<keyFile, idFile, staging, rows, mine, made>>

MakeClaims(s) == /\ at[s] = "make_claims" /\ db.claims = None
                 /\ db' = [db EXCEPT !.claims = "v2"]
                 /\ Advance(s, "insert_meta")
                 /\ UNCHANGED <<keyFile, idFile, staging, rows, mine, made>>

InsertMeta(s) == /\ at[s] = "insert_meta" /\ db.row = None
                 /\ db' = [db EXCEPT !.row = [identity |-> mine[s].identity, mac |-> mine[s].key]]
                 /\ Advance(s, "verify")
                 /\ UNCHANGED <<keyFile, idFile, staging, rows, mine, made>>

\* isPartialLedgerInit() for a ledger that somebody else is making.
Partial == ~db.meta \/ db.claims = None \/ db.row = None

MetaAppears(s) == /\ at[s] = "await_meta" /\ ~Partial
                  /\ Advance(s, "columns")
                  /\ UNCHANGED <<keyFile, idFile, staging, db, rows, mine, made>>

\* The deadline of each of the three waits.
GiveUp(s) == /\ \/ at[s] = "scan" /\ staging # {}
                \/ at[s] = "await_file" /\ ~db.file
                \/ at[s] = "await_meta" /\ Partial
             /\ Advance(s, "timed_out")
             /\ UNCHANGED <<keyFile, idFile, staging, db, rows, mine, made>>

\* migrateClaimTable() looks at the columns outside the transaction in which
\* it rebuilds the table.
LookAtColumns(s) == /\ at[s] = "columns"
                    /\ Advance(s, IF db.claims = "v2" THEN "verify" ELSE "rebuild")
                    /\ UNCHANGED <<keyFile, idFile, staging, db, rows, mine, made>>

\* Without its operation a row verifies if it never had one.
Verifies(k) == rows[k] \in {None, "legacy", "unbound"}

Rebuild(s) ==
  /\ at[s] = "rebuild"
  /\ IF \A k \in ClaimKeys : Verifies(k)
     THEN /\ rows' = [k \in ClaimKeys |-> IF rows[k] = None THEN None ELSE "unbound"]
          /\ db' = [db EXCEPT !.claims = "v2"]
          /\ Advance(s, "verify")
     ELSE Advance(s, "refused") /\ UNCHANGED <<rows, db>>
  /\ UNCHANGED <<keyFile, idFile, staging, mine, made>>

\* currentMeta()
Current(s) == db.row = [identity |-> mine[s].identity, mac |-> mine[s].key]

VerifyMeta(s) == /\ at[s] = "verify"
                 /\ Advance(s, IF Current(s) THEN "open" ELSE "refused")
                 /\ UNCHANGED <<keyFile, idFile, staging, db, rows, mine, made>>
-----------------------------------------------------------------------------
\* A claim of an open store, which signs its row with the operation.
ClaimKey(s, k) == /\ at[s] = "open" /\ Current(s) /\ rows[k] = None
                  /\ rows' = [rows EXCEPT ![k] = "bound"]
                  /\ made' = [made EXCEPT ![k] = "bound"]
                  /\ UNCHANGED <<keyFile, idFile, staging, db, at, mine>>

Over == {"open", "refused", "timed_out", "dead"}

\* The process dies; its staging file stays where it is.
StartDies(s) == /\ at[s] \notin Over
          /\ Advance(s, "dead")
          /\ UNCHANGED <<keyFile, idFile, staging, db, rows, mine, made>>

Work(s) == \/ Scan(s) \/ StageKey(s) \/ LinkKey(s) \/ TakeKey(s)
           \/ ReadIdentity(s) \/ LookForDatabase(s) \/ DatabaseAppears(s)
           \/ StageIdentity(s) \/ LinkIdentity(s) \/ ClearIdentity(s)
           \/ CreateFile(s) \/ MakeMeta(s) \/ MakeClaims(s) \/ InsertMeta(s)
           \/ MetaAppears(s) \/ GiveUp(s) \/ LookAtColumns(s) \/ Rebuild(s) \/ VerifyMeta(s)

\* All have started and ended: the directory is at rest.
Settled == /\ \A s \in Starts : at[s] \in Over
           /\ UNCHANGED startVars

StartNext == \/ \E s \in Starts : Work(s) \/ StartDies(s) \/ \E k \in ClaimKeys : ClaimKey(s, k)
             \/ Settled

StartSpec == StartInit /\ [][StartNext]_startVars
-----------------------------------------------------------------------------
\* Whoever has opened the ledger holds the key and the identity that the next
\* start will read, and with which the generation row was signed.
HandlesAgree == \A s \in Starts : at[s] = "open" =>
                  /\ mine[s].key = keyFile
                  /\ mine[s].identity = idFile
                  /\ db.claims = "v2" /\ Current(s)

\* No start resets the history: a key that was claimed stays claimed, for the
\* same operation, although two starts may rebuild the table one after the other.
ClaimsAreKept == \A k \in ClaimKeys : CASE made[k] = None      -> rows[k] = None
                                   [] made[k] = "unbound" -> rows[k] \in {"legacy", "unbound"}
                                   [] made[k] = "bound"   -> rows[k] = "bound"

\* If no process has died and none has given up waiting, one of them at least
\* opens the ledger: they do not refuse each other.
SomeoneOpens == (\A s \in Starts : at[s] \in {"open", "refused"}) =>
                   \E s \in Starts : at[s] = "open"

LedgerIsOne == HandlesAgree /\ ClaimsAreKept /\ SomeoneOpens
=============================================================================
