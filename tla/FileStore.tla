------------------------------ MODULE FileStore -----------------------------
(***************************************************************************)
(* MemoryStore (src/store.ts): memories as files under one root, shared by *)
(* the processes of a host.  A mutation waits for .remembra.lock, looks at *)
(* the disk, and then changes it by one file operation at a time: history  *)
(* snapshot, atomic write, unlink of the old place.  The lock is stolen    *)
(* from dead processes and from live ones that are too slow.  Any of these *)
(* operations may fail; some failures are swallowed.  Processes die        *)
(* between any two steps; a new one recovers before its first call.        *)
(***************************************************************************)
EXTENDS Naturals, Sequences, FiniteSets, SequencesExt

CONSTANTS Procs, Ids,
          Scopes, Global,    \* Global is walked first
          Tenanted,          \* the ids that live in the tree of a tenant
          Batch,             \* the ids of the snapshot that is imported
          Workloads,         \* sets of <<operation, id>>: callers use one of them
          Mortal,            \* the processes that may die
          HistoryLimit,
          MaxNow, MaxVer     \* bounds

ASSUME FileStoreAssumption ==
    /\ Procs \cap {"none", "dead"} = {}      \* what a lock file may say instead of a pid
    /\ Global \in Scopes /\ Tenanted \subseteq Ids /\ Batch \subseteq Ids /\ Mortal \subseteq Procs
    /\ HistoryLimit \in Nat \ {0} /\ MaxNow \in Nat /\ MaxVer \in Nat \ {0}

VARIABLES disk,       \* the file of each id at each place, or NoFile
          history,    \* the contents kept under .history/<id>, oldest first
          lock,       \* whose lock file there is
          journal,    \* the ids that the snapshot import journal names
          now,        \* Date.now()
          pc, job, plan, recovered,
          workload,   \* what callers ask for in this behaviour
          kept,       \* contents acknowledged for an id that was not forgotten
          brought,    \* ids written by the latest import while it has not finished,
                      \* not changed by anybody else since, nor tried to remove
          breached,   \* a lock was taken from a process that lives
          wound       \* what a death or a failure has done to an id and recovery not undone

vars == <<disk, history, lock, journal, now, pc, job, plan, recovered,
          workload, kept, brought, breached, wound>>
truth == <<kept, brought, breached, wound>>

Places == [arch : BOOLEAN, scope : Scopes]
Home   == [arch |-> FALSE, scope |-> Global]
Texts  == (Procs \cup {"import"}) \X (1 .. MaxVer)
Files  == [ver : 1 .. MaxVer, text : Texts, stamp : 0 .. MaxNow]
NoFile == [ver |-> 0, text |-> <<"import", 1>>, stamp |-> 0]
NoLock == "none"
NoJob  == [op |-> "none"]

\* What a call does to the disk: keep a content, write a file, unlink one.
NoPlan == [snap |-> FALSE, at |-> Home, file |-> NoFile, drop |-> FALSE, from |-> Home]

\* The places where id has a file, and the file that a walk of the trees
\* finds first: active before archived, global before the other scopes.
Homes(id) == {pl \in Places : disk[id][pl] # NoFile}
Before(a, b) == \/ ~a.arch /\ b.arch
                \/ a.arch = b.arch /\ ~a.arch /\ a.scope = Global /\ b.scope # Global
Found(id) == {pl \in Homes(id) : \A q \in Homes(id) : ~Before(q, pl)}

Critical == {"look", "snap", "write", "drop", "import", "undo", "rollback", "reconcile", "release"}
Moving(p) == pc[p] = "drop" /\ plan[p].file # NoFile
Importing(p) == job[p].op = "importBatch" /\ pc[p] \in {"import", "undo"}

Init == /\ disk = [id \in Ids |-> [pl \in Places |-> NoFile]]
        /\ history = [id \in Ids |-> <<>>]
        /\ lock = NoLock /\ journal = {} /\ now = 0
        /\ pc = [p \in Procs |-> "idle"]
        /\ job = [p \in Procs |-> NoJob]
        /\ plan = [p \in Procs |-> NoPlan]
        /\ recovered = [p \in Procs |-> FALSE]
        /\ workload \in Workloads
        /\ kept = [id \in Ids |-> {}]
        /\ brought = {} /\ breached = FALSE
        /\ wound = [id \in Ids |-> "none"]

Goto(p, l) == pc' = [pc EXCEPT ![p] = l]
-----------------------------------------------------------------------------
(* Calls.  Every one of them first makes sure that this process has        *)
(* recovered.  An update starts from a memory read earlier, without lock.  *)

Ask(p, j) == /\ pc[p] = "idle" /\ recovered[p]
             /\ job' = [job EXCEPT ![p] = j]
             /\ Goto(p, "lock")
             /\ UNCHANGED <<disk, history, lock, journal, now, plan, recovered, truth>>

EnsureRecovered(p) ==
    /\ pc[p] = "idle" /\ ~recovered[p]
    /\ job' = [job EXCEPT ![p] = [op |-> "recover"]]
    /\ Goto(p, "lock")
    /\ UNCHANGED <<disk, history, lock, journal, now, plan, recovered, truth>>

\* A new id is a UUIDv7: nobody has used it, and no snapshot has it.
Store(p, id, s) == /\ <<"store", id>> \in workload
                   /\ s = Global \/ <<"move", id>> \in workload
                   /\ id \notin Batch /\ kept[id] = {} /\ Homes(id) = {} /\ history[id] = <<>>
                   /\ \A q \in Procs : "id" \in DOMAIN job[q] => job[q].id # id
                   /\ Ask(p, [op |-> "store", id |-> id, scope |-> s])

Simple == {"forget", "archive", "revive", "touch"}
Call(p, op, id) == <<op, id>> \in workload /\ Ask(p, [op |-> op, id |-> id])

ImportBatch(p) == (\E id \in Batch : <<"importBatch", id>> \in workload) /\ Ask(p, [op |-> "importBatch"])

Get(p, id) == /\ pc[p] = "idle" /\ recovered[p] /\ <<"update", id>> \in workload
              /\ \E pl \in Found(id), s \in Scopes, edits, guarded \in BOOLEAN :
                    /\ s = pl.scope \/ (<<"move", id>> \in workload /\ edits)
                    /\ guarded => edits
                    /\ disk[id][pl].ver < MaxVer
                    /\ job' = [job EXCEPT ![p] = [op |-> "update", id |-> id, place |-> pl,
                           copy |-> disk[id][pl], scope |-> s, edits |-> edits, guarded |-> guarded]]
              /\ Goto(p, "got")
              /\ UNCHANGED <<disk, history, lock, journal, now, plan, recovered, truth>>

Update(p) == /\ pc[p] = "got"
             /\ Goto(p, "lock")
             /\ UNCHANGED <<disk, history, lock, journal, now, job, plan, recovered, truth>>
-----------------------------------------------------------------------------
(* The advisory lock.                                                      *)

Acquire(p) == /\ pc[p] = "lock" /\ lock = NoLock
              /\ lock' = p
              /\ Goto(p, "look")
              /\ UNCHANGED <<disk, history, journal, now, job, plan, recovered, truth>>

\* A lock is seen as stale when it is old, when its process is dead, and when it
\* is gone or cannot be read by the time it is looked at: so any lock may be.
SeeStale(p) == /\ pc[p] = "lock" /\ lock # NoLock
               /\ Goto(p, "steal")
               /\ UNCHANGED <<disk, history, lock, journal, now, job, plan, recovered, truth>>

\* The unlink removes whatever is at the path by now.
Steal(p) == /\ pc[p] = "steal"
            /\ lock' = NoLock
            /\ breached' = (breached \/ \E q \in Procs : lock = q /\ pc[q] \in Critical)
            /\ Goto(p, "lock")
            /\ UNCHANGED <<disk, history, journal, now, job, plan, recovered, kept, brought, wound>>

Leave(p) == /\ Goto(p, "idle")
            /\ job' = [job EXCEPT ![p] = NoJob]
            /\ plan' = [plan EXCEPT ![p] = NoPlan]

LockTimeout(p) == /\ pc[p] = "lock" /\ lock # NoLock
                  /\ Leave(p)
                  /\ UNCHANGED <<disk, history, lock, journal, now, recovered, truth>>

ReleaseFileLock(p) == IF lock = p THEN NoLock ELSE lock
-----------------------------------------------------------------------------
(* What each call finds and decides under the lock.                        *)

New(p, s) == [NoPlan EXCEPT !.at = [arch |-> FALSE, scope |-> s],
                            !.file = [ver |-> 1, text |-> <<p, 1>>, stamp |-> now]]

\* archive and revive: a copy in the other tree, then the unlink here.
MoveTo(id, pl, arch) ==
    [NoPlan EXCEPT !.at = [pl EXCEPT !.arch = arch], !.file = [disk[id][pl] EXCEPT !.stamp = now],
                   !.drop = TRUE, !.from = pl]

\* update: the copy of the caller, moved to the scope it asks for, over the
\* file at that place or, failing that, over the one that the walk finds.
Target(j) == [arch |-> j.place.arch, scope |-> j.scope]
Existing(j) == IF disk[j.id][Target(j)] # NoFile THEN {Target(j)} ELSE Found(j.id)
Fresh(j, pl) == j.guarded => disk[j.id][pl].ver = j.copy.ver
Rewrite(p, j, pl) ==
    LET current == disk[j.id][pl]
        ver  == current.ver + 1
        text == IF j.edits THEN <<p, ver>> ELSE j.copy.text
    IN [snap |-> current.text # text, at |-> Target(j),
        file |-> [ver |-> ver, text |-> text, stamp |-> now],
        drop |-> pl # Target(j), from |-> pl]

Decisions(p) ==
    LET j == job[p] IN
    CASE j.op = "store"   -> {New(p, j.scope)}
      [] j.op = "forget"  -> {[NoPlan EXCEPT !.drop = TRUE, !.from = pl] : pl \in Found(j.id)}
      [] j.op = "archive" -> {MoveTo(j.id, pl, TRUE) : pl \in {q \in Found(j.id) : ~q.arch}}
      [] j.op = "revive"  -> {MoveTo(j.id, pl, FALSE) : pl \in {q \in Found(j.id) : q.arch}}
      [] j.op = "touch"   -> {[NoPlan EXCEPT !.at = pl, !.file = disk[j.id][pl]] : pl \in Found(j.id)}
      [] j.op = "update"  -> {Rewrite(p, j, pl) : pl \in {q \in Existing(j) :
                                                     Fresh(j, q) /\ disk[j.id][q].ver < MaxVer}}

\* A call with nothing to do, or refused (NOT_FOUND, CONFLICT), only releases.
Look(p) == /\ pc[p] = "look" /\ job[p].op \notin {"recover", "importBatch"}
           /\ IF Decisions(p) = {}
                 THEN Leave(p) /\ lock' = ReleaseFileLock(p)
                 ELSE \E d \in Decisions(p) :
                         /\ plan' = [plan EXCEPT ![p] = d]
                         /\ Goto(p, IF d.snap THEN "snap" ELSE IF d.file # NoFile THEN "write" ELSE "drop")
                         /\ UNCHANGED <<job, lock>>
           /\ UNCHANGED <<disk, history, journal, now, recovered, truth>>
-----------------------------------------------------------------------------
(* The file operations.                                                    *)

\* The pre-image goes to the history, which forgets its oldest entries.
MutKeepText(h, text) == h
KeepText(h, text) == LET all == Append(h, text)
                     IN IF Len(all) > HistoryLimit THEN Tail(all) ELSE all

SnapshotHistory(p) ==
    /\ pc[p] = "snap"
    /\ LET id == job[p].id
           f  == disk[id][plan[p].from]
       IN /\ f # NoFile     \* readFile fails otherwise
          /\ history' = [history EXCEPT ![id] = KeepText(@, f.text)]
    /\ Goto(p, "write")
    /\ UNCHANGED <<disk, lock, journal, now, job, plan, recovered, truth>>

\* Of an id with a copy in each tree the archived one is changed, or gets
\* another, or the active one is changed in the millisecond of the archived one.
Spoils(p) ==
    LET id == job[p].id
        at == plan[p].at
        update == job[p].op = "update"
    IN /\ wound[id] = "twin"
       /\ \E a, z \in Homes(id) : ~a.arch /\ z.arch
       /\ IF at.arch THEN update \/ at \notin Homes(id)
          ELSE update /\ \E z \in Homes(id) : z.arch /\ disk[id][z].stamp >= plan[p].file.stamp

WriteCached(p) ==
    /\ pc[p] = "write"
    /\ disk' = [disk EXCEPT ![job[p].id][plan[p].at] = plan[p].file]
    /\ brought' = brought \ {job[p].id}
    /\ wound' = IF Spoils(p) THEN [wound EXCEPT ![job[p].id] = "lost"] ELSE wound
    /\ Goto(p, IF plan[p].drop THEN "drop" ELSE "release")
    /\ UNCHANGED <<history, lock, journal, now, job, plan, recovered, kept, breached>>

Unlink(p) ==
    /\ pc[p] = "drop"
    /\ disk' = [disk EXCEPT ![job[p].id][plan[p].from] = NoFile]
    /\ kept' = [kept EXCEPT ![job[p].id] = IF job[p].op = "forget" THEN {} ELSE @]
    /\ brought' = brought \ {job[p].id}
    /\ Goto(p, "release")
    /\ UNCHANGED <<history, lock, journal, now, job, plan, recovered, breached, wound>>

\* The promise is kept or broken from here on: the caller has its answer.  The
\* answer of touch() says nothing of a content.
Return(p) ==
    /\ pc[p] = "release" /\ job[p].op \notin {"recover", "importBatch"}
    /\ kept' = [kept EXCEPT ![job[p].id] =
                  IF job[p].op \in {"forget", "touch"} THEN @ ELSE @ \cup {plan[p].file.text}]
    /\ lock' = ReleaseFileLock(p)
    /\ Leave(p)
    /\ UNCHANGED <<disk, history, journal, now, recovered, brought, breached, wound>>

\* What is left of a move between the trees that is cut short are two copies
\* that recovery is for; one between scopes, or an import, leaves more.
Wounds(p, id) ==
    IF Importing(p) /\ id \in journal THEN "lost"
    ELSE IF Moving(p) /\ job[p].id = id
         THEN IF wound[id] # "none" \/ plan[p].at.scope # plan[p].from.scope \/ id \in Tenanted
              THEN "lost" ELSE "twin"
    ELSE wound[id]

\* A file operation fails: the call rejects and what it has done stays.
Fail(p) ==
    /\ pc[p] \in {"look", "snap", "write", "drop", "rollback"}
    /\ pc[p] = "drop" => job[p].op # "update"
    /\ wound' = [id \in Ids |-> Wounds(p, id)]
    /\ lock' = ReleaseFileLock(p)
    /\ Leave(p)
    /\ UNCHANGED <<disk, history, journal, now, recovered, kept, brought, breached>>

\* update() says nothing of an old file that it could not remove.
LeaveOld(p) ==
    /\ pc[p] = "drop" /\ job[p].op = "update"
    /\ wound' = [wound EXCEPT ![job[p].id] = "lost"]
    /\ Goto(p, "release")
    /\ UNCHANGED <<disk, history, lock, journal, now, job, plan, recovered, kept, brought, breached>>
-----------------------------------------------------------------------------
(* Snapshot import: a journal, the files, the end of the journal.          *)

Absent == {id \in Batch : Homes(id) = {}}

PlanImport(p) ==
    /\ pc[p] = "look" /\ job[p].op = "importBatch"
    /\ IF Absent = {}
          THEN Leave(p) /\ lock' = ReleaseFileLock(p) /\ UNCHANGED <<journal, brought>>
          ELSE /\ journal' = Absent
               /\ brought' = {}
               /\ job' = [job EXCEPT ![p] = [op |-> "importBatch", ids |-> Absent]]
               /\ Goto(p, "import") /\ UNCHANGED <<lock, plan>>
    /\ UNCHANGED <<disk, history, now, recovered, kept, breached, wound>>

ImportOne(p) ==
    /\ pc[p] = "import"
    /\ \E id \in job[p].ids \ brought :
          IF Homes(id) # {} THEN Goto(p, "undo") /\ UNCHANGED <<disk, brought>>   \* CONFLICT
          ELSE /\ disk' = [disk EXCEPT ![id][Home] = [ver |-> 1, text |-> <<"import", 1>>, stamp |-> 0]]
               /\ brought' = brought \cup {id}
               /\ UNCHANGED pc
    /\ UNCHANGED <<history, lock, journal, now, job, plan, recovered, kept, breached, wound>>

ImportFails(p) == /\ pc[p] = "import"
                  /\ Goto(p, "undo")
                  /\ UNCHANGED <<disk, history, lock, journal, now, job, plan, recovered, truth>>

ImportDone(p) ==
    /\ pc[p] = "import" /\ job[p].ids \subseteq brought
    /\ journal' = {} /\ brought' = brought \ job[p].ids
    /\ kept' = [id \in Ids |-> IF id \in job[p].ids THEN kept[id] \cup {<<"import", 1>>} ELSE kept[id]]
    /\ lock' = ReleaseFileLock(p) /\ Leave(p)
    /\ UNCHANGED <<disk, history, now, recovered, breached, wound>>

\* Every file that was planned is tried; those that cannot be removed stay, and
\* the journal goes all the same, or cannot be removed either.
MutUndoDone(p) == pc[p] = "undo"
UndoDone(p) == pc[p] = "undo" /\ job[p].ids = {}

Undo(p) ==
    \/ /\ pc[p] = "undo"
       /\ \E id \in job[p].ids :
             /\ job' = [job EXCEPT ![p].ids = @ \ {id}]
             /\ disk' \in {disk, [disk EXCEPT ![id][Home] = NoFile]}
             /\ brought' = brought \ {id}
       /\ UNCHANGED <<history, lock, journal, now, pc, plan, recovered, kept, breached, wound>>
    \/ /\ UndoDone(p)
       /\ \/ journal' = {} /\ UNCHANGED wound
          \/ wound' = [id \in Ids |-> Wounds(p, id)] /\ UNCHANGED journal
       /\ lock' = ReleaseFileLock(p) /\ Leave(p)
       /\ UNCHANGED <<disk, history, now, recovered, kept, brought, breached>>
-----------------------------------------------------------------------------
(* Recovery, once per process.                                             *)

Recover(p) ==
    /\ pc[p] = "look" /\ job[p].op = "recover"
    /\ Goto(p, "rollback")
    /\ UNCHANGED <<disk, history, lock, journal, now, job, plan, recovered, truth>>

\* The files of an interrupted import go, and then its journal.
ReconcileSnapshotImport(p) ==
    /\ pc[p] = "rollback"
    /\ IF \E id \in journal : disk[id][Home] # NoFile
          THEN /\ \E id \in journal : /\ disk[id][Home] # NoFile
                                      /\ disk' = [disk EXCEPT ![id][Home] = NoFile]
                                      /\ brought' = brought \ {id}
               /\ UNCHANGED <<journal, pc>>
          ELSE /\ journal' = {} /\ Goto(p, "reconcile") /\ UNCHANGED <<disk, brought>>
    /\ UNCHANGED <<history, lock, now, job, plan, recovered, kept, breached, wound>>

\* Of two copies in the two trees the newer one stays, and the archived one
\* if they are of the same millisecond.
KeepArchived(a, z) == z.stamp >= a.stamp

\* The trees of the tenants are not walked.  Copies within a tree are not
\* compared with each other.
Reconciled(id) ==
    LET active   == {pl \in Homes(id) : ~pl.arch}
        archived == {pl \in Homes(id) : pl.arch}
        Newer(a, z) == ~KeepArchived(disk[id][a], disk[id][z])
    IN IF id \in Tenanted \/ active = {} \/ archived = {} THEN {disk[id]}
       ELSE {[pl \in Places |->
                 IF \/ /\ pl \in active /\ ~Newer(pl, z)
                       /\ \A a \in active : Before(a, pl) => ~Newer(a, z)
                    \/ pl = z /\ \E a \in active : Newer(a, z)
                 THEN NoFile ELSE disk[id][pl]] : z \in archived}

Reconcile(p) ==
    /\ pc[p] = "reconcile"
    /\ \E d \in [Ids -> UNION {Reconciled(id) \cup {disk[id]} : id \in Ids}] :
          /\ \A id \in Ids : d[id] \in Reconciled(id) \cup {disk[id]}   \* the unlink may fail
          /\ disk' = d
    /\ wound' = [id \in Ids |->
          IF wound[id] = "twin" /\ id \notin Tenanted /\ disk'[id] \in Reconciled(id) THEN "none" ELSE wound[id]]
    /\ recovered' = [recovered EXCEPT ![p] = TRUE]
    /\ lock' = ReleaseFileLock(p) /\ Leave(p)
    /\ UNCHANGED <<history, journal, now, kept, brought, breached>>
-----------------------------------------------------------------------------
(* Deaths, restarts, time.                                                 *)

Die(p, left) ==
    /\ p \in Mortal
    /\ recovered[p] \/ pc[p] # "idle"
    /\ wound' = [id \in Ids |-> Wounds(p, id)]
    /\ lock' = left
    /\ Leave(p)
    /\ recovered' = [recovered EXCEPT ![p] = FALSE]
    /\ UNCHANGED <<disk, history, journal, now, kept, brought, breached>>

\* It dies, or it dies between creating the lock file and writing its pid.
Crash(p) == \/ Die(p, IF lock = p THEN "dead" ELSE lock)
            \/ pc[p] = "lock" /\ lock = NoLock /\ Die(p, "dead")

Tick == /\ now < MaxNow
        /\ now' = now + 1
        /\ UNCHANGED <<disk, history, lock, journal, pc, job, plan, recovered, truth>>

Step == \/ \E p \in Procs :
             \/ EnsureRecovered(p) \/ ImportBatch(p) \/ Update(p)
             \/ \E id \in Ids : \/ Get(p, id)
                                \/ \E s \in Scopes : Store(p, id, s)
                                \/ \E op \in Simple : Call(p, op, id)
             \/ Acquire(p) \/ SeeStale(p) \/ Steal(p) \/ LockTimeout(p)
             \/ Look(p) \/ SnapshotHistory(p) \/ WriteCached(p) \/ Unlink(p) \/ Return(p)
             \/ Fail(p) \/ LeaveOld(p)
             \/ PlanImport(p) \/ ImportOne(p) \/ ImportFails(p) \/ ImportDone(p) \/ Undo(p)
             \/ Recover(p) \/ ReconcileSnapshotImport(p) \/ Reconcile(p)
             \/ Crash(p)
        \/ Tick

Next == Step /\ UNCHANGED workload
Spec == Init /\ [][Next]_vars
-----------------------------------------------------------------------------
\* Whatever store(), update() and the imports have acknowledged is in a file of
\* the memory or in its history, or has left that by age, through failures,
\* deaths and recoveries, until forget().  The exceptions (wound) are ids with
\* an interrupted scope move or import, ids of which update() could not remove
\* the old file, and ids changed while they had two copies.
AcknowledgedIsKept ==
    ~breached => \A id \in Ids : wound[id] = "none" =>
        \A t \in kept[id] : \/ \E pl \in Homes(id) : disk[id][pl].text = t
                            \/ \E i \in DOMAIN history[id] : history[id][i] = t
                            \/ Len(history[id]) = HistoryLimit

\* The contract of a backend: at rest an id is in one tree only.  At rest is when
\* nobody moves it, no move of it was cut short since the last recovery, and
\* that recovery could remove what it had to.
OneTreeAtRest ==
    ~breached => \A id \in {i \in Ids : wound[i] = "none"} :
        \/ \E p \in Procs : Moving(p) /\ job[p].id = id
        \/ \A a, b \in Homes(id) : a.arch = b.arch

\* No file of an import that did not finish outlives the journal, whether the
\* import failed or its process died.  The exceptions are files that the failed
\* import could not remove, that another process, which recovered before, has
\* changed in between, or whose journal its own import has replaced.
ImportLeavesNothing == ~breached => brought \subseteq journal

\* What a failure or a death has left half done, a move between the trees or an
\* import, recovery has undone.
RecoveryIsComplete == OneTreeAtRest /\ ImportLeavesNothing
=============================================================================
