---------------------------- MODULE MigrationRun ----------------------------
(***************************************************************************)
(* runDurableTenantMigration() (src/migration-state.ts) over               *)
(* applyTenantMigration() (src/tenant-migration-runner.ts): the records of *)
(* a signed plan are imported one by one, every CheckpointEvery of them    *)
(* the state file is saved, and a retry resumes where the file and the     *)
(* destination agree.  The command may fail or die between any two steps,  *)
(* and another command may run at the same time; both find the same plan.  *)
(* Other writers may change the destination.  The preflight, which writes  *)
(* nothing, has passed.                                                    *)
(*                                                                         *)
(* A record of the destination is missing, as the plan has it ("planned"), *)
(* or something else ("other"); what the checksums tell apart.             *)
(***************************************************************************)
EXTENDS Naturals, FiniteSets

CONSTANTS Nothing, Commands, Total, CheckpointEvery, MaxEdits

VARIABLES dest, file, run, edits,
          late      \* records changed by others since a pass last looked at them

migrationVars == <<dest, file, run, edits, late>>

Planned == 1 .. Total

\* At least one record, and a checkpoint after some number of them.
ASSUME MigrationAssumption == Total \in Nat \ {0} /\ CheckpointEvery \in Nat \ {0} /\ MaxEdits \in Nat
-----------------------------------------------------------------------------
\* The schema of the state file, which save() asks too.
State(status, imported, skipped, processed) ==
    [status |-> status, imported |-> imported, skipped |-> skipped, processed |-> processed]
Valid(s) == s.processed <= Total /\ s.imported + s.skipped = s.processed

Saved(s) == Valid(s) /\ file' = s

\* The steps of a command.  `at` counts the records behind it, `end` those to look at.
Running(c, pc) == run[c] # Nothing /\ run[c].pc = pc
StepTo(c, pc)  == run' = [run EXCEPT ![c].pc = pc]
CommandOver(c) == run' = [run EXCEPT ![c] = Nothing]

\* A file that says "applied" or "published" is only checked again; any other is
\* resumed.
StartCommand(c) ==
    /\ run[c] = Nothing
    /\ run' = [run EXCEPT ![c] =
          IF file = Nothing THEN [pc |-> "begin", at |-> 0, end |-> 0, imported |-> 0, skipped |-> 0,
                                  latest |-> State("applying", 0, 0, 0)]
          ELSE [pc |-> IF file.status \in {"applied", "published"} THEN "recheck" ELSE "check",
                at |-> 0, end |-> IF file.status \in {"applied", "published"} THEN Total ELSE file.processed,
                imported |-> file.imported, skipped |-> file.skipped, latest |-> file]]
    /\ UNCHANGED <<dest, file, edits, late>>

\* firstUnverifiedRecord(), one record at a time.
Matches(i) == dest[i] = "planned"

Look(c) ==
    LET i == run[c].at + 1
    IN  /\ run[c] # Nothing /\ run[c].pc \in {"recheck", "check", "verify"}
        /\ run[c].at < run[c].end /\ Matches(i)
        /\ run' = [run EXCEPT ![c].at = i]
        /\ late' = late \ {i}
        /\ UNCHANGED <<dest, file, edits>>

Ended(c, pc)  == Running(c, pc) /\ run[c].at = run[c].end
Differs(c, pc) == Running(c, pc) /\ run[c].at < run[c].end /\ ~Matches(run[c].at + 1)

\* The check of a finished migration: it throws, or the command goes on.
Recheck(c) ==
    /\ \/ Differs(c, "recheck") /\ CommandOver(c)
       \/ Ended(c, "recheck") /\ StepTo(c, "publish")
    /\ UNCHANGED <<dest, file, edits, late>>

\* A resumption counts from the first record that differs; the counts of before
\* are kept if none does.
Resume(c) ==
    /\ \/ Ended(c, "check") /\ StepTo(c, "begin")
       \/ /\ Differs(c, "check")
          /\ run' = [run EXCEPT ![c].pc = "begin", ![c].imported = 0, ![c].skipped = 0]
    /\ UNCHANGED <<dest, file, edits, late>>

\* The first save stands before the try: a state that it refuses ends the
\* command, and is not recorded.
FirstSave(c) ==
    LET s == State("applying", run[c].imported, run[c].skipped, run[c].at)
    IN  /\ Running(c, "begin")
        /\ \/ Saved(s) /\ run' = [run EXCEPT ![c].pc = "import", ![c].latest = s]
           \/ ~Valid(s) /\ CommandOver(c) /\ UNCHANGED file
        /\ UNCHANGED <<dest, edits, late>>

\* importMemory() takes the record, or skips an id that is there.
Import(c) ==
    LET i == run[c].at + 1
    IN  /\ Running(c, "import") /\ run[c].at < Total
        /\ dest' = [dest EXCEPT ![i] = IF @ = "missing" THEN "planned" ELSE @]
        /\ run' = [run EXCEPT ![c].at = i, ![c].pc = "progress",
                              ![c].imported = IF dest[i] = "missing" THEN @ + 1 ELSE @,
                              ![c].skipped  = IF dest[i] = "missing" THEN @ ELSE @ + 1]
        /\ late' = (IF dest[i] = "missing" THEN late \ {i} ELSE late)
        /\ UNCHANGED <<file, edits>>

\* onProgress: a checkpoint, or none yet.
Due(at) == at % CheckpointEvery = 0 \/ at = Total

Progress(c) ==
    LET s == State("applying", run[c].imported, run[c].skipped, run[c].at)
    IN  /\ Running(c, "progress")
        /\ IF Due(run[c].at) THEN /\ Saved(s)
                                  /\ run' = [run EXCEPT ![c].pc = "import", ![c].latest = s]
                             ELSE StepTo(c, "import") /\ UNCHANGED file
        /\ UNCHANGED <<dest, edits, late>>

MutImportEnds(c) ==
    /\ Running(c, "import") /\ run[c].at = Total
    /\ run' = [run EXCEPT ![c].pc = "verify", ![c].end = Total]
    /\ UNCHANGED <<dest, file, edits, late>>
ImportEnds(c) ==
    /\ Running(c, "import") /\ run[c].at = Total
    /\ run' = [run EXCEPT ![c].pc = "verify", ![c].at = 0, ![c].end = Total]
    /\ UNCHANGED <<dest, file, edits, late>>

Applied(c) ==
    /\ Ended(c, "verify")
    /\ Saved(State("applied", run[c].imported, run[c].skipped, Total))
    /\ StepTo(c, "publish")
    /\ UNCHANGED <<dest, edits, late>>

\* A record that differs in the end, or a step that throws, is recorded over the
\* latest checkpoint, unless that save throws too.
Throw(c) ==
    /\ run[c] # Nothing /\ run[c].pc \in {"import", "progress", "verify"}
    /\ Saved([run[c].latest EXCEPT !.status = "failed"]) \/ UNCHANGED file
    /\ CommandOver(c)
    /\ UNCHANGED <<dest, edits, late>>

\* publishTenantMigration() loads the file again.  One that was published when
\* the command began is left alone.
PublishMigration(c) ==
    /\ Running(c, "publish")
    /\ \/ file.status = "applied" /\ Saved([file EXCEPT !.status = "published"])
       \/ file.status # "applied" /\ UNCHANGED file
    /\ CommandOver(c)
    /\ UNCHANGED <<dest, edits, late>>

\* The command dies; another writer stores, changes or forgets a record.
Crash(c) == run[c] # Nothing /\ CommandOver(c) /\ UNCHANGED <<dest, file, edits, late>>

Edit(i) ==
    /\ edits < MaxEdits /\ edits' = edits + 1
    /\ \E v \in {"other", "missing"} \ {dest[i]} : dest' = [dest EXCEPT ![i] = v]
    /\ late' = late \cup {i}
    /\ UNCHANGED <<file, run>>
-----------------------------------------------------------------------------
MigrationInit ==
    /\ dest \in [Planned -> {"missing", "other"}]
    /\ file = Nothing /\ run = [c \in Commands |-> Nothing] /\ edits = 0 /\ late = {}

MigrationNext ==
    \/ \E c \in Commands :
          \/ StartCommand(c) \/ Look(c) \/ Recheck(c) \/ Resume(c) \/ FirstSave(c) \/ Import(c) \/ Progress(c)
          \/ ImportEnds(c) \/ Applied(c) \/ Throw(c) \/ PublishMigration(c) \/ Crash(c)
    \/ \E i \in Planned : Edit(i)

MigrationSpec == MigrationInit /\ [][MigrationNext]_migrationVars
-----------------------------------------------------------------------------
\* The state file never claims more than the destination holds: what it counts
\* as processed is there, and once it says that the plan is applied or published
\* every record is as planned, whatever failed, died or ran beside it before;
\* except what others have changed after it was looked at.
FileIsTrue ==
    file # Nothing =>
       /\ \A i \in 1 .. file.processed : dest[i] # "missing" \/ i \in late
       /\ file.status \in {"applied", "published"} =>
             \A i \in Planned : Matches(i) \/ i \in late
=============================================================================
