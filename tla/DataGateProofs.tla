--------------------------- MODULE DataGateProofs ---------------------------
(***************************************************************************)
(* Theorems about what servers that share a deployment keep for each       *)
(* other: the ledger that the processes which start at once end up with    *)
(* (LedgerStart), its read-only mode (RecoveryState), and the claims and   *)
(* gates of its keyed batches and commands (DataGate), for any number of   *)
(* each.                                                                   *)
(*                                                                         *)
(* For AtMostOnce, ReplayIsTrue, RestoreExcludesBatches and                *)
(* NoHalfMigration the argument is: the flag is never set while a claim is *)
(* in progress, and no claim is made while it is set.  Every step of a     *)
(* command that touches the data is taken under the flag; a batch that     *)
(* runs, and every batch that has written, owns the row of its key.  All   *)
(* this is given up when a marker is left without its flag (stray), and    *)
(* is true again when the ledger has been invalidated with nothing         *)
(* running.  A migration takes no step without the flag even so.           *)
(*                                                                         *)
(* The two models of a migration (MigrationRun, MigrationPlan) are apart   *)
(* from these: what a command has behind it is there, and what its         *)
(* verification has behind it is as planned, until others change it.       *)
(***************************************************************************)
EXTENDS DataGate, RecoveryState, LedgerStart, MigrationPlan, FiniteSetTheorems, TLAPS

Closed == {"ReadOnly", "Failed"}

DurableOK == durable \in States \cup {"none"}

\* What the steps need to know of the types.
RecoveryTypeOK == /\ local \in [Procs -> States]
                  /\ DOMAIN stage = Procs
                  /\ DurableOK
                  /\ frozen \in BOOLEAN /\ raced \in BOOLEAN /\ leaked \in BOOLEAN

\* While the file is as the operator left it, or says that something failed, a
\* process that has read it since then believes the one or the other.
ReadersKnow ==
    frozen /\ ~raced => \A p \in Procs \ old : stage[p] # "off" => local[p] \in Closed

\* The inductive invariant of the read-only mode.
RecoveryInv == RecoveryTypeOK /\ ReadersKnow /\ ReadOnlyHolds

\* The events of probes lead out of neither of the two states.
LEMMA ClosedStaysClosed ==
  ASSUME NEW s \in States, NEW e \in {"ready", "degraded", "storage_error", "failed"}
  PROVE  /\ Transition(s, e) \in States
         /\ s \in Closed /\ e # "failed" => Transition(s, e) = s
         /\ e = "failed" => Transition(s, e) = "Failed"
  BY DEF Transition, Closed, States

\* A probe that applies an event keeps the invariant.
LEMMA ApplyStep ==
  ASSUME RecoveryInv, NEW p \in Procs, NEW e \in {"ready", "degraded"},
         NEW l \in {"fallback", "up"}, stage[p] # "off",
         ApplyEvent(p, e, l)
  PROVE  RecoveryInv'
<1> USE DEF RecoveryInv
<1>1. /\ Transition(local[p], e) \in States
      /\ local[p] \in Closed => Transition(local[p], e) = local[p]
  BY ClosedStaysClosed DEF RecoveryTypeOK
<1>2. /\ UNCHANGED <<frozen, old, leaked>>
      /\ \E x \in {l, "caught"} : stage' = [stage EXCEPT ![p] = x]
  BY DEF ApplyEvent, Move
<1>3. CASE UNCHANGED <<durable, local, raced>>
  BY <1>2, <1>3 DEF RecoveryTypeOK, DurableOK, ReadersKnow, ReadOnlyHolds
<1>4. CASE /\ Transition(local[p], e) # local[p]
           /\ durable' = Transition(local[p], e)
           /\ local' = [local EXCEPT ![p] = Transition(local[p], e)]
           /\ raced' = (raced \/ (frozen /\ p \in old))
  <2>1. frozen /\ ~raced => raced'
    <3>1. local[p] \notin Closed
      BY <1>1, <1>4
    <3> QED BY <1>4, <3>1 DEF ReadersKnow
  <2> QED BY <1>1, <1>2, <1>4, <2>1 DEF RecoveryTypeOK, DurableOK, ReadersKnow, ReadOnlyHolds
<1> QED BY <1>3, <1>4 DEF ApplyEvent, Believe

\* Every step of every process keeps the invariant.
LEMMA RecoveryStep == RecoveryInv /\ [RecoveryNext]_recoveryVars => RecoveryInv'
<1> SUFFICES ASSUME RecoveryInv, [RecoveryNext]_recoveryVars
             PROVE  RecoveryInv'
  OBVIOUS
<1> USE DEF RecoveryInv, Move, Believe, Off
<1>1. ASSUME NEW p \in Procs, Start(p)
      PROVE  RecoveryInv'
  <2>1. /\ \E s \in States : /\ local' = [local EXCEPT ![p] = s]
                             /\ frozen /\ ~raced => s \in Closed
        /\ stage' = [stage EXCEPT ![p] = "probe"]
        /\ old' = old \ {p}
        /\ UNCHANGED <<durable, frozen, raced, leaked>>
    BY <1>1 DEF Start, RecoveryTypeOK, ReadOnlyHolds, DurableOK, Closed, States
  <2> QED BY <2>1 DEF RecoveryTypeOK, DurableOK, ReadersKnow, ReadOnlyHolds
<1>2. ASSUME NEW p \in Procs, ProbeRead(p)
      PROVE  RecoveryInv'
  <2>0. /\ stage[p] # "off"
        /\ UNCHANGED <<durable, frozen, raced, leaked>>
    BY <1>2 DEF ProbeRead
  <2>1. CASE /\ local' = [local EXCEPT ![p] = Read(p)]
             /\ stage' = [stage EXCEPT ![p] = "reading"] /\ old' = old \ {p}
    <3>1. Read(p) \in States /\ (frozen /\ ~raced => Read(p) \in Closed)
      BY DEF Read, RecoveryTypeOK, DurableOK, ReadOnlyHolds, Closed, States
    <3> QED BY <2>0, <2>1, <3>1 DEF RecoveryTypeOK, DurableOK, ReadersKnow, ReadOnlyHolds
  <2>2. CASE stage' = [stage EXCEPT ![p] = "caught"] /\ UNCHANGED <<local, old>>
    BY <2>0, <2>2 DEF RecoveryTypeOK, DurableOK, ReadersKnow, ReadOnlyHolds
  <2> QED BY <1>2, <2>1, <2>2 DEF ProbeRead
<1>3. ASSUME NEW p \in Procs, ProbeStorage(p)
      PROVE  RecoveryInv'
  BY <1>3 DEF ProbeStorage, RecoveryTypeOK, DurableOK, ReadersKnow, ReadOnlyHolds
<1>4. ASSUME NEW p \in Procs, ProbeReady(p)
      PROVE  RecoveryInv'
  <2>1. stage[p] # "off" /\ ApplyEvent(p, "ready", "fallback")
    BY <1>4 DEF ProbeReady
  <2> QED BY <2>1, ApplyStep
<1>5. ASSUME NEW p \in Procs, ProbeFallback(p)
      PROVE  RecoveryInv'
  <2>1. stage[p] # "off"
    BY <1>5 DEF ProbeFallback
  <2>2. CASE ApplyEvent(p, "degraded", "up")
    BY <2>1, <2>2, ApplyStep
  <2>3. CASE /\ stage' = [stage EXCEPT ![p] = "up"]
             /\ UNCHANGED <<durable, local, frozen, old, raced, leaked>>
    BY <2>1, <2>3 DEF RecoveryTypeOK, DurableOK, ReadersKnow, ReadOnlyHolds
  <2> QED BY <1>5, <2>2, <2>3 DEF ProbeFallback
<1>6. ASSUME NEW p \in Procs, ProbeCaught(p)
      PROVE  RecoveryInv'
  <2> DEFINE next == Transition(local[p], IF local[p] = "ReadOnly" THEN "storage_error" ELSE "failed")
  <2>1. next \in {"ReadOnly", "Failed"}
    BY DEF Transition
  <2>2. /\ durable' \in {durable, "Failed"}
        /\ local' = [local EXCEPT ![p] = next]
        /\ \E x \in {"off", "up"} : stage' = [stage EXCEPT ![p] = x]
        /\ UNCHANGED <<frozen, old, raced, leaked>>
        /\ stage[p] = "caught"
    BY <1>6 DEF ProbeCaught
  <2> HIDE DEF next
  <2> QED BY <2>1, <2>2 DEF RecoveryTypeOK, DurableOK, ReadersKnow, ReadOnlyHolds, Closed, States
<1>7. ASSUME NEW p \in Procs, EnterReadOnly(p)
      PROVE  RecoveryInv'
  <2>1. /\ local' = [local EXCEPT ![p] = "ReadOnly"]
        /\ stage' = [stage EXCEPT ![p] = "off"]
        /\ UNCHANGED leaked
    BY <1>7 DEF EnterReadOnly
  <2>2. CASE /\ durable' = "ReadOnly" /\ frozen' = TRUE /\ raced' = FALSE
             /\ old' = {q \in Procs : stage[q] # "off"}
    <3>1. \A q \in Procs \ old' : stage'[q] = "off"
      BY <2>1, <2>2 DEF RecoveryTypeOK
    <3> QED BY <2>1, <2>2, <3>1 DEF RecoveryTypeOK, DurableOK, ReadersKnow, ReadOnlyHolds, States
  <2>3. CASE UNCHANGED <<durable, frozen, raced, old>>
    BY <2>1, <2>3 DEF RecoveryTypeOK, DurableOK, ReadersKnow, ReadOnlyHolds, States
  <2> QED BY <1>7, <2>2, <2>3 DEF EnterReadOnly
<1>8. ASSUME NEW p \in Procs, VerifyRecovery(p)
      PROVE  RecoveryInv'
  <2>1. CASE /\ durable' \in {"Degraded", "Healthy"}
             /\ local' = [local EXCEPT ![p] = durable'] /\ frozen' = FALSE
             /\ stage' = [stage EXCEPT ![p] = "probe"]
    BY <1>8, <2>1 DEF VerifyRecovery, RecoveryTypeOK, DurableOK, ReadersKnow, ReadOnlyHolds, States
  <2>2. CASE /\ durable' = "Failed" /\ stage' = [stage EXCEPT ![p] = "off"]
             /\ UNCHANGED <<local, frozen>>
    BY <1>8, <2>2 DEF VerifyRecovery, RecoveryTypeOK, DurableOK, ReadersKnow, ReadOnlyHolds, States
  <2> QED BY <1>8, <2>1, <2>2 DEF VerifyRecovery
<1>9. ASSUME NEW p \in Procs, Write(p)
      PROVE  RecoveryInv'
  <2>1. /\ local' = [local EXCEPT ![p] = Read(p)] /\ old' = old \ {p}
        /\ leaked' = (leaked \/ (Writable(Read(p)) /\ frozen /\ ~raced))
        /\ UNCHANGED <<durable, stage, frozen, raced>>
    BY <1>9 DEF Write
  <2>2. Read(p) \in States /\ (frozen /\ ~raced => Read(p) \in Closed)
    BY DEF Read, RecoveryTypeOK, DurableOK, ReadOnlyHolds, Closed, States
  <2>3. ~leaked'
    BY <2>1, <2>2 DEF ReadOnlyHolds, Writable, Closed
  <2> QED BY <2>1, <2>2, <2>3 DEF RecoveryTypeOK, DurableOK, ReadersKnow, ReadOnlyHolds
<1>10. ASSUME NEW p \in Procs, Exit(p)
       PROVE  RecoveryInv'
  BY <1>10 DEF Exit, RecoveryTypeOK, DurableOK, ReadersKnow, ReadOnlyHolds
<1>11. ASSUME UNCHANGED recoveryVars
       PROVE  RecoveryInv'
  BY <1>11 DEF recoveryVars, RecoveryTypeOK, DurableOK, ReadersKnow, ReadOnlyHolds
<1> QED
  BY <1>1, <1>2, <1>3, <1>4, <1>5, <1>6, <1>7, <1>8, <1>9, <1>10, <1>11 DEF RecoveryNext

\* Read-only mode holds, however many servers and operators there are, until
\* the operator verifies it: see ReadOnlyHolds for the one exception.
THEOREM StaysReadOnly == RecoverySpec => []ReadOnlyHolds
<1>1. RecoveryInit => RecoveryInv
  BY DEF RecoveryInit, RecoveryInv, RecoveryTypeOK, DurableOK, ReadersKnow, ReadOnlyHolds, States
<1>2. RecoveryInv => ReadOnlyHolds
  BY DEF RecoveryInv
<1> QED BY <1>1, <1>2, RecoveryStep, PTL DEF RecoverySpec
-----------------------------------------------------------------------------
\* The places at which a process has its key, and its identity; those at which
\* it has seen the whole ledger, or has made it; and those of the creator.
Keyed     == {"read_identity", "look", "await_file", "stage_identity", "link_identity",
              "clear_identity", "create", "make_meta", "make_claims", "insert_meta",
              "await_meta", "columns", "rebuild", "verify", "open", "refused"}
Known     == {"await_file", "create", "make_meta", "make_claims", "insert_meta",
              "await_meta", "columns", "rebuild", "verify", "open"}
Entered   == {"columns", "rebuild", "verify", "open"}
Drawing   == {"stage_identity", "link_identity", "clear_identity"}
Making    == {"make_meta", "make_claims", "insert_meta"}
OfCreator == {"clear_identity", "create", "verify", "open", "dead"} \cup Making

StartTypeOK ==
    /\ keyFile \in Origins \cup {None} /\ idFile \in Origins \cup {None}
    /\ at \in [Starts -> Keyed \cup {"scan", "stage_key", "link_key", "take_key",
                                     "timed_out", "dead"}]
    /\ mine \in [Starts -> [key : Origins \cup {None}, identity : Origins \cup {None},
                            created : BOOLEAN]]
    /\ db \in [file : BOOLEAN, meta : BOOLEAN, claims : {None, "v1", "v2"},
               row : {None} \cup [identity : Origins, mac : Origins]]
    /\ rows \in [ClaimKeys -> {None, "legacy", "unbound", "bound"}]
    /\ made \in [ClaimKeys -> {None, "unbound", "bound"}]

\* Whoever has a key or an identity has the one of the file.
KeyIsTaken == \A s \in Starts :
    /\ at[s] = "take_key" => keyFile # None
    /\ at[s] \in Keyed => keyFile # None /\ mine[s].key = keyFile

IdentityIsRead == \A s \in Starts :
    /\ mine[s].identity # None => mine[s].identity = idFile
    /\ at[s] \in Known => mine[s].identity # None
    /\ at[s] \in Making => mine[s].created
    /\ mine[s].created => idFile = s /\ mine[s].identity = s /\ at[s] \in OfCreator

\* The generation row is signed with both, and the table that goes with it is
\* of the present schema wherever a process relies on it.
RowIsSigned ==
    /\ db.file => idFile # None
    /\ db.row # None => /\ idFile # None /\ keyFile # None
                        /\ db.row = [identity |-> idFile, mac |-> keyFile]
    /\ \A s \in Starts : /\ at[s] \in Entered => db.row # None
                         /\ at[s] \in {"insert_meta", "verify", "open"} => db.claims = "v2"

\* Whoever drew the identity is never refused.  Under an identity of old, nobody
\* draws one, and a process is refused only for a claim of one that is open.
RefusedForReason ==
    /\ idFile \in Starts => mine[idFile].created
    /\ idFile = "old" => \A s \in Starts : /\ at[s] = "look" => mine[s].identity # None
                                           /\ at[s] \notin Drawing
    /\ (\E k \in ClaimKeys : rows[k] = "bound") => \E s \in Starts : at[s] = "open"
    /\ \A s \in Starts : at[s] = "refused" =>
          idFile # None /\ (idFile = "old" => \E t \in Starts : at[t] = "open")

\* The inductive invariant of the start.
StartInv == /\ StartTypeOK /\ KeyIsTaken /\ IdentityIsRead /\ RowIsSigned
            /\ RefusedForReason /\ ClaimsAreKept

\* Every step of every start keeps the invariant.
LEMMA StartStep == StartInv /\ [StartNext]_startVars => StartInv'
<1> SUFFICES ASSUME StartInv, [StartNext]_startVars
             PROVE  StartInv'
  OBVIOUS
<1> USE StartAssumption DEF StartInv, Advance
<1>1. ASSUME NEW s \in Starts, Scan(s)
      PROVE  StartInv'
  <2> USE <1>1 DEF Scan, Keyed, Known, Entered, Drawing, Making, OfCreator
  <2>1. StartTypeOK'
    BY DEF Origins, StartTypeOK, KeyIsTaken, IdentityIsRead
  <2>2. KeyIsTaken'
    BY DEF StartTypeOK, KeyIsTaken
  <2>3. IdentityIsRead'
    BY DEF StartTypeOK, IdentityIsRead
  <2>4. RowIsSigned'
    BY DEF StartTypeOK, RowIsSigned, KeyIsTaken, IdentityIsRead
  <2>5. RefusedForReason'
    BY DEF StartTypeOK, RefusedForReason, IdentityIsRead, RowIsSigned
  <2>6. ClaimsAreKept'
    BY DEF StartTypeOK, ClaimsAreKept
  <2> QED BY <2>1, <2>2, <2>3, <2>4, <2>5, <2>6
<1>2. ASSUME NEW s \in Starts, StageKey(s)
      PROVE  StartInv'
  <2> USE <1>2 DEF StageKey, Keyed, Known, Entered, Drawing, Making, OfCreator
  <2>1. StartTypeOK'
    BY DEF Origins, StartTypeOK, KeyIsTaken, IdentityIsRead
  <2>2. KeyIsTaken'
    BY DEF StartTypeOK, KeyIsTaken
  <2>3. IdentityIsRead'
    BY DEF StartTypeOK, IdentityIsRead
  <2>4. RowIsSigned'
    BY DEF StartTypeOK, RowIsSigned, KeyIsTaken, IdentityIsRead
  <2>5. RefusedForReason'
    BY DEF StartTypeOK, RefusedForReason, IdentityIsRead, RowIsSigned
  <2>6. ClaimsAreKept'
    BY DEF StartTypeOK, ClaimsAreKept
  <2> QED BY <2>1, <2>2, <2>3, <2>4, <2>5, <2>6
<1>3. ASSUME NEW s \in Starts, LinkKey(s)
      PROVE  StartInv'
  <2> USE <1>3 DEF LinkKey, Keyed, Known, Entered, Drawing, Making, OfCreator
  <2>1. StartTypeOK'
    BY DEF Origins, StartTypeOK, KeyIsTaken, IdentityIsRead, Linked
  <2>2. KeyIsTaken'
    BY DEF StartTypeOK, KeyIsTaken, Origins, Linked
  <2>3. IdentityIsRead'
    BY DEF StartTypeOK, IdentityIsRead
  <2>4. RowIsSigned'
    BY DEF StartTypeOK, RowIsSigned, KeyIsTaken, IdentityIsRead, Origins, Linked
  <2>5. RefusedForReason'
    BY DEF StartTypeOK, RefusedForReason, IdentityIsRead, RowIsSigned
  <2>6. ClaimsAreKept'
    BY DEF StartTypeOK, ClaimsAreKept
  <2> QED BY <2>1, <2>2, <2>3, <2>4, <2>5, <2>6
<1>4. ASSUME NEW s \in Starts, TakeKey(s)
      PROVE  StartInv'
  <2> USE <1>4 DEF TakeKey, Keyed, Known, Entered, Drawing, Making, OfCreator
  <2>1. StartTypeOK'
    BY DEF Origins, StartTypeOK, KeyIsTaken, IdentityIsRead
  <2>2. KeyIsTaken'
    BY DEF StartTypeOK, KeyIsTaken
  <2>3. IdentityIsRead'
    BY DEF StartTypeOK, IdentityIsRead
  <2>4. RowIsSigned'
    BY DEF StartTypeOK, RowIsSigned, KeyIsTaken, IdentityIsRead
  <2>5. RefusedForReason'
    BY DEF StartTypeOK, RefusedForReason, IdentityIsRead, RowIsSigned
  <2>6. ClaimsAreKept'
    BY DEF StartTypeOK, ClaimsAreKept
  <2> QED BY <2>1, <2>2, <2>3, <2>4, <2>5, <2>6
<1>5. ASSUME NEW s \in Starts, ReadIdentity(s)
      PROVE  StartInv'
  <2> USE <1>5 DEF ReadIdentity, Keyed, Known, Entered, Drawing, Making, OfCreator
  <2>1. StartTypeOK'
    BY DEF Origins, StartTypeOK, KeyIsTaken, IdentityIsRead
  <2>2. KeyIsTaken'
    BY DEF StartTypeOK, KeyIsTaken
  <2>3. IdentityIsRead'
    BY DEF StartTypeOK, IdentityIsRead
  <2>4. RowIsSigned'
    BY DEF StartTypeOK, RowIsSigned, KeyIsTaken, IdentityIsRead
  <2>5. RefusedForReason'
    BY DEF StartTypeOK, RefusedForReason, IdentityIsRead, RowIsSigned, Origins
  <2>6. ClaimsAreKept'
    BY DEF StartTypeOK, ClaimsAreKept
  <2> QED BY <2>1, <2>2, <2>3, <2>4, <2>5, <2>6
<1>6. ASSUME NEW s \in Starts, LookForDatabase(s)
      PROVE  StartInv'
  <2> USE <1>6 DEF LookForDatabase, Keyed, Known, Entered, Drawing, Making, OfCreator
  <2>1. StartTypeOK'
    BY DEF Origins, StartTypeOK, KeyIsTaken, IdentityIsRead
  <2>2. KeyIsTaken'
    BY DEF StartTypeOK, KeyIsTaken
  <2>3. IdentityIsRead'
    BY DEF StartTypeOK, IdentityIsRead
  <2>4. RowIsSigned'
    BY DEF StartTypeOK, RowIsSigned, KeyIsTaken, IdentityIsRead
  <2>5. RefusedForReason'
    BY DEF StartTypeOK, RefusedForReason, IdentityIsRead, RowIsSigned
  <2>6. ClaimsAreKept'
    BY DEF StartTypeOK, ClaimsAreKept
  <2> QED BY <2>1, <2>2, <2>3, <2>4, <2>5, <2>6
<1>7. ASSUME NEW s \in Starts, DatabaseAppears(s)
      PROVE  StartInv'
  <2> USE <1>7 DEF DatabaseAppears, Keyed, Known, Entered, Drawing, Making, OfCreator
  <2>1. StartTypeOK'
    BY DEF Origins, StartTypeOK, KeyIsTaken, IdentityIsRead
  <2>2. KeyIsTaken'
    BY DEF StartTypeOK, KeyIsTaken
  <2>3. IdentityIsRead'
    BY DEF StartTypeOK, IdentityIsRead
  <2>4. RowIsSigned'
    BY DEF StartTypeOK, RowIsSigned, KeyIsTaken, IdentityIsRead
  <2>5. RefusedForReason'
    BY DEF StartTypeOK, RefusedForReason, IdentityIsRead, RowIsSigned
  <2>6. ClaimsAreKept'
    BY DEF StartTypeOK, ClaimsAreKept
  <2> QED BY <2>1, <2>2, <2>3, <2>4, <2>5, <2>6
<1>8. ASSUME NEW s \in Starts, StageIdentity(s)
      PROVE  StartInv'
  <2> USE <1>8 DEF StageIdentity, Keyed, Known, Entered, Drawing, Making, OfCreator
  <2>1. StartTypeOK'
    BY DEF Origins, StartTypeOK, KeyIsTaken, IdentityIsRead
  <2>2. KeyIsTaken'
    BY DEF StartTypeOK, KeyIsTaken
  <2>3. IdentityIsRead'
    BY DEF StartTypeOK, IdentityIsRead
  <2>4. RowIsSigned'
    BY DEF StartTypeOK, RowIsSigned, KeyIsTaken, IdentityIsRead
  <2>5. RefusedForReason'
    BY DEF StartTypeOK, RefusedForReason, IdentityIsRead, RowIsSigned
  <2>6. ClaimsAreKept'
    BY DEF StartTypeOK, ClaimsAreKept
  <2> QED BY <2>1, <2>2, <2>3, <2>4, <2>5, <2>6
<1>9. ASSUME NEW s \in Starts, LinkIdentity(s)
      PROVE  StartInv'
  <2> USE <1>9 DEF LinkIdentity, Keyed, Known, Entered, Drawing, Making, OfCreator
  <2>1. StartTypeOK'
    BY DEF Origins, StartTypeOK, KeyIsTaken, IdentityIsRead, Linked
  <2>2. KeyIsTaken'
    BY DEF StartTypeOK, KeyIsTaken
  <2>3. IdentityIsRead'
    BY DEF StartTypeOK, IdentityIsRead, Origins, Linked
  <2>4. RowIsSigned'
    BY DEF StartTypeOK, RowIsSigned, KeyIsTaken, IdentityIsRead, Origins, Linked
  <2>5. RefusedForReason'
    BY DEF StartTypeOK, RefusedForReason, IdentityIsRead, RowIsSigned, Origins, Linked
  <2>6. ClaimsAreKept'
    BY DEF StartTypeOK, ClaimsAreKept
  <2> QED BY <2>1, <2>2, <2>3, <2>4, <2>5, <2>6
<1>10. ASSUME NEW s \in Starts, ClearIdentity(s)
      PROVE  StartInv'
  <2> USE <1>10 DEF ClearIdentity, Keyed, Known, Entered, Drawing, Making, OfCreator
  <2>1. StartTypeOK'
    BY DEF Origins, StartTypeOK, KeyIsTaken, IdentityIsRead
  <2>2. KeyIsTaken'
    BY DEF StartTypeOK, KeyIsTaken
  <2>3. IdentityIsRead'
    BY DEF StartTypeOK, IdentityIsRead, Origins
  <2>4. RowIsSigned'
    BY DEF StartTypeOK, RowIsSigned, KeyIsTaken, IdentityIsRead
  <2>5. RefusedForReason'
    BY DEF StartTypeOK, RefusedForReason, IdentityIsRead, RowIsSigned
  <2>6. ClaimsAreKept'
    BY DEF StartTypeOK, ClaimsAreKept
  <2> QED BY <2>1, <2>2, <2>3, <2>4, <2>5, <2>6
<1>11. ASSUME NEW s \in Starts, CreateFile(s)
      PROVE  StartInv'
  <2> USE <1>11 DEF CreateFile, Keyed, Known, Entered, Drawing, Making, OfCreator
  <2>1. StartTypeOK'
    BY DEF Origins, StartTypeOK, KeyIsTaken, IdentityIsRead
  <2>2. KeyIsTaken'
    BY DEF StartTypeOK, KeyIsTaken
  <2>3. IdentityIsRead'
    BY DEF StartTypeOK, IdentityIsRead
  <2>4. RowIsSigned'
    BY DEF StartTypeOK, RowIsSigned, KeyIsTaken, IdentityIsRead
  <2>5. RefusedForReason'
    BY DEF StartTypeOK, RefusedForReason, IdentityIsRead, RowIsSigned
  <2>6. ClaimsAreKept'
    BY DEF StartTypeOK, ClaimsAreKept
  <2> QED BY <2>1, <2>2, <2>3, <2>4, <2>5, <2>6
<1>12. ASSUME NEW s \in Starts, MakeMeta(s)
      PROVE  StartInv'
  <2> USE <1>12 DEF MakeMeta, Keyed, Known, Entered, Drawing, Making, OfCreator
  <2>1. StartTypeOK'
    BY DEF Origins, StartTypeOK, KeyIsTaken, IdentityIsRead
  <2>2. KeyIsTaken'
    BY DEF StartTypeOK, KeyIsTaken
  <2>3. IdentityIsRead'
    BY DEF StartTypeOK, IdentityIsRead
  <2>4. RowIsSigned'
    BY DEF StartTypeOK, RowIsSigned, KeyIsTaken, IdentityIsRead
  <2>5. RefusedForReason'
    BY DEF StartTypeOK, RefusedForReason, IdentityIsRead, RowIsSigned
  <2>6. ClaimsAreKept'
    BY DEF StartTypeOK, ClaimsAreKept
  <2> QED BY <2>1, <2>2, <2>3, <2>4, <2>5, <2>6
<1>13. ASSUME NEW s \in Starts, MakeClaims(s)
      PROVE  StartInv'
  <2> USE <1>13 DEF MakeClaims, Keyed, Known, Entered, Drawing, Making, OfCreator
  <2>1. StartTypeOK'
    BY DEF Origins, StartTypeOK, KeyIsTaken, IdentityIsRead
  <2>2. KeyIsTaken'
    BY DEF StartTypeOK, KeyIsTaken
  <2>3. IdentityIsRead'
    BY DEF StartTypeOK, IdentityIsRead
  <2>4. RowIsSigned'
    BY DEF StartTypeOK, RowIsSigned, KeyIsTaken, IdentityIsRead
  <2>5. RefusedForReason'
    BY DEF StartTypeOK, RefusedForReason, IdentityIsRead, RowIsSigned
  <2>6. ClaimsAreKept'
    BY DEF StartTypeOK, ClaimsAreKept
  <2> QED BY <2>1, <2>2, <2>3, <2>4, <2>5, <2>6
<1>14. ASSUME NEW s \in Starts, InsertMeta(s)
      PROVE  StartInv'
  <2> USE <1>14 DEF InsertMeta, Keyed, Known, Entered, Drawing, Making, OfCreator
  <2>1. StartTypeOK'
    BY DEF Origins, StartTypeOK, KeyIsTaken, IdentityIsRead
  <2>2. KeyIsTaken'
    BY DEF StartTypeOK, KeyIsTaken
  <2>3. IdentityIsRead'
    BY DEF StartTypeOK, IdentityIsRead
  <2>4. RowIsSigned'
    BY DEF StartTypeOK, RowIsSigned, KeyIsTaken, IdentityIsRead
  <2>5. RefusedForReason'
    BY DEF StartTypeOK, RefusedForReason, IdentityIsRead, RowIsSigned
  <2>6. ClaimsAreKept'
    BY DEF StartTypeOK, ClaimsAreKept
  <2> QED BY <2>1, <2>2, <2>3, <2>4, <2>5, <2>6
<1>15. ASSUME NEW s \in Starts, MetaAppears(s)
      PROVE  StartInv'
  <2> USE <1>15 DEF MetaAppears, Keyed, Known, Entered, Drawing, Making, OfCreator
  <2>1. StartTypeOK'
    BY DEF Origins, StartTypeOK, KeyIsTaken, IdentityIsRead
  <2>2. KeyIsTaken'
    BY DEF StartTypeOK, KeyIsTaken
  <2>3. IdentityIsRead'
    BY DEF StartTypeOK, IdentityIsRead
  <2>4. RowIsSigned'
    BY DEF StartTypeOK, RowIsSigned, KeyIsTaken, IdentityIsRead, Partial
  <2>5. RefusedForReason'
    BY DEF StartTypeOK, RefusedForReason, IdentityIsRead, RowIsSigned
  <2>6. ClaimsAreKept'
    BY DEF StartTypeOK, ClaimsAreKept
  <2> QED BY <2>1, <2>2, <2>3, <2>4, <2>5, <2>6
<1>16. ASSUME NEW s \in Starts, GiveUp(s)
      PROVE  StartInv'
  <2> USE <1>16 DEF GiveUp, Keyed, Known, Entered, Drawing, Making, OfCreator
  <2>1. StartTypeOK'
    BY DEF Origins, StartTypeOK, KeyIsTaken, IdentityIsRead
  <2>2. KeyIsTaken'
    BY DEF StartTypeOK, KeyIsTaken
  <2>3. IdentityIsRead'
    BY DEF StartTypeOK, IdentityIsRead
  <2>4. RowIsSigned'
    BY DEF StartTypeOK, RowIsSigned, KeyIsTaken, IdentityIsRead
  <2>5. RefusedForReason'
    BY DEF StartTypeOK, RefusedForReason, IdentityIsRead, RowIsSigned
  <2>6. ClaimsAreKept'
    BY DEF StartTypeOK, ClaimsAreKept
  <2> QED BY <2>1, <2>2, <2>3, <2>4, <2>5, <2>6
<1>17. ASSUME NEW s \in Starts, LookAtColumns(s)
      PROVE  StartInv'
  <2> USE <1>17 DEF LookAtColumns, Keyed, Known, Entered, Drawing, Making, OfCreator
  <2>1. StartTypeOK'
    BY DEF Origins, StartTypeOK, KeyIsTaken, IdentityIsRead
  <2>2. KeyIsTaken'
    BY DEF StartTypeOK, KeyIsTaken
  <2>3. IdentityIsRead'
    BY DEF StartTypeOK, IdentityIsRead
  <2>4. RowIsSigned'
    BY DEF StartTypeOK, RowIsSigned, KeyIsTaken, IdentityIsRead
  <2>5. RefusedForReason'
    BY DEF StartTypeOK, RefusedForReason, IdentityIsRead, RowIsSigned
  <2>6. ClaimsAreKept'
    BY DEF StartTypeOK, ClaimsAreKept
  <2> QED BY <2>1, <2>2, <2>3, <2>4, <2>5, <2>6
<1>18. ASSUME NEW s \in Starts, Rebuild(s)
      PROVE  StartInv'
  <2> USE <1>18 DEF Rebuild, Keyed, Known, Entered, Drawing, Making, OfCreator
  <2>1. StartTypeOK'
    BY DEF Origins, StartTypeOK, KeyIsTaken, IdentityIsRead
  <2>2. KeyIsTaken'
    BY DEF StartTypeOK, KeyIsTaken
  <2>3. IdentityIsRead'
    BY DEF StartTypeOK, IdentityIsRead
  <2>4. RowIsSigned'
    BY DEF StartTypeOK, RowIsSigned, KeyIsTaken, IdentityIsRead
  <2>5. RefusedForReason'
    BY DEF StartTypeOK, RefusedForReason, IdentityIsRead, RowIsSigned, Verifies
  <2>6. ClaimsAreKept'
    BY ZenonT(60) DEF StartTypeOK, ClaimsAreKept, Verifies
  <2> QED BY <2>1, <2>2, <2>3, <2>4, <2>5, <2>6
<1>19. ASSUME NEW s \in Starts, VerifyMeta(s)
      PROVE  StartInv'
  <2> USE <1>19 DEF VerifyMeta, Keyed, Known, Entered, Drawing, Making, OfCreator
  <2>1. StartTypeOK'
    BY DEF Origins, StartTypeOK, KeyIsTaken, IdentityIsRead
  <2>2. KeyIsTaken'
    BY DEF StartTypeOK, KeyIsTaken
  <2>3. IdentityIsRead'
    BY DEF StartTypeOK, IdentityIsRead, Current, RowIsSigned, KeyIsTaken
  <2>4. RowIsSigned'
    BY DEF StartTypeOK, RowIsSigned, KeyIsTaken, IdentityIsRead
  <2>5. RefusedForReason'
    BY DEF StartTypeOK, RefusedForReason, IdentityIsRead, RowIsSigned, Current, KeyIsTaken
  <2>6. ClaimsAreKept'
    BY DEF StartTypeOK, ClaimsAreKept
  <2> QED BY <2>1, <2>2, <2>3, <2>4, <2>5, <2>6
<1>20. ASSUME NEW s \in Starts, StartDies(s)
      PROVE  StartInv'
  <2> USE <1>20 DEF StartDies, Keyed, Known, Entered, Drawing, Making, OfCreator
  <2>1. StartTypeOK'
    BY DEF Origins, StartTypeOK, KeyIsTaken, IdentityIsRead
  <2>2. KeyIsTaken'
    BY DEF StartTypeOK, KeyIsTaken
  <2>3. IdentityIsRead'
    BY DEF StartTypeOK, IdentityIsRead
  <2>4. RowIsSigned'
    BY DEF StartTypeOK, RowIsSigned, KeyIsTaken, IdentityIsRead
  <2>5. RefusedForReason'
    BY DEF StartTypeOK, RefusedForReason, IdentityIsRead, RowIsSigned, Over
  <2>6. ClaimsAreKept'
    BY DEF StartTypeOK, ClaimsAreKept
  <2> QED BY <2>1, <2>2, <2>3, <2>4, <2>5, <2>6
<1>21. ASSUME NEW s \in Starts, NEW k \in ClaimKeys, ClaimKey(s, k)
      PROVE  StartInv'
  <2> USE <1>21 DEF ClaimKey, Keyed, Known, Entered, Drawing, Making, OfCreator
  <2>1. StartTypeOK'
    BY DEF Origins, StartTypeOK, KeyIsTaken, IdentityIsRead
  <2>2. KeyIsTaken'
    BY DEF StartTypeOK, KeyIsTaken
  <2>3. IdentityIsRead'
    BY DEF StartTypeOK, IdentityIsRead
  <2>4. RowIsSigned'
    BY DEF StartTypeOK, RowIsSigned, KeyIsTaken, IdentityIsRead
  <2>5. RefusedForReason'
    BY DEF StartTypeOK, RefusedForReason, IdentityIsRead, RowIsSigned
  <2>6. ClaimsAreKept'
    <3>1. rows'[k] = "bound" /\ made'[k] = "bound"
      BY DEF StartTypeOK
    <3>2. \A j \in ClaimKeys \ {k} : rows'[j] = rows[j] /\ made'[j] = made[j]
      BY DEF StartTypeOK
    <3>3. \A j \in ClaimKeys : made'[j] \in {None, "unbound", "bound"}
      BY DEF StartTypeOK
    <3> QED BY <3>1, <3>2, <3>3 DEF ClaimsAreKept
  <2> QED BY <2>1, <2>2, <2>3, <2>4, <2>5, <2>6
<1>22. ASSUME UNCHANGED startVars
      PROVE  StartInv'
  BY ZenonT(60), <1>22 DEF startVars, StartTypeOK, KeyIsTaken, IdentityIsRead, RowIsSigned,
     RefusedForReason, ClaimsAreKept
<1> QED
  BY <1>1, <1>2, <1>3, <1>4, <1>5, <1>6, <1>7, <1>8, <1>9, <1>10, <1>11, <1>12, <1>13, <1>14, <1>15, <1>16, <1>17, <1>18, <1>19, <1>20, <1>21, <1>22 DEF StartNext, Work, Settled

\* The directory as it is found at first.
LEMMA StartHolds == StartInit => StartInv
<1> SUFFICES ASSUME StartInit
             PROVE  StartInv
  OBVIOUS
<1> USE StartAssumption DEF Keyed, Known, Entered, Drawing, Making, OfCreator
<1>1. StartTypeOK
  <2>1. /\ keyFile \in Origins \cup {None} /\ idFile \in Origins \cup {None}
        /\ db \in [file : BOOLEAN, meta : BOOLEAN, claims : {None, "v1", "v2"},
                   row : {None} \cup [identity : Origins, mac : Origins]]
    <3>1. CASE keyFile = None /\ idFile = None /\ db = NoDb
      BY <3>1 DEF NoDb
    <3>2. CASE /\ keyFile = "old" /\ idFile = "old"
               /\ db = [file |-> TRUE, meta |-> TRUE, claims |-> "v1",
                        row |-> [identity |-> "old", mac |-> "old"]]
      <4>1. "old" \in Origins
        BY DEF Origins
      <4>2. [identity |-> "old", mac |-> "old"] \in [identity : Origins, mac : Origins]
        BY <4>1
      <4> QED BY ONLY <3>2, <4>1, <4>2
    <3> QED BY <3>1, <3>2 DEF StartInit
  <2>2. /\ mine \in [Starts -> [key : Origins \cup {None}, identity : Origins \cup {None},
                                created : BOOLEAN]]
        /\ at \in [Starts -> Keyed \cup {"scan", "stage_key", "link_key", "take_key",
                                         "timed_out", "dead"}]
    BY DEF StartInit
  <2>3. /\ rows \in [ClaimKeys -> {None, "legacy", "unbound", "bound"}]
        /\ made \in [ClaimKeys -> {None, "unbound", "bound"}]
    BY DEF StartInit
  <2> QED BY <2>1, <2>2, <2>3 DEF StartTypeOK
<1>2. KeyIsTaken /\ IdentityIsRead /\ RowIsSigned
  BY DEF StartInit, KeyIsTaken, IdentityIsRead, RowIsSigned, NoDb, Origins
<1>3. RefusedForReason /\ ClaimsAreKept
  BY DEF StartInit, RefusedForReason, ClaimsAreKept, Origins
<1> QED BY <1>1, <1>2, <1>3 DEF StartInv

\* Processes that open one claim directory at the same time, however many and
\* over whatever ledger, end up with one: whoever has opened it holds the key and
\* the identity that its generation row was signed with, no claim in it is reset,
\* and if none has died or given up waiting, one of them at least has opened it.
THEOREM OneLedger == StartSpec => []LedgerIsOne
<1>1. StartInv => LedgerIsOne
  <2> SUFFICES ASSUME StartInv
               PROVE  LedgerIsOne
    OBVIOUS
  <2> USE StartAssumption DEF StartInv, Keyed, Known, Entered, Drawing, Making, OfCreator
  <2>1. HandlesAgree
    BY DEF HandlesAgree, KeyIsTaken, IdentityIsRead, RowIsSigned, Current
  <2>2. SomeoneOpens
    <3> SUFFICES ASSUME \A s \in Starts : at[s] \in {"open", "refused"}
                 PROVE  \E s \in Starts : at[s] = "open"
      BY DEF SomeoneOpens
    <3>1. CASE idFile \in Starts
      BY <3>1 DEF RefusedForReason, IdentityIsRead
    <3>2. CASE idFile \notin Starts
      <4>1. PICK s \in Starts : TRUE
        OBVIOUS
      <4>2. at[s] = "refused" => idFile = "old"
        BY <3>2 DEF RefusedForReason, StartTypeOK, Origins
      <4> QED BY <4>2 DEF RefusedForReason
    <3> QED BY <3>1, <3>2
  <2> QED BY <2>1, <2>2 DEF LedgerIsOne
<1> QED BY <1>1, StartHolds, StartStep, PTL DEF StartSpec
-----------------------------------------------------------------------------
Whole == migrated \in {0, Records}

\* A call that is executing owns the claim of its key, in progress.
Owned == ~stray => \A r \in Requests : pc[r] = "executing" =>
            /\ claims[KeyOf[r]].state = "in_progress"
            /\ claims[KeyOf[r]].body = BodyOf[r]
            /\ claims[KeyOf[r]].by = r

\* The flag and a claim in progress exclude each other.
Quiet == ~stray /\ pending => \A k \in Keys : claims[k].state # "in_progress"

\* A command that has got past beginRestore() holds the flag, and one that works
\* behind an old marker unless that is stray.  There is no marker when a command
\* is about to write one, nor when the claims are invalidated.
Flagged == /\ cli \in {"mark", "apply", "publish"} => pending
           /\ cli \in {"begin", "mark", "invalidate"} => marker = "none"
           /\ cli \in {"begin", "mark"} => purpose # "none"
           /\ ~stray /\ (cli \in {"copy", "unlink", "invalidate"} \/ marker # "none") => pending

\* A call that may have written owns the row of its key, which is not released.
Recorded == ~stray => \A r \in effect : /\ claims[KeyOf[r]].by = r
                                        /\ claims[KeyOf[r]].state \in {"in_progress", "completed"}

\* What a call may have written is told by the outcomes of its items.
Traced == \A r \in Requests :
             /\ pc[r] # "over" /\ results[r] \subseteq {"releasable"} => r \notin effect
             /\ pc[r] \in {"new", "called"} => results[r] = {}
             /\ ~stray /\ pc[r] = "executing" => results[r] \subseteq {"releasable"} \/ r \in landed

\* Completed claims are about the present data without the flag, and until the
\* marker is written, when the flag may yet be taken back.
Present == ~stray /\ (~pending \/ cli = "mark") =>
             \A k \in Keys : claims[k].state = "completed" => claims[k].by \in landed

\* A migration is half-way only under a gate that no recover verify opens, and
\* at no step that leads to its opening.
Shielded == ~Whole => /\ pending /\ marker # "restore"
                      /\ cli \notin {"mark", "publish", "unlink", "invalidate"}

\* A migration is applied under its own marker.
Marked == cli = "apply" => marker = "migration"

GateInv == /\ DataGateTypeOK /\ Owned /\ Quiet /\ Flagged /\ Recorded
           /\ Traced /\ Present /\ Shielded /\ Marked
-----------------------------------------------------------------------------
USE GateAssumption, LedgerAssumption DEF Outcomes, Phases, Steps, Markers,
                                         gate, requestVars, cliVars, history

\* The absent row is a row.
LEMMA NoClaimType == NoClaim \in Claim
  BY DEF NoClaim, Claim, ClaimStates

\* What a row is made of.
LEMMA ClaimType ==
  /\ \A c \in Claim : /\ c.state \in ClaimStates
                       /\ c.body \in Bodies
                       /\ c.by \in Requests \cup {Nobody}
  /\ \A t \in ClaimStates, b \in Bodies, r \in Requests \cup {Nobody} :
        [state |-> t, body |-> b, by |-> r] \in Claim
  BY DEF Claim

\* A row that changes hands, or changes its state.
LEMMA ClaimUpdate ==
  ASSUME LedgerTypeOK, NEW k \in Keys, NEW c \in Claim
  PROVE  [claims EXCEPT ![k] = c] \in [Keys -> Claim]
  BY DEF LedgerTypeOK

\* complete() and abandon() change the state of one row and nothing else.
LEMMA StateUpdate ==
  ASSUME LedgerTypeOK, NEW k \in Keys, NEW t \in ClaimStates
  PROVE  /\ [claims EXCEPT ![k].state = t] \in [Keys -> Claim]
         /\ [claims EXCEPT ![k].state = t][k] =
              [state |-> t, body |-> claims[k].body, by |-> claims[k].by]
         /\ \A j \in Keys \ {k} : [claims EXCEPT ![k].state = t][j] = claims[j]
  BY DEF LedgerTypeOK, Claim

\* The empty ledger, with nothing running, satisfies the invariant.
LEMMA GateInit == Init => GateInv
<1> SUFFICES ASSUME Init PROVE GateInv
  OBVIOUS
<1>1. claims = [k \in Keys |-> NoClaim] /\ NoClaim.state = "absent"
  BY DEF Init, LedgerInit, NoClaim
<1>2. LedgerTypeOK
  BY <1>1, NoClaimType DEF Init, LedgerInit, LedgerTypeOK
<1>3. DataGateTypeOK
  <2>1. /\ server \in [Servers -> {"down", "opening", "up"}] /\ pc \in [Requests -> Phases]
        /\ done \in [Requests -> 0..Items] /\ results \in [Requests -> SUBSET Outcomes]
    BY DEF Init
  <2>2. /\ cli \in Steps /\ purpose \in {"none", "restore", "migration"}
        /\ migrated \in 0..Records /\ plan \in {"none", "applying", "failed", "applied", "published"}
        /\ effect \subseteq Requests /\ landed \subseteq Requests
    BY DEF Init
  <2>3. stray \in BOOLEAN
    BY DEF Init
  <2> QED
    BY <1>2, <2>1, <2>2, <2>3 DEF DataGateTypeOK
<1>4. Owned /\ Quiet /\ Flagged /\ Recorded /\ Traced /\ Present /\ Shielded /\ Marked
  BY <1>1 DEF Init, LedgerInit, Owned, Quiet, Flagged, Recorded, Traced, Present, Shielded,
     Whole, Marked
<1> QED
  BY <1>3, <1>4 DEF GateInv

\* restore starts, under a gate or without one.
LEMMA StepStartRestore == ASSUME GateInv, StartRestore PROVE GateInv'
  BY DEF StartRestore, Restoring, GateInv, DataGateTypeOK, LedgerTypeOK,
     Owned, Quiet, Flagged, Recorded, Traced, Present, Shielded, Whole, Marked

\* migrate apply starts, without a gate.
LEMMA StepStartMigrate == ASSUME GateInv, StartMigrate PROVE GateInv'
  BY DEF StartMigrate, Restoring, GateInv, DataGateTypeOK, LedgerTypeOK,
     Owned, Quiet, Flagged, Recorded, Traced, Present, Shielded, Whole, Marked

\* recover verify starts under the marker of a restore, where no migration is
\* half-way.
LEMMA StepStartVerify == ASSUME GateInv, StartVerify PROVE GateInv'
  BY DEF StartVerify, At, Restoring, Reason, GateInv, DataGateTypeOK,
     LedgerTypeOK, Owned, Quiet, Flagged, Recorded, Traced, Present, Shielded, Whole, Marked

\* beginRestore() sets the flag only when no claim is in progress.
LEMMA StepBegin == ASSUME GateInv, Begin PROVE GateInv'
<1>1. DataGateTypeOK'
  BY DEF Begin, BeginRestore, At, Active, GateInv, DataGateTypeOK, LedgerTypeOK
<1>2. Owned'
  BY DEF Begin, BeginRestore, At, Active, GateInv, Owned, DataGateTypeOK, LedgerTypeOK, Quiet
<1>3. Quiet'
  BY DEF Begin, BeginRestore, At, Active, GateInv, Quiet, DataGateTypeOK, LedgerTypeOK
<1>4. Flagged'
  BY DEF Begin, BeginRestore, At, Active, GateInv, Flagged, DataGateTypeOK, LedgerTypeOK
<1>5. Recorded'
  BY DEF Begin, BeginRestore, At, Active, GateInv, Recorded, DataGateTypeOK, LedgerTypeOK,
     Owned, Traced
<1>6. Traced'
  BY DEF Begin, BeginRestore, At, Active, GateInv, Traced, DataGateTypeOK, LedgerTypeOK, Owned
<1>7. Present'
  BY DEF Begin, BeginRestore, At, Active, GateInv, Present, DataGateTypeOK, LedgerTypeOK,
     Traced, Owned, Flagged
<1>8. Shielded'
  BY DEF Begin, BeginRestore, At, Active, GateInv, Shielded, Whole, DataGateTypeOK,
     LedgerTypeOK, Flagged, Marked
<1>9. Marked'
  BY DEF Begin, BeginRestore, At, Active, GateInv, Marked, DataGateTypeOK, LedgerTypeOK, Flagged
<1> QED
  BY <1>1, <1>2, <1>3, <1>4, <1>5, <1>6, <1>7, <1>8, <1>9 DEF GateInv

\* The marker is written under the flag, or the flag is taken back while the
\* data is as it was.
LEMMA StepMark == ASSUME GateInv, Mark PROVE GateInv'
<1>1. DataGateTypeOK'
  BY DEF Mark, WriteMarker, RevertRestore, TornMarker, At, GateInv, DataGateTypeOK, LedgerTypeOK
<1>2. Owned'
  BY DEF Mark, WriteMarker, RevertRestore, TornMarker, At, GateInv, Owned, DataGateTypeOK, LedgerTypeOK, Quiet
<1>3. Quiet'
  BY DEF Mark, WriteMarker, RevertRestore, TornMarker, At, GateInv, Quiet, DataGateTypeOK, LedgerTypeOK
<1>4. Flagged'
  BY DEF Mark, WriteMarker, RevertRestore, TornMarker, At, GateInv, Flagged, DataGateTypeOK, LedgerTypeOK
<1>5. Recorded'
  BY DEF Mark, WriteMarker, RevertRestore, TornMarker, At, GateInv, Recorded, DataGateTypeOK, LedgerTypeOK,
     Owned, Traced
<1>6. Traced'
  BY DEF Mark, WriteMarker, RevertRestore, TornMarker, At, GateInv, Traced, DataGateTypeOK, LedgerTypeOK, Owned
<1>7. Present'
  BY DEF Mark, WriteMarker, RevertRestore, TornMarker, At, GateInv, Present, DataGateTypeOK, LedgerTypeOK,
     Traced, Owned, Flagged
<1>8. Shielded'
  BY DEF Mark, WriteMarker, RevertRestore, TornMarker, At, GateInv, Shielded, Whole, DataGateTypeOK,
     LedgerTypeOK, Flagged, Marked
<1>9. Marked'
  BY DEF Mark, WriteMarker, RevertRestore, TornMarker, At, GateInv, Marked, DataGateTypeOK, LedgerTypeOK,
     Flagged
<1> QED
  BY <1>1, <1>2, <1>3, <1>4, <1>5, <1>6, <1>7, <1>8, <1>9 DEF GateInv

\* The data is replaced: under the flag no call is executing.
LEMMA StepCopy == ASSUME GateInv, Copy PROVE GateInv'
<1>1. DataGateTypeOK'
  BY DEF Copy, At, GateInv, DataGateTypeOK, LedgerTypeOK
<1>2. Owned'
  BY DEF Copy, At, GateInv, Owned, DataGateTypeOK, LedgerTypeOK, Quiet
<1>3. Quiet'
  BY DEF Copy, At, GateInv, Quiet, DataGateTypeOK, LedgerTypeOK
<1>4. Flagged'
  BY DEF Copy, At, GateInv, Flagged, DataGateTypeOK, LedgerTypeOK
<1>5. Recorded'
  BY DEF Copy, At, GateInv, Recorded, DataGateTypeOK, LedgerTypeOK, Owned, Traced
<1>6. Traced'
  <2>1. ~stray => \A r \in Requests : pc[r] # "executing"
    BY DEF Copy, GateInv, Owned, Quiet, Flagged
  <2> QED
    BY <2>1 DEF Copy, At, GateInv, Traced
<1>7. Present'
  BY DEF Copy, At, GateInv, Present, DataGateTypeOK, LedgerTypeOK, Traced, Owned, Flagged
<1>8. Shielded'
  BY DEF Copy, At, GateInv, Shielded, Whole, DataGateTypeOK, LedgerTypeOK, Flagged, Marked
<1>9. Marked'
  BY DEF Copy, At, GateInv, Marked, DataGateTypeOK, LedgerTypeOK, Flagged
<1> QED
  BY <1>1, <1>2, <1>3, <1>4, <1>5, <1>6, <1>7, <1>8, <1>9 DEF GateInv

\* A failed restore leaves the gate.
LEMMA StepCopyFails == ASSUME GateInv, CopyFails PROVE GateInv'
  BY DEF CopyFails, At, GateInv, DataGateTypeOK, LedgerTypeOK, Owned,
     Quiet, Flagged, Recorded, Traced, Present, Shielded, Whole, Marked

\* A record is migrated under the marker of the migration.
LEMMA StepApply == ASSUME GateInv, Apply PROVE GateInv'
  BY DEF Apply, At, GateInv, DataGateTypeOK, LedgerTypeOK, Owned, Quiet,
     Flagged, Recorded, Traced, Present, Shielded, Whole, Marked

\* A plan that was applied is published, or its gate is left.
LEMMA StepReapply == ASSUME GateInv, Reapply PROVE GateInv'
  BY SMTT(30) DEF Reapply, At, GateInv, DataGateTypeOK, LedgerTypeOK, Owned, Quiet, Flagged,
     Recorded, Traced, Present, Shielded, Whole, Marked

\* The plan is published when all of it is there.
LEMMA StepPublish == ASSUME GateInv, Publish PROVE GateInv'
  BY DEF Publish, At, GateInv, DataGateTypeOK, LedgerTypeOK, Owned, Quiet,
     Flagged, Recorded, Traced, Present, Shielded, Whole, Marked

\* The marker goes, the flag stays.
LEMMA StepUnlink == ASSUME GateInv, Unlink PROVE GateInv'
  BY DEF Unlink, RemoveMarker, At, GateInv, DataGateTypeOK, LedgerTypeOK,
     Owned, Quiet, Flagged, Recorded, Traced, Present, Shielded, Whole, Marked

\* invalidate() forgets the claims and the flag in one transaction: nobody was
\* executing.
LEMMA StepClear == ASSUME GateInv, Clear PROVE GateInv'
<1>1. /\ claims' = [k \in Keys |-> NoClaim] /\ NoClaim.state = "absent"
      /\ (~stray => pending) /\ pending' = FALSE /\ marker = "none" /\ effect' = {} /\ cli' = "idle"
      /\ purpose' = "none" /\ UNCHANGED <<marker, requestVars, migrated, plan, landed>>
      /\ stray' = (stray /\ \E r \in Requests : pc[r] = "executing")
  BY DEF Clear, Invalidate, At, NoClaim, GateInv, Flagged
<1>2. DataGateTypeOK'
  <2>1. LedgerTypeOK'
    <3>1. marker' \in Markers /\ pending' \in BOOLEAN
      BY <1>1
    <3> QED
      BY <1>1, <3>1, NoClaimType DEF LedgerTypeOK
  <2> QED
    BY <1>1, <2>1 DEF GateInv, DataGateTypeOK
<1>7. ~stray' => \A r \in Requests : pc[r] # "executing"
  BY <1>1 DEF GateInv, Owned, Quiet, DataGateTypeOK
<1>3. Owned'
  BY <1>1, <1>7 DEF Owned
<1>4. Quiet' /\ Flagged' /\ Recorded' /\ Present' /\ Marked'
  BY <1>1 DEF Quiet, Flagged, Recorded, Present, Marked
<1>5. Traced'
  BY <1>1, <1>7 DEF GateInv, Traced
<1>6. Shielded'
  BY DEF Clear, Invalidate, At, GateInv, Shielded, Whole
<1> QED
  BY <1>2, <1>3, <1>4, <1>5, <1>6 DEF GateInv

\* A command dies: the flag stays, whatever became of the marker.
LEMMA StepDie == ASSUME GateInv, Die PROVE GateInv'
  BY DEF Die, At, TornMarker, GateInv, DataGateTypeOK, LedgerTypeOK, Owned,
     Quiet, Flagged, Recorded, Traced, Present, Shielded, Whole, Marked

\* A server opens the database.
LEMMA StepOpenServer ==
  ASSUME GateInv, NEW p \in Servers, OpenServer(p)
  PROVE  GateInv'
  BY DEF OpenServer, GateInv, DataGateTypeOK, LedgerTypeOK, Owned, Quiet, Flagged, Recorded,
     Traced, Present, Shielded, Whole, Marked

\* A server serves, or refuses to.
LEMMA StepServeOrRefuse ==
  ASSUME GateInv, NEW p \in Servers, ServeOrRefuse(p)
  PROVE  GateInv'
  BY DEF ServeOrRefuse, Restoring, GateInv, DataGateTypeOK, LedgerTypeOK, Owned, Quiet, Flagged,
     Recorded, Traced, Present, Shielded, Whole, Marked

\* A server stops: its calls are no longer executing, their claims stay.
LEMMA StepHalt == ASSUME GateInv, NEW p \in Servers, Halt(p) PROVE GateInv'
  BY DEF Halt, GateInv, DataGateTypeOK, LedgerTypeOK, Owned, Quiet, Flagged, Recorded, Traced,
     Present, Shielded, Whole, Marked

\* The first look at the gate changes no claim.
LEMMA StepCall == ASSUME GateInv, NEW r \in Requests, Call(r) PROVE GateInv'
  BY DEF Call, Goto, Restoring, GateInv, DataGateTypeOK, LedgerTypeOK, Owned, Quiet, Flagged,
     Recorded, Traced, Present, Shielded, Whole, Marked

\* A fresh claim takes a row that no call has written under.
LEMMA StepClaimStep == ASSUME GateInv, NEW r \in Requests, ClaimStep(r) PROVE GateInv'
<1> DEFINE k == KeyOf[r]
           c == [state |-> "in_progress", body |-> BodyOf[r], by |-> r]
<1>1. CASE ClaimFresh(k, BodyOf[r], r) /\ Goto(r, "executing")
  <2>1. /\ claims' = [claims EXCEPT ![k] = c] /\ pc' = [pc EXCEPT ![r] = "executing"]
        /\ UNCHANGED <<gate, server, done, results, cliVars, history>>
        /\ ~pending /\ claims[k].state \in {"absent", "released"} /\ k \in Keys /\ pc[r] = "called"
    BY <1>1 DEF ClaimStep, ClaimFresh, Goto, Open
  <2>2. DataGateTypeOK'
    <3>1. c \in Claim
      BY ClaimType DEF ClaimStates
    <3>2. LedgerTypeOK'
      BY <2>1, <3>1, ClaimUpdate DEF GateInv, DataGateTypeOK, LedgerTypeOK
    <3> QED
      BY <2>1, <3>2 DEF GateInv, DataGateTypeOK
  <2>3. \A j \in Keys : claims'[j] = IF j = k THEN c ELSE claims[j]
    BY <2>1 DEF GateInv, DataGateTypeOK, LedgerTypeOK
  <2>4. Owned'
    BY <2>1, <2>3 DEF GateInv, Owned, DataGateTypeOK
  <2>5. Quiet' /\ Flagged' /\ Shielded' /\ Marked'
    BY <2>1 DEF GateInv, Quiet, Flagged, Shielded, Whole, Marked
  <2>6. Recorded'
    BY <2>1, <2>3 DEF GateInv, Recorded, DataGateTypeOK
  <2>7. Traced'
    BY <2>1 DEF GateInv, Traced, DataGateTypeOK
  <2>8. Present'
    BY <2>1, <2>3 DEF GateInv, Present
  <2> QED
    BY <2>2, <2>4, <2>5, <2>6, <2>7, <2>8 DEF GateInv
<1>2. CASE UNCHANGED <<claims, gate>> /\ Goto(r, "over")
  <2> UNCHANGED <<claims, gate, server, done, results, cliVars, history>>
    BY <1>2 DEF ClaimStep
  <2>1. DataGateTypeOK' /\ Owned' /\ Traced'
    BY <1>2 DEF Goto, GateInv, DataGateTypeOK, LedgerTypeOK, Owned, Traced
  <2> QED
    BY <1>2, <2>1 DEF GateInv, Quiet, Flagged, Recorded, Present, Shielded, Whole, Marked
<1> QED
  BY <1>1, <1>2 DEF ClaimStep

\* An item that may have written makes its call one that has: it owns its row.
LEMMA StepItem == ASSUME GateInv, NEW r \in Requests, Item(r) PROVE GateInv'
<1>1. PICK o \in Outcomes :
         /\ results' = [results EXCEPT ![r] = @ \cup {o}]
         /\ effect' = IF o = "releasable" THEN effect ELSE effect \cup {r}
         /\ landed' = IF o = "releasable" THEN landed ELSE landed \cup {r}
  BY DEF Item
<1>2. /\ pc[r] = "executing" /\ done[r] < Items /\ done' = [done EXCEPT ![r] = @ + 1]
      /\ UNCHANGED <<claims, gate, server, pc, cliVars, stray>>
  BY DEF Item
<1>3. DataGateTypeOK'
  BY <1>1, <1>2 DEF GateInv, DataGateTypeOK, LedgerTypeOK
<1>4. Owned' /\ Quiet' /\ Flagged' /\ Shielded' /\ Marked'
  BY <1>2 DEF GateInv, Owned, Quiet, Flagged, Shielded, Whole, Marked
<1>5. Recorded'
  <2>1. ~stray => claims[KeyOf[r]].by = r /\ claims[KeyOf[r]].state = "in_progress"
    BY <1>2 DEF GateInv, Owned
  <2> QED
    BY <1>1, <1>2, <2>1 DEF GateInv, Recorded
<1>6. Traced'
  <2>1. \A s \in Requests : results'[s] = IF s = r THEN results[r] \cup {o} ELSE results[s]
    BY <1>1 DEF GateInv, DataGateTypeOK
  <2>2. o = "releasable" \/ r \in landed'
    BY <1>1
  <2>3. effect' \subseteq effect \cup {r} /\ landed \subseteq landed'
    BY <1>1
  <2>4. ASSUME NEW s \in Requests, pc[s] # "over", results'[s] \subseteq {"releasable"}
        PROVE  s \notin effect'
    <3>1. s # r \/ o = "releasable"
      BY <2>1, <2>4
    <3> QED
      BY <1>1, <2>1, <2>4, <3>1 DEF GateInv, Traced
  <2>5. ASSUME NEW s \in Requests, ~stray, pc[s] = "executing"
        PROVE  results'[s] \subseteq {"releasable"} \/ s \in landed'
    BY <2>1, <2>2, <2>3, <2>5 DEF GateInv, Traced
  <2> QED
    BY <1>2, <2>1, <2>4, <2>5 DEF GateInv, Traced
<1>7. Present'
  BY <1>1, <1>2 DEF GateInv, Present
<1> QED
  BY <1>3, <1>4, <1>5, <1>6, <1>7 DEF GateInv

\* A claim is completed by a call whose writes are in the data, and released by
\* one that has written nothing.
LEMMA StepFinish == ASSUME GateInv, NEW r \in Requests, Finish(r) PROVE GateInv'
<1> DEFINE k == KeyOf[r]
<1>1. /\ pc[r] = "executing" /\ k \in Keys
      /\ UNCHANGED <<gate, server, cliVars, history>>
      /\ pc' = [pc EXCEPT ![r] = "over"] /\ done' = [done EXCEPT ![r] = 0]
      /\ results' = [results EXCEPT ![r] = {}]
  BY DEF Finish, Goto, CompleteClaim, Abandon
<1>9. ~stray => /\ claims[k].state = "in_progress" /\ claims[k].body = BodyOf[r] /\ claims[k].by = r
                /\ results[r] \subseteq {"releasable"} \/ r \in landed
  BY <1>1 DEF GateInv, Owned, Traced
<1>2. /\ Traced' /\ Flagged' /\ Shielded' /\ Marked'
      /\ pc' \in [Requests -> Phases] /\ done' \in [Requests -> 0..Items] /\ results' \in [Requests -> SUBSET Outcomes]
  BY <1>1 DEF GateInv, Traced, Flagged, Shielded, Whole, Marked, DataGateTypeOK
<1>3. CASE UNCHANGED claims
  <2>1. DataGateTypeOK' /\ Owned'
    BY <1>1, <1>2, <1>3 DEF GateInv, DataGateTypeOK, LedgerTypeOK, Owned
  <2> QED
    BY <1>1, <1>2, <1>3, <2>1 DEF GateInv, Quiet, Recorded, Present
<1>4. ASSUME NEW t \in {"completed", "released"}, claims' = [claims EXCEPT ![k].state = t],
             ~pending, ~stray /\ t = "completed" => r \in landed, t = "released" => r \notin effect
      PROVE  GateInv'
  <2>1. /\ claims' \in [Keys -> Claim]
        /\ claims'[k] = [state |-> t, body |-> claims[k].body, by |-> claims[k].by]
        /\ \A j \in Keys \ {k} : claims'[j] = claims[j]
    <3>1. LedgerTypeOK /\ t \in ClaimStates
      BY DEF ClaimStates, GateInv, DataGateTypeOK
    <3> QED
      BY <1>1, <1>4, <3>1, StateUpdate
  <2>2. DataGateTypeOK'
    BY <1>1, <1>2, <2>1 DEF GateInv, DataGateTypeOK, LedgerTypeOK
  <2>3. Owned'
    <3>1. ASSUME NEW s \in Requests, pc'[s] = "executing" PROVE s # r /\ pc[s] = "executing"
      BY <1>1, <3>1 DEF GateInv, DataGateTypeOK
    <3>2. ASSUME NEW s \in Requests, pc'[s] = "executing", ~stray PROVE KeyOf[s] # k
      BY <1>9, <3>1, <3>2 DEF GateInv, Owned
    <3> QED
      BY <1>1, <2>1, <3>1, <3>2 DEF GateInv, Owned
  <2>4. Quiet'
    BY <1>1, <1>4 DEF Quiet
  <2>5. Recorded'
    <3> SUFFICES ASSUME ~stray, NEW s \in effect
                 PROVE  /\ claims'[KeyOf[s]].by = s
                        /\ claims'[KeyOf[s]].state \in {"in_progress", "completed"}
      BY <1>1 DEF Recorded
    <3>1. /\ s \in Requests /\ claims[KeyOf[s]].by = s
          /\ claims[KeyOf[s]].state \in {"in_progress", "completed"}
      BY DEF GateInv, Recorded, DataGateTypeOK
    <3>2. CASE KeyOf[s] = k
      BY <1>4, <1>9, <2>1, <3>1, <3>2
    <3>3. CASE KeyOf[s] # k
      BY <2>1, <3>1, <3>3
    <3> QED
      BY <3>2, <3>3
  <2>6. Present'
    BY <1>1, <1>4, <1>9, <2>1 DEF GateInv, Present
  <2> QED
    BY <1>2, <2>2, <2>3, <2>4, <2>5, <2>6 DEF GateInv
<1>5. CASE results[r] = {"ok"} /\ CompleteClaim(k, BodyOf[r])
  BY <1>4, <1>5, <1>9 DEF CompleteClaim, Restoring
<1>6. CASE Releasable(r) /\ Abandon(k, BodyOf[r])
  BY <1>1, <1>4, <1>6 DEF Abandon, Releasable, Restoring, GateInv, Traced
<1> QED
  BY <1>3, <1>5, <1>6 DEF Finish
-----------------------------------------------------------------------------
\* Every step preserves the invariant.
LEMMA GateNext == GateInv /\ [Next]_vars => GateInv'
<1> SUFFICES ASSUME GateInv, [Next]_vars PROVE GateInv'
  OBVIOUS
<1>1. CASE UNCHANGED vars
  BY <1>1 DEF vars, GateInv, DataGateTypeOK, LedgerTypeOK, Owned, Quiet, Flagged, Recorded,
              Traced, Present, Shielded, Whole, Marked
<1>2. ASSUME NEW p \in Servers, OpenServer(p) \/ ServeOrRefuse(p) \/ Halt(p) PROVE GateInv'
  BY <1>2, StepOpenServer, StepServeOrRefuse, StepHalt
<1>3. ASSUME NEW r \in Requests, Call(r) \/ ClaimStep(r) \/ Item(r) \/ Finish(r) PROVE GateInv'
  BY <1>3, StepCall, StepClaimStep, StepItem, StepFinish
<1>4. ASSUME StartRestore \/ StartMigrate \/ StartVerify \/ Begin \/ Mark \/ Copy \/ CopyFails
             \/ Apply \/ Reapply \/ Publish \/ Unlink \/ Clear \/ Die
      PROVE  GateInv'
  BY <1>4, StepStartRestore, StepStartMigrate, StepStartVerify, StepBegin, StepMark, StepCopy,
     StepCopyFails, StepApply, StepReapply, StepPublish, StepUnlink, StepClear, StepDie
<1> QED
  BY <1>1, <1>2, <1>3, <1>4 DEF Next

\* The invariant implies what it is for.
LEMMA GateInvImplies ==
  GateInv => AtMostOnce /\ ReplayIsTrue /\ RestoreExcludesBatches /\ NoHalfMigration
<1> SUFFICES ASSUME GateInv
             PROVE  AtMostOnce /\ ReplayIsTrue /\ RestoreExcludesBatches /\ NoHalfMigration
  OBVIOUS
<1>1. AtMostOnce
  BY DEF GateInv, Recorded, AtMostOnce
<1>2. ReplayIsTrue
  BY DEF GateInv, Present, ReplayIsTrue, Restoring
<1>3. RestoreExcludesBatches
  BY DEF GateInv, Owned, Quiet, Flagged, RestoreExcludesBatches
<1>4. NoHalfMigration
  BY DEF GateInv, Shielded, Whole, NoHalfMigration, Restoring
<1> QED
  BY <1>1, <1>2, <1>3, <1>4

\* The inductive invariant of keyed batches and data commands (claim(),
\* complete(), abandon() and the gate of batch-idempotency-store.ts) holds of
\* every behaviour.
THEOREM GateSafe == Spec => []GateInv
<1>1. Init => GateInv
  BY GateInit
<1>2. GateInv /\ [Next]_vars => GateInv'
  BY GateNext
<1> QED
  BY <1>1, <1>2, PTL DEF Spec

\* batch() applies the items of at most one call under a key.
THEOREM AppliedAtMostOnce == Spec => []AtMostOnce
  BY GateSafe, GateInvImplies, PTL

\* claim() replays a response only while the data holds what it reports.
THEOREM ReplayCorrect == Spec => []ReplayIsTrue
  BY GateSafe, GateInvImplies, PTL

\* beginRestore() keeps keyed batches and data commands apart.
THEOREM RestoreExclusive == Spec => []RestoreExcludesBatches
  BY GateSafe, GateInvImplies, PTL

\* completeRestore() never opens the gate on a half-applied migration.
THEOREM MigrationWhole == Spec => []NoHalfMigration
  BY GateSafe, GateInvImplies, PTL
-----------------------------------------------------------------------------
(* The checkpoints of `migrate apply` (MigrationRun).                       *)

\* Looked at, a record is there and as planned, unless others have changed it since.
There(i) == dest[i] # "missing" \/ i \in late
Right(i) == Matches(i) \/ i \in late

Checkpoints == [status : {"applying", "applied", "published", "failed"},
                imported : Nat, skipped : Nat, processed : Nat]
CommandSteps == {"begin", "import", "progress", "recheck", "check", "verify", "publish"}
CommandRecords == [pc : CommandSteps, at : Nat, end : Nat, imported : Nat, skipped : Nat,
             latest : Checkpoints]

\* What may be saved: it claims no more than what is there.
TrueFile(s) ==
    /\ s \in Checkpoints /\ Valid(s)
    /\ \A i \in 1 .. s.processed : There(i)
    /\ s.status \in {"applied", "published"} => \A i \in Planned : Right(i)

\* What a command has behind it, in each of its steps.
TrueCommand(r) ==
    /\ r \in CommandRecords
    /\ r.at <= Total /\ r.end <= Total /\ TrueFile(r.latest)
    /\ r.pc \in {"begin", "import", "progress"} => \A i \in 1 .. r.at : There(i)
    /\ r.pc \in {"recheck", "check", "verify"} => r.at <= r.end /\ \A i \in 1 .. r.at : Right(i)
    /\ r.pc = "verify" => r.end = Total

DestTypeOK == dest \in [Planned -> {"missing", "other", "planned"}] /\ DOMAIN run = Commands

MigrationInv ==
    /\ DestTypeOK
    /\ file # Nothing => TrueFile(file)
    /\ \A c \in Commands : run[c] # Nothing => TrueCommand(run[c])
    /\ \A c \in Commands : run[c] # Nothing /\ run[c].pc \in {"recheck", "check", "publish"} => TrueFile(file)

-----------------------------------------------------------------------------
\* What nobody takes back.
NothingIsTakenBack == /\ \A i \in Planned : There(i) => There(i)'
         /\ \A i \in Planned : Right(i) => Right(i)'

LEMMA StableFile ==
    ASSUME NEW s, TrueFile(s), NothingIsTakenBack PROVE TrueFile(s)'
BY MigrationAssumption DEF TrueFile, NothingIsTakenBack, Valid, Checkpoints, Planned

LEMMA StableCommand ==
    ASSUME NEW r, TrueCommand(r), NothingIsTakenBack PROVE TrueCommand(r)'
<1>1. TrueFile(r.latest)' BY StableFile DEF TrueCommand
<1>2. r.at \in Nat BY DEF TrueCommand, CommandRecords
<1> QED BY <1>1, <1>2, MigrationAssumption DEF TrueCommand, NothingIsTakenBack, Planned

\* A step of one command keeps the invariant when what it knows then is true, and
\* what it saves, if anything.
LEMMA CommandStep ==
    ASSUME MigrationInv, NEW c \in Commands, NEW r,
           run' = [run EXCEPT ![c] = r], NothingIsTakenBack, DestTypeOK',
           file' = file \/ TrueFile(file)',
           r # Nothing => /\ TrueCommand(r)'
                          /\ r.pc \in {"recheck", "check", "publish"} => TrueFile(file)'
    PROVE  MigrationInv'
<1>1. TrueFile(file) => TrueFile(file)'
  <2>1. CASE file' = file
    <3> PICK f : f = file OBVIOUS
    <3>1. TrueFile(file) => TrueFile(f)' BY StableFile
    <3>2. f = file' BY <2>1
    <3> QED BY <3>1, <3>2 DEF TrueFile
  <2> QED BY <2>1
<1>2. file' # Nothing => TrueFile(file)' BY <1>1 DEF MigrationInv
<1>3. ASSUME NEW d \in Commands, run'[d] # Nothing
      PROVE  /\ TrueCommand(run[d])'
             /\ run'[d].pc \in {"recheck", "check", "publish"} => TrueFile(file)'
  <2>1. CASE d = c
    <3>1. run'[d] = r BY <2>1 DEF MigrationInv, DestTypeOK
    <3> QED BY <1>3, <3>1 DEF TrueCommand
  <2>2. CASE d # c
    <3> PICK q : q = run[d] OBVIOUS
    <3>1. run'[d] = q BY <2>2 DEF MigrationInv, DestTypeOK
    <3>2. TrueCommand(q) /\ (q.pc \in {"recheck", "check", "publish"} => TrueFile(file))
      BY <1>3, <3>1 DEF MigrationInv
    <3>3. TrueCommand(q)' BY <3>2, StableCommand
    <3> QED BY <1>1, <3>1, <3>2, <3>3 DEF TrueCommand
  <2> QED BY <2>1, <2>2
<1> QED BY <1>2, <1>3 DEF MigrationInv

\* The same for one that leaves the destination alone.
LEMMA QuietStep ==
    ASSUME MigrationInv, NEW c \in Commands, NEW r, UNCHANGED <<dest, late>>,
           run' = [run EXCEPT ![c] = r],
           file' = file \/ TrueFile(file)',
           r # Nothing => /\ TrueCommand(r)
                          /\ r.pc \in {"recheck", "check", "publish"} => TrueFile(file)'
    PROVE  MigrationInv'
<1>1. NothingIsTakenBack BY DEF NothingIsTakenBack, There, Right, Matches
<1>2. DestTypeOK' BY DEF MigrationInv, DestTypeOK
<1>3. r # Nothing => TrueCommand(r)' BY <1>1, StableCommand
<1> QED BY <1>1, <1>2, <1>3, CommandStep

LEMMA StartCommandStep ==
    ASSUME MigrationInv, NEW c \in Commands, StartCommand(c) PROVE MigrationInv'
<1> PICK r : r = IF file = Nothing
          THEN [pc |-> "begin", at |-> 0, end |-> 0, imported |-> 0, skipped |-> 0,
                latest |-> State("applying", 0, 0, 0)]
          ELSE [pc |-> IF file.status \in {"applied", "published"} THEN "recheck" ELSE "check",
                at |-> 0, end |-> IF file.status \in {"applied", "published"} THEN Total ELSE file.processed,
                imported |-> file.imported, skipped |-> file.skipped, latest |-> file]
  OBVIOUS
<1>1. run' = [run EXCEPT ![c] = r] /\ UNCHANGED <<dest, file, late>> BY DEF StartCommand
<1>2. TrueCommand(r) /\ (r.pc \in {"recheck", "check", "publish"} => TrueFile(file))
  <2>1. CASE file = Nothing
    BY <2>1, MigrationAssumption DEF TrueCommand, CommandRecords, CommandSteps, Checkpoints, State, TrueFile, Valid
  <2>2. CASE file # Nothing
    <3>1. TrueFile(file) BY <2>2 DEF MigrationInv
    <3> QED BY <2>2, <3>1, MigrationAssumption DEF TrueCommand, CommandRecords, CommandSteps, Checkpoints, TrueFile, Valid
  <2> QED BY <2>1, <2>2
<1>3. TrueFile(file) => TrueFile(file)' BY <1>1 DEF TrueFile, There, Right, Matches
<1> QED BY <1>1, <1>2, <1>3, QuietStep

\* What a command has seen is as planned.
LEMMA LookStep ==
    ASSUME MigrationInv, NEW c \in Commands, Look(c) PROVE MigrationInv'
<1> DEFINE i == run[c].at + 1
<1>1. /\ run[c] # Nothing /\ run[c].pc \in {"recheck", "check", "verify"}
      /\ run[c].at < run[c].end /\ dest[i] = "planned"
      /\ run' = [run EXCEPT ![c].at = i] /\ late' = late \ {i} /\ UNCHANGED <<dest, file>>
  BY DEF Look, Matches
<1> PICK q : q = run[c] OBVIOUS
<1> PICK r : r = [q EXCEPT !.at = q.at + 1] OBVIOUS
<1>2. TrueCommand(q) /\ (q.pc \in {"recheck", "check"} => TrueFile(file)) BY <1>1 DEF MigrationInv
<1>3. /\ q.pc \in {"recheck", "check", "verify"} /\ q.at \in Nat /\ q.end \in Nat /\ q.at < q.end
      /\ dest[q.at + 1] = "planned" /\ late' = late \ {q.at + 1} /\ q.end <= Total
      /\ TrueFile(q.latest) /\ q \in CommandRecords
  BY <1>1, <1>2 DEF TrueCommand, CommandRecords
<1>4. run' = [run EXCEPT ![c] = r] BY <1>1 DEF MigrationInv, DestTypeOK
<1>5. NothingIsTakenBack BY <1>1, <1>3 DEF NothingIsTakenBack, There, Right, Matches
<1>6. TrueFile(q.latest)' BY <1>3, <1>5, StableFile
<1>7. /\ r.pc = q.pc /\ r.at = q.at + 1 /\ r.end = q.end /\ r.latest = q.latest
      /\ r \in CommandRecords
  BY <1>3 DEF CommandRecords
<1>8. \A j \in 1 .. r.at : Right(j)'
  <2> TAKE j \in 1 .. r.at
  <2>1. CASE j = q.at + 1 BY <1>1, <1>3, <2>1 DEF Right, Matches
  <2>2. CASE j # q.at + 1
    <3>1. j \in 1 .. q.at /\ j \in Planned BY <1>3, <1>7, <2>2, MigrationAssumption DEF Planned
    <3>2. Right(j) BY <1>2, <1>3, <3>1 DEF TrueCommand
    <3> QED BY <1>5, <3>1, <3>2 DEF NothingIsTakenBack
  <2> QED BY <2>1, <2>2
<1>9. TrueCommand(r)' BY <1>2, <1>3, <1>6, <1>7, <1>8, MigrationAssumption DEF TrueCommand
<1>10. r.pc \in {"recheck", "check", "publish"} => TrueFile(file)'
  <2> PICK f : f = file OBVIOUS
  <2>1. TrueFile(f) => TrueFile(f)' BY <1>5, StableFile
  <2> QED BY <1>1, <1>2, <1>3, <1>7, <2>1 DEF TrueFile
<1>11. DestTypeOK' BY <1>1 DEF MigrationInv, DestTypeOK
<1> QED BY <1>1, <1>4, <1>5, <1>9, <1>10, <1>11, CommandStep

\* A command that goes on from the checks.
LEMMA CheckedStep ==
    ASSUME MigrationInv, NEW c \in Commands, Recheck(c) \/ Resume(c) PROVE MigrationInv'
<1> PICK q : q = run[c] OBVIOUS
<1>1. /\ q # Nothing /\ q.pc \in {"recheck", "check"} /\ UNCHANGED <<dest, file, late>>
      /\ \/ run' = [run EXCEPT ![c] = Nothing]
         \/ q.pc = "recheck" /\ run' = [run EXCEPT ![c].pc = "publish"]
         \/ q.pc = "check" /\ run' = [run EXCEPT ![c].pc = "begin"]
         \/ q.pc = "check" /\ run' = [run EXCEPT ![c].pc = "begin", ![c].imported = 0, ![c].skipped = 0]
  BY DEF Recheck, Resume, Differs, Ended, Running, CommandOver, StepTo
<1>2. TrueCommand(q) /\ TrueFile(file) BY <1>1 DEF MigrationInv
<1>3. TrueFile(file)' BY <1>1, <1>2 DEF TrueFile, There, Right, Matches
<1>4. CASE run' = [run EXCEPT ![c] = Nothing] BY <1>1, <1>4, QuietStep
<1>5. \A j : Right(j) => There(j) BY DEF Right, There, Matches
<1>6. CASE q.pc = "recheck" /\ run' = [run EXCEPT ![c].pc = "publish"]
  <2> PICK r : r = [q EXCEPT !.pc = "publish"] OBVIOUS
  <2>1. run' = [run EXCEPT ![c] = r] BY <1>6 DEF MigrationInv, DestTypeOK
  <2>2. TrueCommand(r) BY <1>2 DEF TrueCommand, CommandRecords, CommandSteps
  <2> QED BY <1>1, <1>3, <2>1, <2>2, QuietStep
<1>7. CASE q.pc = "check" /\ run' = [run EXCEPT ![c].pc = "begin"]
  <2> PICK r : r = [q EXCEPT !.pc = "begin"] OBVIOUS
  <2>1. run' = [run EXCEPT ![c] = r] BY <1>7 DEF MigrationInv, DestTypeOK
  <2>2. TrueCommand(r) BY <1>2, <1>5, <1>7 DEF TrueCommand, CommandRecords, CommandSteps
  <2> QED BY <1>1, <1>3, <2>1, <2>2, QuietStep
<1>8. CASE q.pc = "check" /\ run' = [run EXCEPT ![c].pc = "begin", ![c].imported = 0, ![c].skipped = 0]
  <2> PICK r : r = [q EXCEPT !.pc = "begin", !.imported = 0, !.skipped = 0] OBVIOUS
  <2>1. run' = [run EXCEPT ![c] = r] BY <1>8 DEF MigrationInv, DestTypeOK
  <2>2. TrueCommand(r) BY <1>2, <1>5, <1>8 DEF TrueCommand, CommandRecords, CommandSteps
  <2> QED BY <1>1, <1>3, <2>1, <2>2, QuietStep
<1> QED BY <1>1, <1>4, <1>6, <1>7, <1>8

\* A checkpoint counts what the command has behind it.
LEMMA SavedCount ==
    ASSUME NEW q, TrueCommand(q), q.pc \in {"begin", "import", "progress"}, NEW s,
           s = State("applying", q.imported, q.skipped, q.at), Valid(s)
    PROVE  TrueFile(s)
BY DEF TrueFile, TrueCommand, CommandRecords, Checkpoints, State, Valid

LEMMA SaveStep ==
    ASSUME MigrationInv, NEW c \in Commands, FirstSave(c) \/ Progress(c) PROVE MigrationInv'
<1> PICK q : q = run[c] OBVIOUS
<1> PICK s : s = State("applying", q.imported, q.skipped, q.at) OBVIOUS
<1>1. /\ q # Nothing /\ q.pc \in {"begin", "progress"} /\ UNCHANGED <<dest, late>>
      /\ \/ Valid(s) /\ file' = s /\ run' = [run EXCEPT ![c].pc = "import", ![c].latest = s]
         \/ file' = file /\ run' = [run EXCEPT ![c] = Nothing]
         \/ q.pc = "progress" /\ file' = file /\ run' = [run EXCEPT ![c].pc = "import"]
  BY DEF FirstSave, Progress, Running, CommandOver, StepTo, Saved
<1>2. TrueCommand(q) BY <1>1 DEF MigrationInv
<1>3. CASE file' = file /\ run' = [run EXCEPT ![c] = Nothing] BY <1>1, <1>3, QuietStep
<1>4. CASE q.pc = "progress" /\ file' = file /\ run' = [run EXCEPT ![c].pc = "import"]
  <2> PICK r : r = [q EXCEPT !.pc = "import"] OBVIOUS
  <2>1. run' = [run EXCEPT ![c] = r] BY <1>4 DEF MigrationInv, DestTypeOK
  <2>2. TrueCommand(r) /\ r.pc = "import"
    BY <1>2, <1>4 DEF TrueCommand, CommandRecords, CommandSteps
  <2> QED BY <1>1, <1>4, <2>1, <2>2, QuietStep
<1>5. CASE Valid(s) /\ file' = s /\ run' = [run EXCEPT ![c].pc = "import", ![c].latest = s]
  <2> PICK r : r = [q EXCEPT !.pc = "import", !.latest = s] OBVIOUS
  <2>1. run' = [run EXCEPT ![c] = r] BY <1>5 DEF MigrationInv, DestTypeOK
  <2>2. TrueFile(s) BY <1>1, <1>2, <1>5, SavedCount
  <2>3. TrueFile(file)' BY <1>1, <1>5, <2>2 DEF TrueFile, There, Right, Matches
  <2>4. TrueCommand(r) /\ r.pc = "import"
    <3>1. s \in Checkpoints BY <2>2 DEF TrueFile
    <3> QED BY <1>1, <1>2, <2>2, <3>1 DEF TrueCommand, CommandRecords, CommandSteps
  <2> QED BY <1>1, <2>1, <2>3, <2>4, QuietStep
<1> QED BY <1>1, <1>3, <1>4, <1>5

\* An import leaves its record there, and no other record changes.
LEMMA ImportStep ==
    ASSUME MigrationInv, NEW c \in Commands, Import(c) PROVE MigrationInv'
<1> PICK q : q = run[c] OBVIOUS
<1> DEFINE i == q.at + 1
<1>1. /\ q # Nothing /\ q.pc = "import" /\ q.at < Total /\ file' = file
      /\ dest' = [dest EXCEPT ![i] = IF dest[i] = "missing" THEN "planned" ELSE dest[i]]
      /\ run' = [run EXCEPT ![c].at = i, ![c].pc = "progress",
                            ![c].imported = IF dest[i] = "missing" THEN q.imported + 1 ELSE q.imported,
                            ![c].skipped  = IF dest[i] = "missing" THEN q.skipped ELSE q.skipped + 1]
      /\ late' = (IF dest[i] = "missing" THEN late \ {i} ELSE late)
  BY DEF Import, Running
<1>2. TrueCommand(q) BY <1>1 DEF MigrationInv
<1>3. /\ q.at \in Nat /\ q.end \in Nat /\ q.end <= Total /\ q \in CommandRecords /\ TrueFile(q.latest)
      /\ i \in Planned /\ i \in Nat
  BY <1>1, <1>2, MigrationAssumption DEF TrueCommand, CommandRecords, Planned
<1> PICK r : r = [q EXCEPT !.at = i, !.pc = "progress",
                  !.imported = IF dest[i] = "missing" THEN q.imported + 1 ELSE q.imported,
                  !.skipped  = IF dest[i] = "missing" THEN q.skipped ELSE q.skipped + 1]
  OBVIOUS
<1>4. run' = [run EXCEPT ![c] = r] BY <1>1 DEF MigrationInv, DestTypeOK
<1>5. dest \in [Planned -> {"missing", "other", "planned"}] BY DEF MigrationInv, DestTypeOK
<1> HIDE DEF i
<1>6. /\ dest'[i] # "missing" /\ dest' \in [Planned -> {"missing", "other", "planned"}]
      /\ \A j \in Planned : j # i => dest'[j] = dest[j] /\ (j \in late => j \in late')
      /\ dest[i] = "missing" => dest'[i] = "planned"
      /\ dest[i] # "missing" => dest'[i] = dest[i] /\ late' = late
  BY <1>1, <1>3, <1>5
<1>7. NothingIsTakenBack BY <1>6 DEF NothingIsTakenBack, There, Right, Matches
<1>8. DestTypeOK' BY <1>4, <1>6 DEF MigrationInv, DestTypeOK
<1>9. /\ r.pc = "progress" /\ r.at = i /\ r.end = q.end /\ r.latest = q.latest
      /\ r \in CommandRecords
  <2> PICK m : m = IF dest[i] = "missing" THEN q.imported + 1 ELSE q.imported OBVIOUS
  <2> PICK n : n = IF dest[i] = "missing" THEN q.skipped ELSE q.skipped + 1 OBVIOUS
  <2>1. r = [q EXCEPT !.at = i, !.pc = "progress", !.imported = m, !.skipped = n] OBVIOUS
  <2>2. m \in Nat /\ n \in Nat BY <1>3 DEF CommandRecords
  <2> QED BY <1>3, <2>1, <2>2 DEF CommandRecords, CommandSteps
<1>10. \A j \in 1 .. r.at : There(j)'
  <2> TAKE j \in 1 .. r.at
  <2>1. CASE j = i BY <1>6, <2>1 DEF There
  <2>2. CASE j # i
    <3>1. j \in 1 .. q.at /\ j \in Planned
      BY <1>1, <1>3, <1>9, <2>2, MigrationAssumption DEF Planned, i
    <3>2. There(j) BY <1>1, <1>2, <3>1 DEF TrueCommand
    <3> QED BY <1>7, <3>1, <3>2 DEF NothingIsTakenBack
  <2> QED BY <2>1, <2>2
<1>11. TrueFile(q.latest)' BY <1>3, <1>7, StableFile
<1>12. r.at <= Total BY <1>3, <1>9, MigrationAssumption DEF Planned
<1>13. TrueCommand(r)' BY <1>3, <1>9, <1>10, <1>11, <1>12, MigrationAssumption DEF TrueCommand
<1>14. r.pc \notin {"recheck", "check", "publish"} BY <1>9
<1>15. file' = file BY <1>1
<1> QED BY <1>4, <1>7, <1>8, <1>13, <1>14, <1>15, CommandStep

\* Every record has been looked at when the plan is said to be applied.
LEMMA EndStep ==
    ASSUME MigrationInv, NEW c \in Commands, ImportEnds(c) \/ Applied(c) PROVE MigrationInv'
<1> PICK q : q = run[c] OBVIOUS
<1> PICK s : s = State("applied", q.imported, q.skipped, Total) OBVIOUS
<1>1. /\ q # Nothing /\ UNCHANGED <<dest, late>>
      /\ \/ /\ q.pc = "import" /\ file' = file
            /\ run' = [run EXCEPT ![c].pc = "verify", ![c].at = 0, ![c].end = Total]
         \/ /\ q.pc = "verify" /\ q.at = q.end /\ Valid(s) /\ file' = s
            /\ run' = [run EXCEPT ![c].pc = "publish"]
  BY DEF ImportEnds, Applied, Running, Ended, StepTo, Saved
<1>2. TrueCommand(q) BY <1>1 DEF MigrationInv
<1>3. CASE q.pc = "import" /\ file' = file /\ run' = [run EXCEPT ![c].pc = "verify", ![c].at = 0, ![c].end = Total]
  <2> PICK r : r = [q EXCEPT !.pc = "verify", !.at = 0, !.end = Total] OBVIOUS
  <2>1. run' = [run EXCEPT ![c] = r] BY <1>3 DEF MigrationInv, DestTypeOK
  <2>2. TrueCommand(r) /\ r.pc = "verify"
    <3>1. q \in CommandRecords /\ TrueFile(q.latest) BY <1>2 DEF TrueCommand
    <3>2. /\ r \in CommandRecords /\ r.pc = "verify" /\ r.at = 0 /\ r.end = Total
          /\ r.latest = q.latest
      BY <3>1, MigrationAssumption DEF CommandRecords, CommandSteps
    <3>3. \A j \in 1 .. r.at : Right(j) BY <3>2
    <3> QED BY <3>1, <3>2, <3>3, MigrationAssumption DEF TrueCommand
  <2> QED BY <1>1, <1>3, <2>1, <2>2, QuietStep
<1>4. CASE /\ q.pc = "verify" /\ q.at = q.end /\ Valid(s) /\ file' = s
           /\ run' = [run EXCEPT ![c].pc = "publish"]
  <2> PICK r : r = [q EXCEPT !.pc = "publish"] OBVIOUS
  <2>1. run' = [run EXCEPT ![c] = r] BY <1>4 DEF MigrationInv, DestTypeOK
  <2>2. TrueCommand(r) BY <1>2 DEF TrueCommand, CommandRecords, CommandSteps
  <2>3. \A j \in Planned : Right(j) BY <1>2, <1>4 DEF TrueCommand, Planned
  <2>4. TrueFile(s)
    <3>1. s \in Checkpoints
      BY <1>2, MigrationAssumption DEF TrueCommand, CommandRecords, Checkpoints, State
    <3>2. \A j \in 1 .. s.processed : There(j) BY <2>3 DEF State, Planned, Right, There, Matches
    <3> QED BY <1>4, <2>3, <3>1, <3>2 DEF TrueFile
  <2>5. TrueFile(file)' BY <1>1, <1>4, <2>4 DEF TrueFile, There, Right, Matches
  <2> QED BY <1>1, <2>1, <2>2, <2>5, QuietStep
<1> QED BY <1>1, <1>3, <1>4

\* A command that is over: what it leaves in the file.
LEMMA OverStep ==
    ASSUME MigrationInv, NEW c \in Commands, Throw(c) \/ PublishMigration(c) \/ Crash(c)
    PROVE  MigrationInv'
<1>1. UNCHANGED <<dest, late>> /\ run' = [run EXCEPT ![c] = Nothing] /\ run[c] # Nothing
  BY DEF Throw, PublishMigration, Crash, CommandOver, Running
<1>2. file' = file \/ TrueFile(file)'
  <2> SUFFICES file' = file \/ TrueFile(file') BY <1>1 DEF TrueFile, There, Right, Matches
  <2>1. CASE Throw(c)
    <3>1. TrueFile(run[c].latest) BY <1>1 DEF MigrationInv, TrueCommand
    <3>2. TrueFile([run[c].latest EXCEPT !.status = "failed"])
      BY <3>1 DEF TrueFile, Checkpoints, Valid
    <3> QED BY <2>1, <3>2 DEF Throw, Saved
  <2>2. CASE PublishMigration(c)
    <3>1. TrueFile(file) BY <2>2 DEF MigrationInv, PublishMigration, Running
    <3>2. file.status = "applied" => TrueFile([file EXCEPT !.status = "published"])
      BY <3>1 DEF TrueFile, Checkpoints, Valid
    <3> QED BY <2>2, <3>2 DEF PublishMigration, Saved
  <2>3. CASE Crash(c) BY <2>3 DEF Crash
  <2> QED BY <2>1, <2>2, <2>3
<1> QED BY <1>1, <1>2, QuietStep

\* Others change a record, and it counts as changed.
LEMMA EditStep ==
    ASSUME MigrationInv, NEW i \in Planned, Edit(i) PROVE MigrationInv'
<1>1. /\ late' = late \cup {i} /\ UNCHANGED <<file, run>>
      /\ \E v \in {"other", "missing"} : dest' = [dest EXCEPT ![i] = v]
  BY DEF Edit
<1>2. DestTypeOK' BY <1>1 DEF MigrationInv, DestTypeOK
<1>3. NothingIsTakenBack
  BY <1>1 DEF MigrationInv, DestTypeOK, NothingIsTakenBack, There, Right, Matches
<1>4. TrueFile(file) => TrueFile(file)'
  <2> PICK f : f = file OBVIOUS
  <2>1. TrueFile(f) => TrueFile(f)' BY <1>3, StableFile
  <2> QED BY <1>1, <2>1 DEF TrueFile
<1>5. ASSUME NEW c \in Commands, TrueCommand(run[c]) PROVE TrueCommand(run[c])'
  <2> PICK q : q = run[c] OBVIOUS
  <2>1. TrueCommand(q)' BY <1>3, <1>5, StableCommand
  <2> QED BY <1>1, <2>1 DEF TrueCommand
<1> QED BY <1>1, <1>2, <1>4, <1>5 DEF MigrationInv

\* The invariant of a migration of any number of records, with any number of
\* commands at once.
THEOREM MigrationRunInvariant == MigrationSpec => []MigrationInv
<1>1. MigrationInit => MigrationInv
  BY DEF MigrationInit, MigrationInv, DestTypeOK
<1>2. MigrationInv /\ [MigrationNext]_migrationVars => MigrationInv'
  <2> SUFFICES ASSUME MigrationInv, [MigrationNext]_migrationVars PROVE MigrationInv'
    OBVIOUS
  <2>1. ASSUME NEW c \in Commands,
               \/ StartCommand(c) \/ Look(c) \/ Recheck(c) \/ Resume(c) \/ FirstSave(c) \/ Import(c)
               \/ Progress(c) \/ ImportEnds(c) \/ Applied(c) \/ Throw(c) \/ PublishMigration(c) \/ Crash(c)
        PROVE  MigrationInv'
    BY <2>1, StartCommandStep, LookStep, CheckedStep, SaveStep, ImportStep, EndStep, OverStep
  <2>2. ASSUME NEW i \in Planned, Edit(i) PROVE MigrationInv'
    BY <2>2, EditStep
  <2>3. CASE UNCHANGED migrationVars
    BY <2>3 DEF migrationVars, MigrationInv, DestTypeOK, TrueFile, TrueCommand, There, Right, Matches
  <2> QED BY <2>1, <2>2, <2>3 DEF MigrationNext
<1> QED BY <1>1, <1>2, PTL DEF MigrationSpec

-----------------------------------------------------------------------------
(* A migration, from its plan to its success (MigrationPlan).               *)

\* What a plan is made of: records that are where the mapping has them.
PlanRecords == [file : BOOLEAN, of : Seq(Memories), records : Seq(Memories)]
PlannedBy(p, org, mapping) ==
    /\ Plannable(p.of, mapping)
    /\ DOMAIN p.records = DOMAIN p.of
    /\ \A k \in DOMAIN p.of : p.records[k] = Destination(p.of[k], org, mapping)
TruePlan(p) ==
    p \in PlanRecords /\ \E org \in Orgs, mapping \in Mappings : PlannedBy(p, org, mapping)

\* What verifyTenantSnapshotPlan() and migrateSnapshot() have found out.
SameTexts(p, s) == \A n \in DOMAIN s : \E k \in DOMAIN p.of : p.of[k].id = s[n].id /\ p.of[k].text = s[n].text
FromSnapshot(p, s) == /\ s \in Seq(Memories)
                      /\ IF p.file THEN p.of = s ELSE SameTexts(p, s)

Brought(r) == r.id \in strays \/ held[r.id] = r

TrueApplying(a) ==
    /\ TruePlan(a.plan) /\ FromSnapshot(a.plan, a.snapshot)
    /\ a.pc \in {"import", "verify"} /\ a.at \in Nat
    /\ a.at <= Len(a.plan.records)
    /\ a.pc = "verify" => \A k \in 1 .. a.at : Brought(a.plan.records[k])
    /\ DOMAIN a = {"pc", "at", "filter", "plan", "snapshot"}

TrueSuccess(d) ==
    /\ TruePlan(d.plan) /\ FromSnapshot(d.plan, d.snapshot)
    /\ \A k \in DOMAIN d.plan.records : Brought(d.plan.records[k])

PlanInv ==
    /\ snapshot \in Seq(Memories) /\ DOMAIN held = Ids
    /\ signed # Nothing => TruePlan(signed)
    /\ applying # Nothing => success = Nothing /\ TrueApplying(applying)
    /\ success # Nothing => TrueSuccess(success)
-----------------------------------------------------------------------------
\* Ids that are as many as their records are different.
LEMMA DistinctIds ==
    ASSUME NEW s \in Seq(Memories), Distinct(s), NEW a \in DOMAIN s, NEW b \in DOMAIN s, s[a].id = s[b].id
    PROVE  a = b
<1>1. DOMAIN s = 1 .. Len(s) /\ Len(s) \in Nat OBVIOUS
<1> DEFINE f == [k \in DOMAIN s |-> s[k].id]
<1>2. f \in Surjection(DOMAIN s, IdsOf(s))
  BY DEF Surjection, IdsOf
<1>3. IsFiniteSet(DOMAIN s) /\ Cardinality(DOMAIN s) = Len(s)
  <2> PICK n \in Nat : n = Len(s) BY <1>1
  <2>0. 1 \in Int /\ n \in Int OBVIOUS
  <2>1. /\ IsFiniteSet(1 .. n)
        /\ Cardinality(1 .. n) = IF 1 > n THEN 0 ELSE n - 1 + 1
    BY ONLY <2>0, FS_Interval
  <2>2. Cardinality(1 .. n) = n BY <2>1
  <2> QED BY <1>1, <2>1, <2>2
<1>4. f \in Injection(DOMAIN s, IdsOf(s))
  <2> HIDE DEF f
  <2> QED BY <1>2, <1>3, FS_Surjection DEF Distinct
<1> QED BY <1>4 DEF Injection, IsInjective

LEMMA FiniteIds ==
    ASSUME NEW s \in Seq(Memories) PROVE IsFiniteSet(IdsOf(s))
<1>1. DOMAIN s = 1 .. Len(s) /\ Len(s) \in Nat OBVIOUS
<1> DEFINE f == [k \in DOMAIN s |-> s[k].id]
<1>2. f \in Surjection(DOMAIN s, IdsOf(s))
  BY DEF Surjection, IdsOf
<1>3. IsFiniteSet(DOMAIN s) BY <1>1, FS_Interval
<1> HIDE DEF f
<1> QED BY <1>2, <1>3, FS_Surjection

LEMMA InIds ==
    ASSUME NEW s, NEW x PROVE x \in IdsOf(s) <=> \E k \in DOMAIN s : s[k].id = x
BY DEF IdsOf

\* As many distinct ids on both sides, and each of the plan is one of the
\* snapshot with the same text: then each of the snapshot is one of the plan.
LEMMA SameSourceIsSame ==
    ASSUME NEW o \in Seq(Memories), NEW s \in Seq(Memories), Distinct(o), Distinct(s), Len(o) = Len(s),
           \A k \in DOMAIN o : \E n \in DOMAIN s : s[n].id = o[k].id /\ s[n].text = o[k].text
    PROVE  \A n \in DOMAIN s : \E k \in DOMAIN o : o[k].id = s[n].id /\ o[k].text = s[n].text
<1>1. IdsOf(o) \subseteq IdsOf(s)
  <2> SUFFICES ASSUME NEW x \in IdsOf(o) PROVE x \in IdsOf(s) OBVIOUS
  <2>1. PICK k \in DOMAIN o : o[k].id = x BY InIds
  <2>2. PICK n \in DOMAIN s : s[n].id = x BY <2>1
  <2> QED BY <2>2, InIds
<1>2. IdsOf(o) = IdsOf(s)
  <2>1. IsFiniteSet(IdsOf(s)) BY FiniteIds
  <2>2. Cardinality(IdsOf(s)) = Cardinality(IdsOf(o)) BY DEF Distinct
  <2> QED BY <1>1, <2>1, <2>2, FS_Subset
<1> SUFFICES ASSUME NEW n \in DOMAIN s
             PROVE  \E k \in DOMAIN o : o[k].id = s[n].id /\ o[k].text = s[n].text
  OBVIOUS
<1> PICK x : x = s[n].id OBVIOUS
<1>3. x \in IdsOf(o) BY <1>2, InIds
<1>4. PICK k \in DOMAIN o : o[k].id = x BY ONLY <1>3, InIds
<1>5. PICK j \in DOMAIN s : s[j].id = o[k].id /\ s[j].text = o[k].text OBVIOUS
<1>6. j = n BY <1>4, <1>5, DistinctIds
<1> QED BY <1>4, <1>5, <1>6

\* A record of a plan keeps its id, its text and its references.
LEMMA DestinationIs ==
    ASSUME NEW m \in Memories, NEW org \in Orgs, NEW mapping \in Mappings,
           m.project \in DOMAIN mapping \cup {Nothing}
    PROVE  /\ Destination(m, org, mapping) \in Memories
           /\ LET r == Destination(m, org, mapping) IN
              r.id = m.id /\ r.text = m.text /\ r.refs = m.refs /\ r.org = org
              /\ r.project = Mapped(m.project, mapping)
<1>1. Mapped(m.project, mapping) \in Projects \cup {Nothing}
  BY PlanAssumption DEF Mapped
<1> DEFINE q == Mapped(m.project, mapping)
<1>2. Destination(m, org, mapping) = [m EXCEPT !.org = org, !.project = q] BY DEF Destination
<1>3. q \in Projects \cup {Nothing} BY <1>1
<1> HIDE DEF q
<1>4. [m EXCEPT !.org = org, !.project = q] \in Memories BY <1>3 DEF Memories
<1>5. LET r == [m EXCEPT !.org = org, !.project = q] IN
      r.id = m.id /\ r.text = m.text /\ r.refs = m.refs /\ r.org = org /\ r.project = q
  BY DEF Memories
<1> QED BY <1>2, <1>4, <1>5 DEF q

LEMMA PlanIsTrue ==
    ASSUME PlanInv, NEW org \in Orgs, NEW mapping \in Mappings, NEW kept \in BOOLEAN,
           Plan(org, mapping, kept)
    PROVE  TruePlan(signed')
<1>1. Plannable(snapshot, mapping) /\ snapshot \in Seq(Memories) BY DEF Plan, PlanInv
<1> DEFINE R == [k \in DOMAIN snapshot |-> Destination(snapshot[k], org, mapping)]
<1>2. signed' = [file |-> kept, of |-> snapshot, records |-> R] BY DEF Plan
<1>3. \A k \in DOMAIN snapshot : R[k] \in Memories
  <2> TAKE k \in DOMAIN snapshot
  <2>1. snapshot[k] \in Memories BY <1>1
  <2> QED BY <1>1, <2>1, DestinationIs DEF Plannable
<1>4. DOMAIN R = DOMAIN snapshot /\ \A k \in DOMAIN snapshot : R[k] = Destination(snapshot[k], org, mapping)
  OBVIOUS
<1> HIDE DEF R
<1>5. R \in Seq(Memories)
  <2>1. DOMAIN snapshot = 1 .. Len(snapshot) /\ Len(snapshot) \in Nat BY <1>1
  <2>2. R = [k \in DOMAIN snapshot |-> R[k]] BY DEF R
  <2>3. R \in [1 .. Len(snapshot) -> Memories] BY <1>3, <1>4, <2>1, <2>2
  <2> QED BY <2>1, <2>3
<1>6. signed' \in PlanRecords BY <1>1, <1>2, <1>5 DEF PlanRecords
<1>7. PlannedBy(signed', org, mapping) BY <1>1, <1>2, <1>4 DEF PlannedBy
<1> QED BY <1>6, <1>7 DEF TruePlan
-----------------------------------------------------------------------------
\* A migration starts on a plan that is linked to the snapshot.
LEMMA FromSnapshotAtStart ==
    ASSUME PlanInv, signed # Nothing, IF signed.file THEN Verified ELSE SameSource
    PROVE  FromSnapshot(signed, snapshot)
<1>1. TruePlan(signed) /\ snapshot \in Seq(Memories) BY DEF PlanInv
<1>2. CASE signed.file BY <1>1, <1>2 DEF FromSnapshot, Verified
<1>3. CASE ~signed.file
  <2> PICK p : p = signed OBVIOUS
  <2>1. p \in PlanRecords /\ Distinct(p.of) /\ DOMAIN p.records = DOMAIN p.of
    BY <1>1 DEF TruePlan, PlannedBy, Plannable
  <2>2. Len(p.records) = Len(p.of) BY <2>1 DEF PlanRecords
  <2>3. Distinct(snapshot) /\ Len(p.of) = Len(snapshot)
    BY <1>3, <2>2 DEF SameSource
  <2>4. \A k \in DOMAIN p.of : \E n \in DOMAIN snapshot :
           snapshot[n].id = p.of[k].id /\ snapshot[n].text = p.of[k].text
    BY <1>3, <2>1 DEF SameSource
  <2>5. SameTexts(p, snapshot)
    <3>1. p.of \in Seq(Memories) BY <2>1 DEF PlanRecords
    <3> QED BY <1>1, <2>1, <2>3, <2>4, <3>1, SameSourceIsSame DEF SameTexts
  <2> QED BY <1>1, <1>3, <2>5 DEF FromSnapshot
<1> QED BY <1>2, <1>3

\* The steps that touch neither the destination nor a running migration.
LEMMA OutsideStep ==
    ASSUME PlanInv, UNCHANGED <<held, applying, success, strays>>,
           snapshot' \in Seq(Memories), signed' # Nothing => TruePlan(signed')
    PROVE  PlanInv'
<1>1. \A d : TrueSuccess(d) => TrueSuccess(d)' BY DEF TrueSuccess, Brought
<1>2. \A a : TrueApplying(a) => TrueApplying(a)' BY DEF TrueApplying, Brought
<1> QED BY <1>1, <1>2 DEF PlanInv, TrueSuccess, TrueApplying, Brought

LEMMA MigrateStep ==
    ASSUME PlanInv, NEW f \in Filters, Migrate(f) PROVE PlanInv'
<1>1. /\ signed # Nothing /\ success' = Nothing /\ UNCHANGED <<snapshot, signed, held, strays>>
      /\ applying' = [pc |-> "import", at |-> 0, filter |-> f, plan |-> signed, snapshot |-> snapshot]
  BY DEF Migrate
<1>2. FromSnapshot(signed, snapshot) BY FromSnapshotAtStart DEF Migrate
<1>3. TruePlan(signed) BY <1>1 DEF PlanInv
<1>4. Len(signed.records) \in Nat BY <1>3 DEF TruePlan, PlanRecords
<1>5. TrueApplying(applying)' BY <1>1, <1>2, <1>3, <1>4 DEF TrueApplying
<1> QED BY <1>1, <1>5 DEF PlanInv

\* The record that a migration is at.
LEMMA RecordIs ==
    ASSUME PlanInv, applying # Nothing, applying.at < Len(applying.plan.records)
    PROVE  /\ applying.at + 1 \in DOMAIN applying.plan.records
           /\ Record \in Memories /\ Record.id \in Ids /\ Record # Nothing
<1>1. applying.at \in Nat /\ applying.plan.records \in Seq(Memories)
  BY DEF PlanInv, TrueApplying, TruePlan, PlanRecords
<1>2. applying.at + 1 \in DOMAIN applying.plan.records BY <1>1
<1>3. Record \in Memories BY <1>1, <1>2 DEF Record
<1> QED BY <1>2, <1>3, PlanAssumption DEF Memories

\* The next step of a migration that runs.
LEMMA ApplyingStep ==
    ASSUME PlanInv, applying # Nothing, NEW to \in {"import", "verify"}, NEW nth \in Nat,
           applying' = [applying EXCEPT !.pc = to, !.at = nth], nth <= Len(applying.plan.records),
           UNCHANGED <<snapshot, signed, success>>, DOMAIN held' = Ids,
           to = "verify" => \A k \in 1 .. nth : Brought(applying.plan.records[k])'
    PROVE  PlanInv'
<1> PICK a : a = applying OBVIOUS
<1> PICK b : b = [a EXCEPT !.pc = to, !.at = nth] OBVIOUS
<1>1. TrueApplying(a) /\ success = Nothing BY DEF PlanInv
<1>2. b.pc = to /\ b.at = nth /\ b.plan = a.plan /\ b.snapshot = a.snapshot /\ DOMAIN b = DOMAIN a
  BY <1>1 DEF TrueApplying
<1>3. to = "verify" => \A k \in 1 .. nth : Brought(a.plan.records[k])'
  <2> PICK p : p = applying.plan OBVIOUS
  <2>1. to = "verify" => \A k \in 1 .. nth : Brought(p.records[k])'
    BY DEF Brought
  <2> QED BY <2>1
<1>4. TrueApplying(b)' BY <1>1, <1>2, <1>3 DEF TrueApplying
<1> QED BY <1>1, <1>4 DEF PlanInv, TrueApplying

\* What a plan makes of the memories of its snapshot.
LEMMA PlanFacts ==
    ASSUME NEW p, NEW org \in Orgs, NEW mapping \in Mappings, p \in PlanRecords, PlannedBy(p, org, mapping),
           NEW k \in DOMAIN p.of
    PROVE  /\ p.of[k] \in Memories /\ p.records[k] \in Memories
           /\ p.records[k].id = p.of[k].id /\ p.records[k].text = p.of[k].text
           /\ p.records[k].refs = p.of[k].refs /\ p.records[k].refs \subseteq IdsOf(p.of)
           /\ p.records[k].org = org /\ p.of[k].project \in DOMAIN mapping \cup {Nothing}
           /\ p.records[k].project = Mapped(p.of[k].project, mapping)
<1>1. p.of[k] \in Memories BY DEF PlanRecords
<1>2. p.of[k].project \in DOMAIN mapping \cup {Nothing} /\ p.of[k].refs \subseteq IdsOf(p.of)
  BY DEF PlannedBy, Plannable
<1>3. p.records[k] = Destination(p.of[k], org, mapping) BY DEF PlannedBy
<1> QED BY <1>1, <1>2, <1>3, DestinationIs

LEMMA RecordsDiffer ==
    ASSUME NEW p, TruePlan(p), NEW k \in DOMAIN p.records, NEW n \in DOMAIN p.records,
           p.records[k].id = p.records[n].id
    PROVE  k = n
<1> PICK org \in Orgs, mapping \in Mappings : PlannedBy(p, org, mapping) BY DEF TruePlan
<1>1. p \in PlanRecords /\ DOMAIN p.records = DOMAIN p.of /\ Distinct(p.of) /\ p.of \in Seq(Memories)
  BY DEF TruePlan, PlannedBy, Plannable, PlanRecords
<1>2. p.of[k].id = p.of[n].id BY <1>1, PlanFacts
<1> QED BY <1>1, <1>2, DistinctIds

LEMMA ImportsStep ==
    ASSUME PlanInv, ImportRecord \/ RecordsEnd PROVE PlanInv'
<1> PICK a : a = applying OBVIOUS
<1>1. applying # Nothing /\ a.pc = "import" /\ UNCHANGED <<snapshot, signed, success>>
  BY DEF ImportRecord, RecordsEnd
<1>2. TrueApplying(a) BY <1>1 DEF PlanInv
<1>3. a.at \in Nat /\ a.plan.records \in Seq(Memories) /\ a.at <= Len(a.plan.records)
  BY <1>2 DEF TrueApplying, TruePlan, PlanRecords
<1>4. CASE ImportRecord
  <2>1. applying' = [applying EXCEPT !.at = a.at + 1] /\ a.at < Len(a.plan.records) BY <1>4 DEF ImportRecord
  <2>2. applying' = [applying EXCEPT !.pc = "import", !.at = a.at + 1]
    BY <1>1, <1>2, <2>1 DEF TrueApplying
  <2>3. DOMAIN held' = Ids BY <1>4 DEF ImportRecord, PlanInv
  <2>4. a.at + 1 \in Nat /\ a.at + 1 <= Len(a.plan.records) BY <1>3, <2>1
  <2> QED BY <1>1, <2>2, <2>3, <2>4, ApplyingStep
<1>5. CASE RecordsEnd
  <2>1. applying' = [applying EXCEPT !.pc = "verify", !.at = 0] /\ held' = held BY <1>5 DEF RecordsEnd
  <2>2. DOMAIN held' = Ids BY <2>1 DEF PlanInv
  <2>3. 0 \in Nat /\ 0 <= Len(applying.plan.records) BY <1>3
  <2>4. \A k \in 1 .. 0 : Brought(applying.plan.records[k])' OBVIOUS
  <2> QED BY <1>1, <2>1, <2>2, <2>3, <2>4, ApplyingStep
<1> QED BY <1>4, <1>5

\* What the verification sees is the record itself, and no other record has its id.
LEMMA LookAtStep ==
    ASSUME PlanInv, LookAtRecord PROVE PlanInv'
<1> PICK a : a = applying OBVIOUS
<1> PICK nth : nth = a.at + 1 OBVIOUS
<1> PICK r : r = Record OBVIOUS
<1>1. /\ applying # Nothing /\ a.pc = "verify" /\ a.at < Len(a.plan.records) /\ held[r.id] = r
      /\ applying' = [applying EXCEPT !.at = a.at + 1] /\ strays' = strays \ {r.id}
      /\ UNCHANGED <<snapshot, signed, held, success>>
  BY DEF LookAtRecord
<1>2. TrueApplying(a) BY <1>1 DEF PlanInv
<1>3. a.at \in Nat /\ a.plan.records \in Seq(Memories) /\ nth \in Nat /\ nth <= Len(a.plan.records)
  BY <1>1, <1>2 DEF TrueApplying, TruePlan, PlanRecords
<1>4. nth \in DOMAIN a.plan.records /\ r = a.plan.records[nth] BY <1>1, <1>3 DEF Record
<1>5. \A k \in 1 .. nth : Brought(a.plan.records[k])'
  <2> SUFFICES ASSUME NEW k \in 1 .. nth PROVE Brought(a.plan.records[k])' OBVIOUS
  <2> PICK q : q = a.plan.records[k] OBVIOUS
  <2>1. CASE k = nth BY <1>1, <1>4, <2>1 DEF Brought
  <2>2. CASE k # nth
    <3>1. k \in 1 .. a.at /\ k \in DOMAIN a.plan.records BY <1>3, <2>2
    <3>2. Brought(q) BY <1>1, <1>2, <3>1 DEF TrueApplying
    <3>3. q.id # r.id BY <1>2, <1>4, <2>2, <3>1, RecordsDiffer DEF TrueApplying
    <3>4. Brought(q)' BY <1>1, <3>2, <3>3 DEF Brought
    <3> QED BY <3>4
  <2> QED BY <2>1, <2>2
<1>6. applying' = [applying EXCEPT !.pc = "verify", !.at = nth]
  BY <1>1, <1>2 DEF TrueApplying
<1>7. \A k \in 1 .. nth : Brought(applying.plan.records[k])'
  <2> PICK p : p = applying.plan OBVIOUS
  <2>1. \A k \in 1 .. nth : Brought(p.records[k])' BY <1>5
  <2>2. applying'.plan = p BY <1>2, <1>6 DEF TrueApplying
  <2> QED BY <2>1, <2>2 DEF Brought
<1>8. /\ applying # Nothing /\ UNCHANGED <<snapshot, signed, success>> /\ DOMAIN held' = Ids
      /\ nth \in Nat /\ nth <= Len(applying.plan.records)
  BY <1>1, <1>3 DEF PlanInv
<1> QED BY <1>6, <1>7, <1>8, ApplyingStep

LEMMA CompleteStep ==
    ASSUME PlanInv, Complete \/ Fail PROVE PlanInv'
<1>1. applying # Nothing /\ applying' = Nothing /\ UNCHANGED <<snapshot, signed, held, strays>>
  BY DEF Complete, Fail
<1> PICK a : a = applying OBVIOUS
<1>2. TrueApplying(a) /\ success = Nothing BY <1>1 DEF PlanInv
<1>3. CASE Fail BY <1>1, <1>2, <1>3 DEF Fail, PlanInv
<1>4. CASE Complete
  <2> PICK d : d = [plan |-> a.plan, snapshot |-> a.snapshot] OBVIOUS
  <2>1. success' = d /\ a.pc = "verify" /\ a.at = Len(a.plan.records) BY <1>4 DEF Complete
  <2>2. a.plan.records \in Seq(Memories) BY <1>2 DEF TrueApplying, TruePlan, PlanRecords
  <2>3. TrueSuccess(d) BY <1>2, <2>1, <2>2 DEF TrueSuccess, TrueApplying
  <2>4. TrueSuccess(d)' BY <1>1, <2>3 DEF TrueSuccess, Brought
  <2> QED BY <1>1, <2>1, <2>4 DEF PlanInv, TrueSuccess
<1> QED BY <1>3, <1>4

LEMMA EditHeldStep ==
    ASSUME PlanInv, NEW i \in Ids, EditHeld(i) PROVE PlanInv'
<1>1. /\ strays' = strays \cup {i} /\ UNCHANGED <<snapshot, signed, applying, success>>
      /\ \E v : held' = [held EXCEPT ![i] = v]
  BY DEF EditHeld
<1>2. \A m \in Memories : Brought(m) => Brought(m)'
  BY <1>1 DEF PlanInv, Brought, Memories
<1>3. \A p : TruePlan(p) => \A k \in DOMAIN p.records : p.records[k] \in Memories
  BY DEF TruePlan, PlanRecords
<1>4. ASSUME NEW d, TrueSuccess(d) PROVE TrueSuccess(d)'
  BY <1>2, <1>3, <1>4 DEF TrueSuccess
<1>5. ASSUME NEW a, TrueApplying(a) PROVE TrueApplying(a)'
  <2>1. a.plan.records \in Seq(Memories) /\ a.at \in Nat /\ a.at <= Len(a.plan.records)
    BY <1>5 DEF TrueApplying, TruePlan, PlanRecords
  <2>2. \A k \in 1 .. a.at : a.plan.records[k] \in Memories BY <2>1
  <2> QED BY <1>2, <1>5, <2>2 DEF TrueApplying
<1>6. success' # Nothing => TrueSuccess(success)'
  <2> PICK d : d = success OBVIOUS
  <2>1. d # Nothing => TrueSuccess(d)' BY <1>4 DEF PlanInv
  <2> QED BY <1>1, <2>1 DEF TrueSuccess
<1>7. applying' # Nothing => success' = Nothing /\ TrueApplying(applying)'
  <2> PICK a : a = applying OBVIOUS
  <2>1. a # Nothing => TrueApplying(a)' BY <1>5 DEF PlanInv
  <2> QED BY <1>1, <2>1 DEF TrueApplying, PlanInv
<1>8. DOMAIN held' = Ids BY <1>1 DEF PlanInv
<1> QED BY <1>1, <1>6, <1>7, <1>8 DEF PlanInv

\* The invariant of a migration's plan, for any snapshots and mappings.
THEOREM MigrationPlanInvariant == PlanSpec => []PlanInv
<1>1. PlanInit => PlanInv BY PlanAssumption DEF PlanInit, PlanInv
<1>2. PlanInv /\ [PlanNext]_planVars => PlanInv'
  <2> SUFFICES ASSUME PlanInv, [PlanNext]_planVars PROVE PlanInv'
    OBVIOUS
  <2>1. ASSUME NEW org \in Orgs, NEW mapping \in Mappings, NEW kept \in BOOLEAN, Plan(org, mapping, kept)
        PROVE  PlanInv'
    <3>1. TruePlan(signed') BY <2>1, PlanIsTrue
    <3>2. UNCHANGED <<snapshot, held, applying, success, strays>> BY <2>1 DEF Plan
    <3>3. snapshot' \in Seq(Memories) BY <3>2 DEF PlanInv
    <3> QED BY <3>1, <3>2, <3>3, OutsideStep
  <2>2. CASE Discard \/ (\E s \in Snapshots : Export(s)) \/ (\E mapping \in Mappings : Refuse(mapping)) \/ UNCHANGED planVars
    <3>1. UNCHANGED <<held, applying, success, strays>> BY <2>2 DEF Discard, Export, Refuse, planVars
    <3>2. snapshot' \in Seq(Memories) BY <2>2, PlanAssumption DEF Discard, Export, Refuse, planVars, PlanInv
    <3>3. signed' # Nothing => TruePlan(signed') BY <2>2 DEF Discard, Export, Refuse, planVars, PlanInv
    <3> QED BY <3>1, <3>2, <3>3, OutsideStep
  <2>3. ASSUME NEW f \in Filters, Migrate(f) PROVE PlanInv' BY <2>3, MigrateStep
  <2>4. ASSUME NEW i \in Ids, EditHeld(i) PROVE PlanInv' BY <2>4, EditHeldStep
  <2>5. CASE ImportRecord \/ RecordsEnd BY <2>5, ImportsStep
  <2>6. CASE LookAtRecord BY <2>6, LookAtStep
  <2>7. CASE Complete \/ Fail BY <2>7, CompleteStep
  <2> QED BY <2>1, <2>2, <2>3, <2>4, <2>5, <2>6, <2>7 DEF PlanNext
<1> QED BY <1>1, <1>2, PTL DEF PlanSpec

\* What has succeeded is whole.
LEMMA WholeSuccess == ASSUME PlanInv PROVE SuccessIsWhole
<1> SUFFICES ASSUME success # Nothing PROVE SuccessIsWhole BY DEF SuccessIsWhole
<1> PICK p : p = success.plan OBVIOUS
<1> PICK s : s = success.snapshot OBVIOUS
<1>1. TruePlan(p) /\ FromSnapshot(p, s) /\ \A k \in DOMAIN p.records : Brought(p.records[k])
  BY DEF PlanInv, TrueSuccess
<1> PICK org \in Orgs, mapping \in Mappings : PlannedBy(p, org, mapping) BY <1>1 DEF TruePlan
<1>2. p \in PlanRecords /\ DOMAIN p.records = DOMAIN p.of BY <1>1 DEF TruePlan, PlannedBy
<1>3. \A k \in DOMAIN p.of : p.of[k].id \notin strays => held[p.of[k].id] = p.records[k]
  BY <1>1, <1>2, PlanFacts DEF Brought
<1>4. ASSUME NEW k \in DOMAIN s, s[k].id \notin strays
      PROVE  /\ held[s[k].id] # Nothing /\ held[s[k].id].text = s[k].text
             /\ p.file => held[s[k].id].refs = s[k].refs
             /\ \A t \in held[s[k].id].refs \ strays : held[t] # Nothing /\ held[t].org = held[s[k].id].org
  <2>1. PICK n \in DOMAIN p.of : /\ p.of[n].id = s[k].id /\ p.of[n].text = s[k].text
                                 /\ p.file => p.of[n].refs = s[k].refs
    <3>1. CASE p.file BY <1>1, <3>1 DEF FromSnapshot
    <3>2. CASE ~p.file BY <1>1, <3>2 DEF FromSnapshot, SameTexts
    <3> QED BY <3>1, <3>2
  <2>2. held[s[k].id] = p.records[n] BY <1>3, <1>4, <2>1
  <2>3. /\ p.records[n] \in Memories /\ p.records[n].text = p.of[n].text /\ p.records[n].refs = p.of[n].refs
        /\ p.records[n].refs \subseteq IdsOf(p.of) /\ p.records[n].org = org
    BY <1>2, PlanFacts
  <2>4. ASSUME NEW t \in p.records[n].refs \ strays PROVE held[t] # Nothing /\ held[t].org = org
    <3>1. PICK j \in DOMAIN p.of : t = p.of[j].id BY <2>3 DEF IdsOf
    <3>2. held[t] = p.records[j] BY <1>3, <3>1
    <3>3. p.records[j] \in Memories /\ p.records[j].org = org BY <1>2, PlanFacts
    <3> QED BY <3>2, <3>3, PlanAssumption
  <2> QED BY <2>1, <2>2, <2>3, <2>4, PlanAssumption
<1>5. ASSUME NEW k \in DOMAIN p.of, NEW n \in DOMAIN p.of, {p.of[k].id, p.of[n].id} \cap strays = {}
      PROVE  held[p.of[k].id].project = held[p.of[n].id].project <=> p.of[k].project = p.of[n].project
  <2>1. held[p.of[k].id] = p.records[k] /\ held[p.of[n].id] = p.records[n] BY <1>3, <1>5
  <2>2. /\ p.records[k].project = Mapped(p.of[k].project, mapping)
        /\ p.records[n].project = Mapped(p.of[n].project, mapping)
        /\ p.of[k].project \in DOMAIN mapping \cup {Nothing} /\ p.of[n].project \in DOMAIN mapping \cup {Nothing}
    BY <1>2, PlanFacts
  <2>3. IsInjective(mapping) BY DEF PlannedBy, Plannable
  <2>4. \A q \in DOMAIN mapping : mapping[q] # Nothing /\ q # Nothing BY PlanAssumption
  <2> QED BY <2>1, <2>2, <2>3, <2>4 DEF Mapped, IsInjective
<1> QED BY <1>4, <1>5 DEF SuccessIsWhole

\* The state file of a migration never claims more than the destination holds,
\* and one that has succeeded has brought over the snapshot it was called with,
\* whole, whatever was exported, planned or written beside it: for any number of
\* records, commands and writers, and any snapshots and mappings.
THEOREM MigrationIsTrueTheorem == MigrationSpec /\ PlanSpec => []MigrationIsTrue
<1>1. MigrationInv /\ PlanInv => MigrationIsTrue
  <2>1. MigrationInv => FileIsTrue BY DEF MigrationInv, TrueFile, FileIsTrue, There, Right
  <2> QED BY <2>1, WholeSuccess DEF MigrationIsTrue
<1> QED BY <1>1, MigrationRunInvariant, MigrationPlanInvariant, PTL
=============================================================================
