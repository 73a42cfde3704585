----------------------------- MODULE MCDataGate -----------------------------
(***************************************************************************)
(* What the operator's commands close and open: the gate of keyed batches  *)
(* (DataGate), the recovery state (RecoveryState) and, record by record,   *)
(* the migration that runs behind the gate (MigrationRun); and the way in  *)
(* which processes open the ledger that holds the gate (LedgerStart).      *)
(* They share no file, and a behaviour is one of one of them, while the    *)
(* others stay in an initial state.                                        *)
(*                                                                         *)
(* A migration's plan, from snapshot to success, is MigrationPlan.         *)
(*                                                                         *)
(* The gate: three calls with one key, r1, its retry r2 on another server, *)
(* and r3, which uses the key for another body of the same operation.      *)
(* Behind a stray marker, where little is promised, one runs at a time.    *)
(***************************************************************************)
EXTENDS DataGate, RecoveryState, LedgerStart, MigrationPlan, TLC

CONSTANTS r1, r2, r3, p1, p2, o,
          MaxStrayCalls   \* bound on the calls that run at once behind a stray marker

VARIABLE part

MCOpOf == [b \in Bodies |-> "store"]
MCServerOf == (r1 :> p1) @@ (r2 :> p2) @@ (r3 :> p1)
MCKeyOf == [r \in Requests |-> 1]
MCBodyOf == (r1 :> 1) @@ (r2 :> 1) @@ (r3 :> 2)

(* Two memories, one that refers to the other, to none or to one that is    *)
(* elsewhere, changed or moved between two exports; and what is refused.    *)
Memory(i, t, r, org, p) == [id |-> i, text |-> t, refs |-> r, org |-> org, project |-> p]
Second(p) == Memory(2, 1, {}, Nothing, p)
MCSnapshots == {<<Memory(1, t, r, Nothing, Nothing), Second(Nothing)>> : t \in {1, 2}, r \in {{}, {2}, {3}}}
         \cup {<<Memory(1, 1, {2}, Nothing, p), Second("q")>> : p \in {Nothing, "p"}}
         \cup {<<>>, <<Memory(1, 1, {}, "o1", Nothing)>>, <<Second(Nothing), Second(Nothing)>>}
Mapping(S, f(_)) == [p \in S |-> f(p)]
MCMappings == { Mapping({}, LAMBDA p : p), Mapping({"p", "q"}, LAMBDA p : p), Mapping({"p", "q"}, LAMBDA p : "p"),
                Mapping({"q"}, LAMBDA p : "p") }

StrayBound == stray => Cardinality({r \in Requests : pc[r] = "executing"}) <= MaxStrayCalls

OperatorInit ==
    /\ part \in {"gate", "recovery", "migration", "opening", "planning"}
    /\ part # "migration" => dest = [i \in Planned |-> "missing"]
    /\ part # "planning" => snapshot = <<>>
    /\ Init /\ RecoveryInit /\ MigrationInit /\ PlanInit
    /\ StartInit /\ (part # "opening" => keyFile = None)

OperatorNext == /\ \/ part = "gate"      /\ Next /\ StrayBound' /\ UNCHANGED <<recoveryVars, migrationVars, startVars, planVars>>
                   \/ part = "recovery"  /\ RecoveryNext  /\ UNCHANGED <<vars, migrationVars, startVars, planVars>>
                   \/ part = "migration" /\ MigrationNext /\ UNCHANGED <<vars, recoveryVars, startVars, planVars>>
                   \/ part = "opening"   /\ StartNext     /\ UNCHANGED <<vars, recoveryVars, migrationVars, planVars>>
                   \/ part = "planning"  /\ PlanNext      /\ UNCHANGED <<vars, recoveryVars, migrationVars, startVars>>
                /\ UNCHANGED part

OperatorSpec == OperatorInit /\ [][OperatorNext]_<<part, vars, recoveryVars, migrationVars, startVars, planVars>>
=============================================================================
