---------------------------- MODULE JobLifecycle ----------------------------
(***************************************************************************)
(* What a JobStore promises its callers, with no ledger in it: a submitted *)
(* job waits, is held by one worker at a time, is tried a bounded number   *)
(* of times, ends done or dead and is then forgotten.  SqliteJobStore and  *)
(* InMemoryJobStore (src/job-store.ts) are both shown to implement this.   *)
(***************************************************************************)
EXTENDS Naturals

CONSTANTS Jobs, Owners, None,
          MaxAttempts    \* MaxAttempts[j]: the attempts a submitter allows

VARIABLES status,        \* what has become of each job
          holder,        \* the worker a held job belongs to, else None
          tries          \* how often the job has been handed out

lvars == <<status, holder, tries>>

Init == /\ status = [j \in Jobs |-> "unknown"]
        /\ holder = [j \in Jobs |-> None]
        /\ tries  = [j \in Jobs |-> 0]

Submit(j) == /\ status[j] = "unknown"
             /\ status' = [status EXCEPT ![j] = "waiting"]
             /\ UNCHANGED <<holder, tries>>

\* A job is handed to a worker only while nobody holds it and while it has an
\* attempt left; a fresh job is always handed out once, even with a zero budget.
Take(j, o) == /\ status[j] = "waiting"
              /\ tries[j] = 0 \/ tries[j] < MaxAttempts[j]
              /\ status' = [status EXCEPT ![j] = "held"]
              /\ holder' = [holder EXCEPT ![j] = o]
              /\ tries'  = [tries EXCEPT ![j] = @ + 1]

Finish(j) == /\ status[j] = "held"
             /\ status' = [status EXCEPT ![j] = "done"]
             /\ holder' = [holder EXCEPT ![j] = None]
             /\ UNCHANGED tries

\* A set of held jobs goes back at once: one for a reported failure, several
\* for a sweep.  Those with attempts left wait again, the others are dead.
GiveBack(S) == /\ S # {}
               /\ \A j \in S : status[j] = "held"
               /\ status' = [j \in Jobs |->
                     IF j \notin S THEN status[j]
                     ELSE IF tries[j] < MaxAttempts[j] THEN "waiting" ELSE "dead"]
               /\ holder' = [j \in Jobs |-> IF j \in S THEN None ELSE holder[j]]
               /\ UNCHANGED tries

Forget(S) == /\ S # {}
             /\ \A j \in S : status[j] \in {"done", "dead"}
             /\ status' = [j \in Jobs |-> IF j \in S THEN "gone" ELSE status[j]]
             /\ tries'  = [j \in Jobs |-> IF j \in S THEN 0 ELSE tries[j]]
             /\ UNCHANGED holder

Next == \/ \E j \in Jobs : Submit(j) \/ Finish(j)
        \/ \E j \in Jobs, o \in Owners : Take(j, o)
        \/ \E S \in SUBSET Jobs : GiveBack(S) \/ Forget(S)

Spec == Init /\ [][Next]_lvars
=============================================================================
