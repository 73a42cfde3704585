-------------------------- MODULE JobLedgerProofs ---------------------------
(***************************************************************************)
(* Theorems about the durable job ledger, for every set of jobs, workers,  *)
(* filters, attempt budgets, lease lengths, delays and retention times.    *)
(***************************************************************************)
EXTENDS JobLedger, TLAPS

\* A released row is a row: fail() and reclaimExpired() keep the table typed.
LEMMA ReleasedType ==
  ASSUME TypeOK, NEW j \in Jobs, NEW d \in Nat
  PROVE  /\ Released(j, d) \in Row
         /\ Released(j, d).attempt = jobs[j].attempt
         /\ Released(j, d).state = IF jobs[j].attempt < MaxAttempts[j]
                                   THEN "retrying" ELSE "failed"
         /\ Released(j, d).leaseOwner = None
         /\ Released(j, d).lease = 0
         /\ Released(j, d).delay = IF jobs[j].attempt < MaxAttempts[j]
                                   THEN d ELSE 0
  BY BudgetAssumption DEF TypeOK, Row, States, Released

\* Time passing keeps a row a row, and touches only its three timers.
LEMMA AgedType ==
  ASSUME NEW r \in Row
  PROVE  /\ Aged(r) \in Row
         /\ Aged(r).state = r.state
         /\ Aged(r).attempt = r.attempt
         /\ Aged(r).leaseOwner = r.leaseOwner
         /\ Aged(r).lease > 0 => r.lease > 0
         /\ r.lease = 0 => Aged(r).lease = 0
         /\ r.delay = 0 => Aged(r).delay = 0
<1> DEFINE l == IF r.lease > 0 THEN r.lease - 1 ELSE 0
           d == IF r.delay > 0 THEN r.delay - 1 ELSE 0
           a == IF r.state \in Terminal /\ r.age < PruneAfterMs
                THEN r.age + 1 ELSE r.age
<1>1. l \in Nat /\ d \in Nat /\ a \in Nat
  BY TimesAssumption DEF Row
<1>2. Aged(r) = [r EXCEPT !.lease = l, !.delay = d, !.age = a]
  BY DEF Aged
<1>3. /\ l > 0 => r.lease > 0
      /\ r.lease = 0 => l = 0
      /\ r.delay = 0 => d = 0
  BY DEF Row
<1> HIDE DEF l, d, a
<1> QED BY <1>1, <1>2, <1>3 DEF Row

\* An absent row is a row.
LEMMA NoRowType == NoRow \in Row
  BY DEF NoRow, Row, States

\* The empty ledger satisfies the invariant.
LEMMA InitInv == Init => LedgerInv
  BY NoRowType DEF Init, LedgerInv, TypeOK, LeaseMatchesState,
     AttemptsWithinBudget, RowsWereIssued, NoDelayOnceTaken, NoRow

\* Every statement preserves the invariant.  It is needed whole: complete()
\* and fail() test lease_owner only, so that they settle a *running* row with
\* at least one attempt follows from LeaseMatchesState.
LEMMA StepInv == LedgerInv /\ [Next]_ledgerVars => LedgerInv'
<1> SUFFICES ASSUME LedgerInv, [Next]_ledgerVars
             PROVE  LedgerInv'
  OBVIOUS
<1> USE DEF LedgerInv
<1>1. ASSUME NEW j \in Jobs, NEW d \in Delays, Enqueue(j, d)
      PROVE  LedgerInv'
  <2> DEFINE new == [NoRow EXCEPT !.state = "queued", !.createdAt = stamp,
                                  !.delay = d]
  <2>1. /\ jobs' = [jobs EXCEPT ![j] = new]
        /\ issued' = issued \cup {j}
        /\ UNCHANGED stamp
    BY <1>1 DEF Enqueue
  <2>2. /\ new \in Row
        /\ new.state = "queued" /\ new.attempt = 0
        /\ new.leaseOwner = None /\ new.lease = 0
    BY TimesAssumption DEF NoRow, Row, States, TypeOK
  <2> HIDE DEF new
  <2>3. TypeOK'
    BY <2>1, <2>2 DEF TypeOK
  <2> QED
    BY <2>1, <2>2, <2>3 DEF TypeOK, LeaseMatchesState, AttemptsWithinBudget,
       RowsWereIssued, NoDelayOnceTaken
<1>2. ASSUME NEW o \in Owners, NEW j \in Jobs, Claim(o, j)
      PROVE  LedgerInv'
  <2>1. /\ jobs[j].state \in {"queued", "retrying"}
        /\ jobs[j].delay = 0
    BY <1>2 DEF Claim, Claimable
  <2>2. TypeOK'
    BY <1>2, TimesAssumption DEF Claim, TypeOK, Row, States
  <2>3. LeaseMatchesState'
    BY <1>2, OwnersAssumption, TimesAssumption
       DEF Claim, TypeOK, Row, LeaseMatchesState
  <2>4. AttemptsWithinBudget'
    BY <1>2, <2>1, BudgetAssumption DEF Claim, TypeOK, Row, AttemptsWithinBudget
  <2>5. RowsWereIssued' /\ NoDelayOnceTaken'
    BY <1>2, <2>1 DEF Claim, TypeOK, Row, RowsWereIssued, NoDelayOnceTaken
  <2> QED BY <2>2, <2>3, <2>4, <2>5
<1>3. ASSUME NEW j \in Jobs, NEW o \in Owners, Complete(j, o)
      PROVE  LedgerInv'
  <2>1. jobs[j].state = "running"
    BY <1>3, OwnersAssumption DEF Complete, LeaseMatchesState
  <2> QED
    BY <1>3, <2>1, OwnersAssumption DEF Complete, TypeOK, Row, States,
       LeaseMatchesState, AttemptsWithinBudget, RowsWereIssued, NoDelayOnceTaken
<1>4. ASSUME NEW j \in Jobs, NEW o \in Owners, NEW d \in Delays, Fail(j, o, d)
      PROVE  LedgerInv'
  <2>1. jobs[j].state = "running"
    BY <1>4, OwnersAssumption DEF Fail, LeaseMatchesState
  <2>2. jobs' = [jobs EXCEPT ![j] = Released(j, d)] /\ UNCHANGED <<issued, stamp>>
    BY <1>4 DEF Fail
  <2>3. d \in Nat
    BY TimesAssumption
  <2> DEFINE new == Released(j, d)
  <2>4. /\ new \in Row
        /\ new.attempt = jobs[j].attempt
        /\ new.state = IF jobs[j].attempt < MaxAttempts[j]
                       THEN "retrying" ELSE "failed"
        /\ new.leaseOwner = None /\ new.lease = 0
        /\ new.delay = IF jobs[j].attempt < MaxAttempts[j] THEN d ELSE 0
    BY <2>3, ReleasedType
  <2>5. jobs' = [jobs EXCEPT ![j] = new] /\ UNCHANGED <<issued, stamp>>
    BY <2>2
  <2> HIDE DEF new
  <2>6. TypeOK'
    BY <2>4, <2>5 DEF TypeOK
  <2>7. \A k \in Jobs : jobs'[k] = IF k = j THEN new ELSE jobs[k]
    BY <2>5 DEF TypeOK
  <2>8. AttemptsWithinBudget'
    BY <2>1, <2>4, <2>7, BudgetAssumption DEF TypeOK, Row, AttemptsWithinBudget
  <2>9. LeaseMatchesState' /\ RowsWereIssued' /\ NoDelayOnceTaken'
    BY <2>1, <2>4, <2>5, <2>7 DEF LeaseMatchesState, RowsWereIssued,
       NoDelayOnceTaken
  <2> QED BY <2>6, <2>8, <2>9
<1>5. ASSUME NEW j \in Jobs, NEW o \in Owners, Renew(j, o)
      PROVE  LedgerInv'
  BY <1>5, OwnersAssumption, TimesAssumption DEF Renew, TypeOK, Row, States,
     LeaseMatchesState, AttemptsWithinBudget, RowsWereIssued, NoDelayOnceTaken
<1>6. ASSUME ReclaimExpired
      PROVE  LedgerInv'
  <2>1. \A j \in Jobs : \/ jobs'[j] = jobs[j]
                        \/ /\ jobs[j].state = "running"
                           /\ jobs'[j] = Released(j, jobs[j].delay)
    BY <1>6 DEF ReclaimExpired, Expired
  <2>2. \A j \in Jobs : jobs[j].delay \in Nat
    BY DEF TypeOK, Row
  <2>3. \A j \in Jobs : jobs'[j] \in Row
    BY <2>1, <2>2, ReleasedType DEF TypeOK
  <2>4. TypeOK'
    BY <1>6, <2>3 DEF ReclaimExpired, TypeOK
  <2>5. \A j \in Jobs :
           \/ jobs'[j] = jobs[j]
           \/ /\ jobs[j].state = "running"
              /\ jobs'[j].attempt = jobs[j].attempt
              /\ jobs'[j].state = IF jobs[j].attempt < MaxAttempts[j]
                                  THEN "retrying" ELSE "failed"
              /\ jobs'[j].leaseOwner = None /\ jobs'[j].lease = 0
              /\ jobs'[j].state = "failed" => jobs'[j].delay = 0
    BY <2>1, <2>2, ReleasedType
  <2>6. UNCHANGED issued
    BY <1>6 DEF ReclaimExpired
  <2>7. AttemptsWithinBudget'
    BY <2>5, BudgetAssumption DEF TypeOK, Row, AttemptsWithinBudget
  <2>8. LeaseMatchesState' /\ RowsWereIssued' /\ NoDelayOnceTaken'
    BY <2>5, <2>6 DEF TypeOK, LeaseMatchesState, RowsWereIssued, NoDelayOnceTaken
  <2> QED BY <2>4, <2>7, <2>8
<1>7. ASSUME Prune
      PROVE  LedgerInv'
  <2>1. \A j \in Jobs : jobs'[j] = jobs[j] \/ jobs'[j] = NoRow
    BY <1>7 DEF Prune
  <2>2. TypeOK'
    BY <1>7, <2>1, NoRowType DEF Prune, TypeOK
  <2> QED
    BY <1>7, <2>1, <2>2 DEF Prune, NoRow, LeaseMatchesState,
       AttemptsWithinBudget, RowsWereIssued, NoDelayOnceTaken
<1>8. ASSUME Tick
      PROVE  LedgerInv'
  <2>1. \A j \in Jobs : jobs'[j] = Aged(jobs[j]) /\ jobs[j] \in Row
    BY <1>8 DEF Tick, TypeOK
  <2>2. TypeOK'
    BY <1>8, <2>1, AgedType DEF Tick, TypeOK
  <2> QED
    BY <1>8, <2>1, <2>2, AgedType DEF Tick, LeaseMatchesState,
       AttemptsWithinBudget, RowsWereIssued, NoDelayOnceTaken
<1>9. ASSUME UNCHANGED ledgerVars
      PROVE  LedgerInv'
  BY <1>9 DEF ledgerVars, TypeOK, LeaseMatchesState, AttemptsWithinBudget,
     RowsWereIssued, NoDelayOnceTaken
<1> QED
  BY <1>1, <1>2, <1>3, <1>4, <1>5, <1>6, <1>7, <1>8, <1>9 DEF Next

\* The invariant holds in every state of every run of the ledger.
THEOREM LedgerSafe == Spec => []LedgerInv
  BY InitInv, StepInv, PTL DEF Spec

\* The table, the issued ids and the clock keep their types.
THEOREM TypeCorrect == Spec => []TypeOK
<1>1. LedgerInv => TypeOK
  BY DEF LedgerInv
<1> QED BY <1>1, LedgerSafe, PTL

\* complete(), fail() and reclaimExpired() always agree on what is running.
THEOREM LeaseCorrect == Spec => []LeaseMatchesState
<1>1. LedgerInv => LeaseMatchesState
  BY DEF LedgerInv
<1> QED BY <1>1, LedgerSafe, PTL

\* No job is ever handed out beyond its attempt budget.
THEOREM BudgetCorrect == Spec => []AttemptsWithinBudget
<1>1. LedgerInv => AttemptsWithinBudget
  BY DEF LedgerInv
<1> QED BY <1>1, LedgerSafe, PTL

\* claim() takes a row nobody holds and that has not settled.
LEMMA ClaimEffect ==
  ASSUME LedgerInv, NEW o \in Owners, NEW j \in Jobs, Claim(o, j)
  PROVE  /\ jobs[j].leaseOwner = None
         /\ jobs[j].state \in {"queued", "retrying"}
         /\ jobs'[j].state = "running" /\ jobs'[j].leaseOwner = o
         /\ jobs'[j].attempt = jobs[j].attempt + 1
         /\ jobs'[j].lease = LeaseMs
         /\ \A k \in Jobs \ {j} : jobs'[k] = jobs[k]
<1>1. jobs \in [Jobs -> Row] /\ jobs[j] \in Row
  BY DEF LedgerInv, TypeOK
<1>2. jobs[j].state \in {"queued", "retrying"} /\ jobs[j].leaseOwner = None
  BY DEF Claim, Claimable, LedgerInv, LeaseMatchesState
<1> QED BY <1>1, <1>2 DEF Claim, Row

\* complete() settles a running row and gives its lease up.
LEMMA CompleteEffect ==
  ASSUME LedgerInv, NEW o \in Owners, NEW j \in Jobs, Complete(j, o)
  PROVE  /\ jobs[j].leaseOwner = o /\ jobs[j].state = "running"
         /\ jobs'[j].state = "completed" /\ jobs'[j].leaseOwner = None
         /\ jobs'[j].attempt = jobs[j].attempt
         /\ \A k \in Jobs \ {j} : jobs'[k] = jobs[k]
<1>1. jobs \in [Jobs -> Row] /\ jobs[j] \in Row
  BY DEF LedgerInv, TypeOK
<1>2. jobs[j].state = "running"
  BY OwnersAssumption DEF Complete, LedgerInv, LeaseMatchesState
<1> QED BY <1>1, <1>2 DEF Complete, Row

\* fail() releases a running row.
LEMMA FailEffect ==
  ASSUME LedgerInv, NEW o \in Owners, NEW j \in Jobs, NEW d \in Delays,
         Fail(j, o, d)
  PROVE  /\ jobs[j].leaseOwner = o /\ jobs[j].state = "running"
         /\ jobs'[j].state # "completed" /\ jobs'[j].leaseOwner = None
         /\ jobs'[j].attempt = jobs[j].attempt
         /\ \A k \in Jobs \ {j} : jobs'[k] = jobs[k]
<1>1. jobs \in [Jobs -> Row] /\ jobs[j] \in Row /\ TypeOK
  BY DEF LedgerInv, TypeOK
<1>2. jobs[j].leaseOwner = o /\ jobs[j].state = "running"
  BY OwnersAssumption DEF Fail, LedgerInv, LeaseMatchesState
<1>3. /\ jobs'[j] = Released(j, d) /\ d \in Nat
      /\ \A k \in Jobs \ {j} : jobs'[k] = jobs[k]
  BY <1>1, TimesAssumption DEF Fail
<1>4. /\ Released(j, d).attempt = jobs[j].attempt
      /\ Released(j, d).leaseOwner = None
      /\ Released(j, d).state # "completed"
  BY <1>1, <1>3, ReleasedType
<1> QED BY <1>2, <1>3, <1>4

\* reclaimExpired() touches only running rows whose lease has run out.
LEMMA ReclaimEffect ==
  ASSUME LedgerInv, ReclaimExpired, NEW j \in Jobs
  PROVE  /\ jobs'[j].attempt = jobs[j].attempt
         /\ jobs'[j].state = "completed" <=> jobs[j].state = "completed"
         /\ \/ jobs'[j] = jobs[j]
            \/ /\ jobs[j].state = "running" /\ jobs[j].lease = 0
               /\ jobs'[j].leaseOwner = None
<1>1. CASE j \notin Expired
  BY <1>1 DEF ReclaimExpired
<1>2. CASE j \in Expired
  <2>1. /\ jobs[j].state = "running" /\ jobs[j].lease = 0
        /\ jobs'[j] = Released(j, jobs[j].delay)
    BY <1>2 DEF ReclaimExpired, Expired
  <2>2. jobs[j].delay \in Nat /\ TypeOK
    BY DEF LedgerInv, TypeOK, Row
  <2>3. /\ Released(j, jobs[j].delay).attempt = jobs[j].attempt
        /\ Released(j, jobs[j].delay).leaseOwner = None
        /\ Released(j, jobs[j].delay).state # "completed"
    BY <2>2, ReleasedType
  <2> QED BY <2>1, <2>3
<1> QED BY <1>1, <1>2

\* Time leaves state, attempt and owner alone and takes one off a lease.
LEMMA TickEffect ==
  ASSUME LedgerInv, Tick, NEW j \in Jobs
  PROVE  /\ jobs'[j].attempt = jobs[j].attempt
         /\ jobs'[j].state = jobs[j].state
         /\ jobs'[j].leaseOwner = jobs[j].leaseOwner
         /\ jobs[j].lease \in Nat
         /\ jobs[j].lease > 0 => jobs'[j].lease = jobs[j].lease - 1
<1>1. jobs[j] \in Row /\ jobs'[j] = Aged(jobs[j])
  BY DEF LedgerInv, TypeOK, Tick
<1>2. jobs[j].lease > 0 => Aged(jobs[j]).lease = jobs[j].lease - 1
  BY <1>1 DEF Aged, Row
<1> QED BY <1>1, <1>2, AgedType DEF Row

\* What one step may do to a row that is not about to be claimed: nothing
\* that a settled row, or a running row whose lease ran out, must fear.
LEMMA StepOnUnclaimableRow ==
  ASSUME LedgerInv, [Next]_ledgerVars, NEW j \in Jobs,
         jobs[j].state \in Terminal \cup {"running"},
         jobs[j].lease = 0
  PROVE  /\ jobs[j].state \in Terminal =>
              \/ jobs'[j].state = jobs[j].state /\ jobs'[j].attempt = jobs[j].attempt
              \/ jobs'[j] = NoRow /\ jobs[j].age >= PruneAfterMs
         /\ jobs[j].state = "running" =>
              jobs'[j].lease = 0 /\ jobs'[j].attempt = jobs[j].attempt
<1> DEFINE Fine(r) == /\ jobs[j].state \in Terminal =>
                           \/ r.state = jobs[j].state /\ r.attempt = jobs[j].attempt
                           \/ r = NoRow /\ jobs[j].age >= PruneAfterMs
                      /\ jobs[j].state = "running" =>
                           r.lease = 0 /\ r.attempt = jobs[j].attempt
<1> SUFFICES Fine(jobs'[j])
  OBVIOUS
<1>a. /\ jobs \in [Jobs -> Row] /\ jobs[j] \in Row
      /\ Fine(jobs[j])
      /\ jobs[j].state \in Terminal => jobs[j].leaseOwner = None
      /\ j \in issued
  BY DEF LedgerInv, TypeOK, LeaseMatchesState, RowsWereIssued, Terminal
<1>1. ASSUME NEW i \in Jobs, NEW d \in Delays, Enqueue(i, d)
      PROVE  Fine(jobs'[j])
  <2>1. i # j
    BY <1>1, <1>a DEF Enqueue
  <2> QED BY <1>1, <1>a, <2>1 DEF Enqueue
<1>2. ASSUME NEW o \in Owners, NEW i \in Jobs, Claim(o, i)
      PROVE  Fine(jobs'[j])
  <2>1. i # j
    BY <1>2 DEF Claim, Claimable, Terminal
  <2> QED BY <1>2, <1>a, <2>1 DEF Claim
<1>3. ASSUME NEW i \in Jobs, NEW o \in Owners, Complete(i, o)
      PROVE  Fine(jobs'[j])
  <2>1. CASE i # j
    BY <1>3, <1>a, <2>1 DEF Complete
  <2>2. CASE i = j
    <3>1. jobs[j].state = "running"
      BY <1>3, <1>a, <2>2, OwnersAssumption DEF Complete
    <3> QED BY <1>3, <1>a, <2>2, <3>1 DEF Complete, Row, Terminal
  <2> QED BY <2>1, <2>2
<1>4. ASSUME NEW i \in Jobs, NEW o \in Owners, NEW d \in Delays, Fail(i, o, d)
      PROVE  Fine(jobs'[j])
  <2>1. CASE i # j
    BY <1>4, <1>a, <2>1 DEF Fail
  <2>2. CASE i = j
    <3>1. jobs[j].state = "running"
      BY <1>4, <1>a, <2>2, OwnersAssumption DEF Fail
    <3>2. jobs'[j] = Released(j, d)
      BY <1>4, <1>a, <2>2 DEF Fail
    <3>3. Released(j, d).lease = 0 /\ Released(j, d).attempt = jobs[j].attempt
      BY TimesAssumption, ReleasedType DEF LedgerInv
    <3> QED BY <3>1, <3>2, <3>3 DEF Terminal
  <2> QED BY <2>1, <2>2
<1>5. ASSUME NEW i \in Jobs, NEW o \in Owners, Renew(i, o)
      PROVE  Fine(jobs'[j])
  <2>1. i # j
    BY <1>5, <1>a DEF Renew, Row
  <2> QED BY <1>5, <1>a, <2>1 DEF Renew
<1>6. ASSUME ReclaimExpired
      PROVE  Fine(jobs'[j])
  <2>1. CASE j \notin Expired
    BY <1>6, <1>a, <2>1 DEF ReclaimExpired
  <2>2. CASE j \in Expired
    <3>1. jobs[j].state = "running" /\ jobs'[j] = Released(j, jobs[j].delay)
      BY <1>6, <2>2 DEF ReclaimExpired, Expired
    <3>2. jobs[j].delay \in Nat
      BY <1>a DEF Row
    <3>3. /\ Released(j, jobs[j].delay).lease = 0
          /\ Released(j, jobs[j].delay).attempt = jobs[j].attempt
      BY <3>2, ReleasedType DEF LedgerInv
    <3> QED BY <3>1, <3>3 DEF Terminal
  <2> QED BY <2>1, <2>2
<1>7. ASSUME Prune
      PROVE  Fine(jobs'[j])
  <2>1. CASE j \notin Prunable
    BY <1>7, <1>a, <2>1 DEF Prune
  <2>2. CASE j \in Prunable
    BY <1>7, <2>2 DEF Prune, Prunable, Terminal
  <2> QED BY <2>1, <2>2
<1>8. ASSUME Tick
      PROVE  Fine(jobs'[j])
  <2>1. jobs'[j] = Aged(jobs[j])
    BY <1>8 DEF Tick
  <2> QED BY <1>a, <2>1, AgedType
<1>9. ASSUME UNCHANGED ledgerVars
      PROVE  Fine(jobs'[j])
  BY <1>9, <1>a DEF ledgerVars
<1> HIDE DEF Fine
<1> QED
  BY <1>1, <1>2, <1>3, <1>4, <1>5, <1>6, <1>7, <1>8, <1>9 DEF Next

\* A settled job is settled for good: a late complete() or fail() of a worker
\* that lost its lease finds no row it may change.
THEOREM Settled == Spec => SettledIsFinal
<1> DEFINE Body == \A j \in Jobs : jobs[j].state \in Terminal =>
          \/ jobs'[j].state = jobs[j].state /\ jobs'[j].attempt = jobs[j].attempt
          \/ jobs'[j] = NoRow /\ jobs[j].age >= PruneAfterMs
<1>1. LedgerInv /\ [Next]_ledgerVars => Body
  <2> SUFFICES ASSUME LedgerInv, [Next]_ledgerVars, NEW j \in Jobs,
                      jobs[j].state \in Terminal
               PROVE  \/ /\ jobs'[j].state = jobs[j].state
                         /\ jobs'[j].attempt = jobs[j].attempt
                      \/ jobs'[j] = NoRow /\ jobs[j].age >= PruneAfterMs
    OBVIOUS
  <2>1. jobs[j].lease = 0
    BY DEF LedgerInv, TypeOK, Row, LeaseMatchesState, Terminal
  <2> QED BY <2>1, StepOnUnclaimableRow
<1> QED BY <1>1, LedgerSafe, PTL DEF Spec, SettledIsFinal

\* renew() never revives a lease that ran out.
THEOREM LeaseStaysLost == Spec => LostLeaseStaysLost
<1> DEFINE Body == \A j \in Jobs :
          jobs[j].state = "running" /\ jobs[j].lease = 0 =>
             jobs'[j].lease = 0 /\ jobs'[j].attempt = jobs[j].attempt
<1>1. LedgerInv /\ [Next]_ledgerVars => Body
  BY StepOnUnclaimableRow
<1> QED BY <1>1, LedgerSafe, PTL DEF Spec, LostLeaseStaysLost

\* Every statement of the ledger is a step of the lifecycle, or invisible to it.
LEMMA StepSimulation ==
  LedgerInv /\ LedgerInv' /\ [Next]_ledgerVars => [Abstract!Next]_(Abstract!lvars)
<1> SUFFICES ASSUME LedgerInv, LedgerInv', [Next]_ledgerVars
             PROVE  Abstract!Next \/ UNCHANGED Abstract!lvars
  OBVIOUS
<1> USE DEF LedgerInv
<1>t. /\ jobs \in [Jobs -> Row] /\ jobs' \in [Jobs -> Row]
      /\ \A j \in Jobs : jobs[j] \in Row /\ jobs'[j] \in Row
  BY DEF TypeOK
<1>1. ASSUME NEW j \in Jobs, NEW d \in Delays, Enqueue(j, d)
      PROVE  Abstract!Next
  <2>1. /\ jobs[j].state = "absent" /\ j \notin issued
        /\ jobs[j].attempt = 0 /\ jobs[j].leaseOwner = None
    BY <1>1 DEF Enqueue, RowsWereIssued, AttemptsWithinBudget, LeaseMatchesState
  <2>2. /\ jobs'[j].state = "queued"
        /\ jobs'[j].attempt = 0 /\ jobs'[j].leaseOwner = None
        /\ \A k \in Jobs \ {j} : /\ jobs'[k] = jobs[k]
                                 /\ k \in issued' <=> k \in issued
    BY <1>1, <1>t DEF Enqueue, NoRow
  <2>3. \A k \in Jobs : StatusOf(k)' = IF k = j THEN "waiting" ELSE StatusOf(k)
    BY <2>2 DEF StatusOf
  <2>4. StatusOf(j) = "unknown"
    BY <2>1 DEF StatusOf
  <2>5. Abstract!Submit(j)
    BY <2>1, <2>2, <2>3, <2>4 DEF Abstract!Submit
  <2> QED BY <2>5 DEF Abstract!Next
<1>2. ASSUME NEW o \in Owners, NEW j \in Jobs, Claim(o, j)
      PROVE  Abstract!Next
  <2>1. Abstract!Take(j, o)
    BY ZenonT(60), <1>2, <1>t DEF Claim, Claimable, Abstract!Take, StatusOf, Row, States,
       AttemptsWithinBudget
  <2> QED BY <2>1 DEF Abstract!Next
<1>3. ASSUME NEW j \in Jobs, NEW o \in Owners, Complete(j, o)
      PROVE  Abstract!Next
  <2>1. jobs[j].state = "running"
    BY <1>3, OwnersAssumption DEF Complete, LeaseMatchesState
  <2>2. Abstract!Finish(j)
    BY ZenonT(60), <1>3, <1>t, <2>1 DEF Complete, Abstract!Finish, StatusOf, Row, States
  <2> QED BY <2>2 DEF Abstract!Next
<1>4. ASSUME NEW S \in SUBSET Jobs, S # {}, UNCHANGED issued,
             \A j \in Jobs \ S : jobs'[j] = jobs[j],
             \A j \in S : /\ jobs[j].state = "running"
                          /\ jobs'[j].attempt = jobs[j].attempt
                          /\ jobs'[j].leaseOwner = None
                          /\ jobs'[j].state = IF jobs[j].attempt < MaxAttempts[j]
                                              THEN "retrying" ELSE "failed"
      PROVE  Abstract!Next
  <2>1. \A j \in Jobs : StatusOf(j)' =
           IF j \notin S THEN StatusOf(j)
           ELSE IF jobs[j].attempt < MaxAttempts[j] THEN "waiting" ELSE "dead"
    BY <1>4 DEF StatusOf
  <2>2. \A j \in S : StatusOf(j) = "held"
    BY <1>4 DEF StatusOf
  <2>3. Abstract!GiveBack(S)
    BY <1>4, <2>1, <2>2 DEF Abstract!GiveBack
  <2> QED BY <2>3 DEF Abstract!Next
<1>5. ASSUME NEW j \in Jobs, NEW o \in Owners, NEW d \in Delays, Fail(j, o, d)
      PROVE  Abstract!Next
  <2>1. jobs[j].state = "running"
    BY <1>5, OwnersAssumption DEF Fail, LeaseMatchesState
  <2>2. /\ jobs'[j] = Released(j, d) /\ d \in Nat /\ UNCHANGED issued
        /\ \A k \in Jobs \ {j} : jobs'[k] = jobs[k]
    BY <1>5, <1>t, TimesAssumption DEF Fail
  <2>3. /\ jobs'[j].attempt = jobs[j].attempt
        /\ jobs'[j].leaseOwner = None
        /\ jobs'[j].state = IF jobs[j].attempt < MaxAttempts[j]
                            THEN "retrying" ELSE "failed"
    BY <2>2, ReleasedType
  <2> DEFINE S == {j}
  <2>4. S \in SUBSET Jobs /\ S # {} /\ \A i \in S : i = j
    OBVIOUS
  <2>5. \A k \in Jobs \ S : jobs'[k] = jobs[k]
    BY <2>2
  <2> HIDE DEF S
  <2> QED BY <1>4, <2>1, <2>2, <2>3, <2>4, <2>5
<1>6. ASSUME ReclaimExpired
      PROVE  Abstract!Next
  <2>1. /\ Expired \in SUBSET Jobs /\ Expired # {} /\ UNCHANGED issued
        /\ \A j \in Jobs \ Expired : jobs'[j] = jobs[j]
        /\ \A j \in Expired : /\ jobs[j].state = "running"
                              /\ jobs'[j] = Released(j, jobs[j].delay)
    BY <1>6 DEF ReclaimExpired, Expired
  <2>2. \A j \in Jobs : jobs[j].delay \in Nat
    BY <1>t DEF Row
  <2>3. \A j \in Expired : /\ jobs'[j].attempt = jobs[j].attempt
                           /\ jobs'[j].leaseOwner = None
                           /\ jobs'[j].state = IF jobs[j].attempt < MaxAttempts[j]
                                               THEN "retrying" ELSE "failed"
    BY <2>1, <2>2, ReleasedType
  <2> QED BY <1>4, <2>1, <2>3
<1>7. ASSUME Prune
      PROVE  Abstract!Next
  <2>1. /\ Prunable \in SUBSET Jobs /\ Prunable # {} /\ UNCHANGED issued
        /\ \A j \in Jobs \ Prunable : jobs'[j] = jobs[j]
        /\ \A j \in Prunable : jobs[j].state \in Terminal /\ jobs'[j] = NoRow
    BY <1>7 DEF Prune, Prunable
  <2>2. \A j \in Prunable : /\ StatusOf(j) \in {"done", "dead"}
                            /\ jobs[j].leaseOwner = None
                            /\ j \in issued
    BY <2>1 DEF StatusOf, Terminal, LeaseMatchesState, RowsWereIssued
  <2>3. \A j \in Jobs : StatusOf(j)' = IF j \in Prunable THEN "gone" ELSE StatusOf(j)
    BY <2>1, <2>2 DEF StatusOf, NoRow
  <2>4. \A j \in Jobs : /\ jobs'[j].attempt = IF j \in Prunable THEN 0
                                              ELSE jobs[j].attempt
                        /\ jobs'[j].leaseOwner = jobs[j].leaseOwner
    BY <2>1, <2>2 DEF NoRow
  <2>5. PICK S \in SUBSET Jobs : S = Prunable
    BY <2>1
  <2>6. Abstract!Forget(S)
    BY <2>1, <2>2, <2>3, <2>4, <2>5 DEF Abstract!Forget
  <2> QED BY <2>6 DEF Abstract!Next
<1>8. ASSUME UNCHANGED issued,
             \A j \in Jobs : /\ jobs'[j].state = jobs[j].state
                             /\ jobs'[j].attempt = jobs[j].attempt
                             /\ jobs'[j].leaseOwner = jobs[j].leaseOwner
      PROVE  UNCHANGED Abstract!lvars
  <2>1. \A j \in Jobs : StatusOf(j)' = StatusOf(j)
    BY <1>8 DEF StatusOf
  <2> QED BY <1>8, <2>1 DEF Abstract!lvars
<1>9. ASSUME NEW j \in Jobs, NEW o \in Owners, Renew(j, o)
      PROVE  UNCHANGED Abstract!lvars
  BY <1>8, <1>9, <1>t DEF Renew, Row
<1>10. ASSUME Tick
       PROVE  UNCHANGED Abstract!lvars
  BY <1>8, <1>10, <1>t, AgedType DEF Tick
<1>11. ASSUME UNCHANGED ledgerVars
       PROVE  UNCHANGED Abstract!lvars
  BY <1>8, <1>11 DEF ledgerVars
<1> QED
  BY <1>1, <1>2, <1>3, <1>5, <1>6, <1>7, <1>9, <1>10, <1>11 DEF Next

\* The ledger implements the job lifecycle: handed to one worker at a time,
\* within its budget, settled at most once, forgotten only after that.
THEOREM Refinement == Spec => ImplementsLifecycle
<1>1. Init => Abstract!Init
  BY DEF Init, Abstract!Init, StatusOf, NoRow
<1>2. LedgerInv /\ LedgerInv' /\ [Next]_ledgerVars => [Abstract!Next]_(Abstract!lvars)
  BY StepSimulation
<1> QED BY <1>1, <1>2, LedgerSafe, PTL DEF Spec, ImplementsLifecycle, Abstract!Spec
-----------------------------------------------------------------------------
(* The store in memory: what renew() does to an expired lease there is the *)
(* one step that the SQLite store does not have.                           *)

LEMMA MemStepCases ==
  ASSUME [MemNext]_ledgerVars
  PROVE  [Next]_ledgerVars \/ \E j \in Jobs, o \in Owners : MemRenew(j, o)
  BY DEF MemNext, Next

\* A renewal changes nothing of a running row but its lease.
LEMMA MemRenewEffect ==
  ASSUME LedgerInv, NEW j \in Jobs, NEW o \in Owners, MemRenew(j, o)
  PROVE  /\ UNCHANGED <<issued, stamp>>
         /\ jobs[j].state = "running"
         /\ jobs'[j] = [jobs[j] EXCEPT !.lease = LeaseMs]
         /\ \A k \in Jobs \ {j} : jobs'[k] = jobs[k]
         /\ \A k \in Jobs : /\ jobs'[k].state = jobs[k].state
                            /\ jobs'[k].attempt = jobs[k].attempt
                            /\ jobs'[k].leaseOwner = jobs[k].leaseOwner
                            /\ jobs'[k].delay = jobs[k].delay
  BY OwnersAssumption DEF MemRenew, LedgerInv, TypeOK, Row, LeaseMatchesState

\* Every step of the store in memory keeps the invariant of the ledger.
LEMMA MemStepInv == LedgerInv /\ [MemNext]_ledgerVars => LedgerInv'
<1>1. ASSUME LedgerInv, NEW j \in Jobs, NEW o \in Owners, MemRenew(j, o)
      PROVE  LedgerInv'
  <2>1. TypeOK'
    BY <1>1, TimesAssumption DEF MemRenew, LedgerInv, TypeOK, Row
  <2>2. \A k \in Jobs : jobs'[k].lease > 0 => jobs'[k].state = "running"
    <3>1. \A k \in Jobs \ {j} : jobs'[k] = jobs[k]
      BY <1>1, MemRenewEffect
    <3>2. jobs'[j].state = "running"
      BY <1>1, MemRenewEffect
    <3> QED BY <1>1, <3>1, <3>2 DEF LedgerInv, LeaseMatchesState
  <2>3. AttemptsWithinBudget'
    BY <1>1, MemRenewEffect DEF LedgerInv, AttemptsWithinBudget
  <2>4. LeaseMatchesState' /\ RowsWereIssued' /\ NoDelayOnceTaken'
    BY <1>1, <2>2, MemRenewEffect DEF LedgerInv, LeaseMatchesState, RowsWereIssued, NoDelayOnceTaken
  <2> QED BY <2>1, <2>3, <2>4 DEF LedgerInv
<1> QED BY <1>1, MemStepCases, StepInv

\* The inductive invariant holds of the store in memory too.
THEOREM MemLedgerSafe == MemSpec => []LedgerInv
  BY InitInv, MemStepInv, PTL DEF MemSpec

\* A job that has settled in memory is settled for good: a late renew() finds
\* no owner to renew.
THEOREM MemSettled == MemSpec => SettledIsFinal
<1> DEFINE Body == \A j \in Jobs : jobs[j].state \in Terminal =>
          \/ jobs'[j].state = jobs[j].state /\ jobs'[j].attempt = jobs[j].attempt
          \/ jobs'[j] = NoRow /\ jobs[j].age >= PruneAfterMs
<1>1. LedgerInv /\ [MemNext]_ledgerVars => Body
  <2> SUFFICES ASSUME LedgerInv, [MemNext]_ledgerVars, NEW j \in Jobs,
                      jobs[j].state \in Terminal
               PROVE  \/ /\ jobs'[j].state = jobs[j].state
                         /\ jobs'[j].attempt = jobs[j].attempt
                      \/ jobs'[j] = NoRow /\ jobs[j].age >= PruneAfterMs
    OBVIOUS
  <2>1. CASE \E k \in Jobs, o \in Owners : MemRenew(k, o)
    BY <2>1, MemRenewEffect
  <2>2. CASE [Next]_ledgerVars
    <3>1. jobs[j].lease = 0
      BY DEF LedgerInv, TypeOK, Row, LeaseMatchesState, Terminal
    <3> QED BY <2>2, <3>1, StepOnUnclaimableRow
  <2> QED BY <2>1, <2>2, MemStepCases
<1> QED BY <1>1, MemLedgerSafe, PTL DEF MemSpec, SettledIsFinal

\* Both stores keep the contract of a JobStore: the renewal that revives a lease
\* is invisible to it.
THEOREM MemRefinement == MemSpec => ImplementsLifecycle
<1>1. Init => Abstract!Init
  BY DEF Init, Abstract!Init, StatusOf, NoRow
<1>2. LedgerInv /\ LedgerInv' /\ [MemNext]_ledgerVars => [Abstract!Next]_(Abstract!lvars)
  <2>1. ASSUME LedgerInv, NEW j \in Jobs, NEW o \in Owners, MemRenew(j, o)
        PROVE  UNCHANGED Abstract!lvars
    <3>1. \A k \in Jobs : StatusOf(k)' = StatusOf(k)
      BY <2>1, MemRenewEffect DEF StatusOf
    <3> QED BY <2>1, <3>1, MemRenewEffect DEF Abstract!lvars
  <2> QED BY <2>1, MemStepCases, StepSimulation
<1> QED BY <1>1, <1>2, MemLedgerSafe, PTL DEF MemSpec, ImplementsLifecycle, Abstract!Spec
=============================================================================
