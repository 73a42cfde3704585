------------------------ MODULE ServerProcessProofs -------------------------
(***************************************************************************)
(* Theorems about a server process that shuts down, for every role, every  *)
(* deadline, any number of background jobs, slots and places in the queue. *)
(* The shutdown sequence and the job queue are proved about separately,    *)
(* and then what ties them: the phase that stops the jobs.  The leases on  *)
(* which server processes agree come last.                                 *)
(***************************************************************************)
EXTENDS ServerProcess, RedisLock, SequenceTheorems, FiniteSetTheorems, TLAPS

Ended == {"completed", "failed", "timeout", "skipped"}

\* The phases before the present one have ended, those after it have not begun.
PhasesInOrder ==
    \A k \in 1..Len(Phases) :
       /\ k < at => status[Phases[k]] \in Ended
       /\ k = at => status[Phases[k]] \in {"pending", "running"}
       /\ k > at => status[Phases[k]] = "pending"

\* A body that has not ended is awaited, timed out, or was never awaited.
ActiveIsKnown ==
    /\ \A n \in active : status[n] \in {"running", "timeout"} \/ n \in Detached
    /\ \A n \in Names : status[n] = "running" => n \in Async

\* A phase is left or skipped only with the budget spent, which it then stays.
BudgetIsSpent == \A n \in Names : status[n] \in {"skipped", "timeout"} => left = 0

\* Storage is closed only after phases that all ran to their end.
NothingLeftBefore ==
    status["close-storage"] \in {"completed", "failed"} =>
       \A n \in Names : status[n] \in {"completed", "failed"}

\* The process exits at the end of the sequence, with an honest code.
ExitIsLast == /\ exit # "none" => at = Done
              /\ exit = "0" => \A n \in Names : status[n] = "completed"
              /\ ~signalled => at = 0

\* The inductive invariant of the shutdown sequence.
SequenceInv == /\ TypeOK
               /\ PhasesInOrder /\ ActiveIsKnown /\ BudgetIsSpent
               /\ NothingLeftBefore /\ ExitIsLast

\* The queue holds the jobs that wait, each once; a job that is being worked on
\* has a slot, and one that waits has none.
JobsAreKept ==
    /\ \A i, k \in 1..Len(queue) : queue[i] = queue[k] => i = k
    /\ \A i \in 1..Len(queue) : phase[queue[i]] = "queued"
    /\ \A j \in Jobs :
          /\ phase[j] = "queued" => \E i \in 1..Len(queue) : queue[i] = j
          /\ phase[j] \in {"handler", "backoff"} => j \in running
          /\ j \in running => phase[j] \in {"handler", "backoff"} \cup Q!Outcomes
          /\ phase[j] = "backoff" => attempt[j] < MaxAttempts

\* No more jobs run than there are slots.
SlotsAreBounded == IsFiniteSet(running) /\ Cardinality(running) <= Concurrency

\* The inductive invariant of the job queue.
QueueInv == Q!TypeOK /\ JobsAreKept /\ SlotsAreBounded /\ NoIdleSlot

\* What ties the two: the phase stop-jobs closes the queue, and ends well or
\* badly, but not by a timeout, only when nothing is left in it.
StopJobsIsTrue ==
    /\ status["stop-jobs"] \in {"running", "timeout", "completed", "failed"} => closed
    /\ status["stop-jobs"] \in {"completed", "failed"} => JobsDrained

\* The inductive invariant.
ProcessInv == SequenceInv /\ QueueInv /\ StopJobsIsTrue
-----------------------------------------------------------------------------
\* What the proofs use of the list of phases: its elements are distinct, the
\* last one closes the storage, and one before it stops the jobs.
LEMMA PhaseList ==
  /\ Len(Phases) \in Nat /\ Len(Phases) >= 1
  /\ \A i, k \in 1..Len(Phases) : Phases[i] = Phases[k] => i = k
  /\ \A k \in 1..Len(Phases) : Phases[k] \in Names
  /\ \A n \in Names : \E k \in 1..Len(Phases) : n = Phases[k]
  /\ Phases[Len(Phases)] = "close-storage"
  /\ "close-storage" \in Names /\ "stop-jobs" \in Names
  BY DEF Phases, Names, ToSet

\* Nothing has begun at first.
LEMMA SequenceInit == Init => SequenceInv
<1> SUFFICES ASSUME Init
             PROVE  SequenceInv
  OBVIOUS
<1>1. TypeOK
  <2>1. /\ 0 \in 0..Done /\ 0 \in 0..DeadlineMs /\ 0 \in 0..ServerMs
    BY ProcessAssumption, PhaseList DEF Done, ShutdownAssumption
  <2> QED BY <2>1 DEF Init, TypeOK
<1>2. PhasesInOrder /\ ActiveIsKnown /\ BudgetIsSpent /\ NothingLeftBefore /\ ExitIsLast
  BY PhaseList DEF Init, PhasesInOrder, ActiveIsKnown, BudgetIsSpent,
     NothingLeftBefore, ExitIsLast
<1> QED BY <1>1, <1>2 DEF SequenceInv

\* One phase, the present one, gets the status s and the sequence goes on, or
\* stays where it is if s says that the phase runs.
LEMMA OnePhase ==
  ASSUME SequenceInv, at \in 1..Len(Phases), exit = "none",
         NEW s \in {"running", "completed", "failed", "skipped"},
         status' = [status EXCEPT ![Current] = s],
         at' = IF s = "running" THEN at ELSE at + 1,
         s = "running" => Current \in Async,
         s = "skipped" => left = 0,
         s # "skipped" => left > 0 \/ status[Current] = "running",
         active' \subseteq (IF s = "running" THEN active \cup {Current}
                            ELSE (active \ {Current}) \cup Detached),
         active' \subseteq Names,
         serverLeft' \in 0..ServerMs,
         UNCHANGED <<left, busy, signalled, exit>>
  PROVE  SequenceInv'
<1> USE DEF SequenceInv
<1>1. /\ Current \in Names /\ Current = Phases[at]
      /\ status \in [Names -> {"pending", "running", "completed", "failed",
                               "timeout", "skipped"}]
      /\ at \in Nat /\ Len(Phases) \in Nat /\ at' \in 0..Done
      /\ signalled
  BY PhaseList DEF TypeOK, Current, Done, ExitIsLast
<1>2. /\ status'[Current] = s
      /\ \A n \in Names : n # Current => status'[n] = status[n]
  BY <1>1
<1>3. \A k \in 1..Len(Phases) : k # at => status'[Phases[k]] = status[Phases[k]]
  BY <1>1, <1>2, PhaseList
<1>4. TypeOK'
  BY <1>1 DEF TypeOK
<1>5. PhasesInOrder'
  BY <1>1, <1>2, <1>3 DEF PhasesInOrder, Ended
<1>6. ActiveIsKnown'
  <2>1. \A n \in Names : status'[n] = "running" => n \in Async
    BY <1>2 DEF ActiveIsKnown
  <2>2. \A n \in active' : status'[n] \in {"running", "timeout"} \/ n \in Detached
    BY <1>2 DEF ActiveIsKnown, TypeOK
  <2> QED BY <2>1, <2>2 DEF ActiveIsKnown
<1>7. BudgetIsSpent'
  BY <1>2 DEF BudgetIsSpent
<1>8. NothingLeftBefore'
  <2> SUFFICES ASSUME status'["close-storage"] \in {"completed", "failed"}
               PROVE  \A n \in Names : status'[n] \in {"completed", "failed"}
    BY DEF NothingLeftBefore
  <2>1. at = Len(Phases)
    <3>1. CASE at # Len(Phases)
      <4>1. /\ status'["close-storage"] = status["close-storage"]
            /\ Len(Phases) \in 1..Len(Phases) /\ Len(Phases) > at
        BY <1>1, <1>3, <3>1, PhaseList
      <4>2. status["close-storage"] = "pending"
        BY <4>1, PhaseList DEF PhasesInOrder
      <4> QED BY <4>1, <4>2
    <3> QED BY <3>1
  <2>2. Current = "close-storage"
    BY <1>1, <2>1, PhaseList
  <2>3. s \in {"completed", "failed"}
    BY <1>2, <2>2
  <2>4. status[Current] # "running"
    BY <1>1, <2>2 DEF ActiveIsKnown, Async
  <2>5. left # 0
    BY <2>3, <2>4, ProcessAssumption DEF TypeOK, ShutdownAssumption
  <2>6. \A k \in 1..Len(Phases) : k # at => status[Phases[k]] \in {"completed", "failed"}
    <3> SUFFICES ASSUME NEW k \in 1..Len(Phases), k # at
                 PROVE  status[Phases[k]] \in {"completed", "failed"}
      OBVIOUS
    <3>1. k < at
      BY <1>1, <2>1
    <3>2. status[Phases[k]] \in Ended /\ Phases[k] \in Names
      BY <3>1, PhaseList DEF PhasesInOrder
    <3> QED BY <2>5, <3>2 DEF BudgetIsSpent, Ended
  <2> QED BY <1>2, <1>3, <2>3, <2>6, <1>1, PhaseList
<1>9. ExitIsLast'
  BY <1>1 DEF ExitIsLast
<1> QED BY <1>4, <1>5, <1>6, <1>7, <1>8, <1>9

\* Every step of the coordinator, and of what it waits for, keeps the invariant.
LEMMA SequenceStepInv == SequenceInv /\ [Next]_vars => SequenceInv'
<1> SUFFICES ASSUME SequenceInv, [Next]_vars
             PROVE  SequenceInv'
  OBVIOUS
<1> USE DEF SequenceInv
<1>t. /\ at \in 1..Len(Phases) => /\ exit = "none" /\ Current \in Names
                                  /\ at \in Nat
      /\ left \in Nat
      /\ Len(Phases) \in Nat /\ DeadlineMs \in Nat \ {0} /\ ServerMs \in Nat
  BY PhaseList, ProcessAssumption
     DEF TypeOK, ExitIsLast, Current, Done, ShutdownAssumption
<1>1. ASSUME Signal
      PROVE  SequenceInv'
  <2>1. /\ at = 0 /\ exit = "none" /\ at' = 1 /\ left' = DeadlineMs
        /\ signalled' = TRUE
        /\ UNCHANGED <<status, active, serverLeft, busy, exit>>
    BY <1>1 DEF Signal, ExitIsLast
  <2>2. \A n \in Names : status[n] = "pending"
    BY <1>t, <2>1, PhaseList DEF PhasesInOrder
  <2>3. TypeOK'
    BY <1>t, <2>1, PhaseList DEF TypeOK, Done
  <2>4. PhasesInOrder' /\ BudgetIsSpent'
    BY <2>1, <2>2, PhaseList DEF PhasesInOrder, BudgetIsSpent
  <2>5. ActiveIsKnown' /\ NothingLeftBefore' /\ ExitIsLast'
    BY <2>1 DEF ActiveIsKnown, NothingLeftBefore, ExitIsLast
  <2> QED BY <2>3, <2>4, <2>5
<1>2. ASSUME Skip
      PROVE  SequenceInv'
  <2>1. active \subseteq (active \ {Current}) \cup Detached
    BY <1>2, <1>t DEF Skip, ActiveIsKnown
  <2>2. "skipped" \in {"running", "completed", "failed", "skipped"}
    OBVIOUS
  <2> QED BY <1>2, <1>t, <2>1, <2>2, OnePhase DEF Skip, TypeOK
<1>3. ASSUME Start
      PROVE  SequenceInv'
  <2>1. CASE /\ Current \in Async
             /\ status' = [status EXCEPT ![Current] = "running"]
             /\ active' = active \cup {Current}
             /\ serverLeft' = IF Current = "stop-accepting" THEN ServerMs ELSE serverLeft
             /\ UNCHANGED at
    <3>1. /\ at \in 1..Len(Phases) /\ left > 0
          /\ UNCHANGED <<left, busy, signalled, exit>>
      BY <1>3 DEF Start
    <3>2. serverLeft' \in 0..ServerMs /\ active' \subseteq Names
      BY <1>t, <2>1, <3>1 DEF TypeOK
    <3> QED BY <1>t, <2>1, <3>1, <3>2, OnePhase
  <2>2. CASE /\ Current \notin Async
             /\ \E s \in Endings(Current) : status' = [status EXCEPT ![Current] = s]
             /\ active' = active \cup (IF busy THEN Detached \cap {Current} ELSE {})
             /\ at' = at + 1
             /\ UNCHANGED serverLeft
    <3>1. /\ at \in 1..Len(Phases) /\ left > 0 /\ status[Current] = "pending"
          /\ UNCHANGED <<left, busy, signalled, exit>>
      BY <1>3 DEF Start
    <3>2. PICK s \in {"completed", "failed"} : status' = [status EXCEPT ![Current] = s]
      BY <2>2 DEF Endings
    <3>3. active' \subseteq (active \ {Current}) \cup Detached
      BY <2>2, <3>1 DEF ActiveIsKnown
    <3>4. serverLeft' \in 0..ServerMs /\ active' \subseteq Names
      BY <1>t, <2>2, <3>1 DEF TypeOK
    <3>5. s \in {"running", "completed", "failed", "skipped"} /\ s # "running" /\ s # "skipped"
      OBVIOUS
    <3> QED BY <1>t, <2>2, <3>1, <3>2, <3>3, <3>4, <3>5, OnePhase
  <2> QED BY <1>3, <2>1, <2>2 DEF Start
<1>4. ASSUME Settle
      PROVE  SequenceInv'
  <2>1. /\ at \in 1..Len(Phases) /\ status[Current] = "running"
        /\ active' = active \ {Current} /\ at' = at + 1
        /\ UNCHANGED <<left, serverLeft, busy, signalled, exit>>
    BY <1>4 DEF Settle
  <2>2. PICK s \in {"completed", "failed"} : status' = [status EXCEPT ![Current] = s]
    BY <1>4 DEF Settle, Endings
  <2>3. /\ s \in {"running", "completed", "failed", "skipped"} /\ s # "running" /\ s # "skipped"
        /\ active' \subseteq (active \ {Current}) \cup Detached
        /\ serverLeft' \in 0..ServerMs /\ active' \subseteq Names
    BY <2>1 DEF TypeOK
  <2> QED BY <1>t, <2>1, <2>2, <2>3, OnePhase
<1>5. ASSUME Timeout
      PROVE  SequenceInv'
  <2>1. /\ at \in 1..Len(Phases) /\ status[Current] = "running" /\ left = 0
        /\ status' = [n \in Names |-> IF n = Current THEN "timeout"
                                      ELSE IF n \in Later(at) THEN "skipped"
                                      ELSE status[n]]
        /\ at' = Done
        /\ UNCHANGED <<active, left, serverLeft, busy, signalled, exit>>
    BY <1>5 DEF Timeout
  <2>2. TypeOK'
    BY <1>t, <2>1 DEF TypeOK, Done
  <2>3. \A k \in 1..Len(Phases) :
           status'[Phases[k]] = IF k = at THEN "timeout"
                                ELSE IF k > at THEN "skipped" ELSE status[Phases[k]]
    <3> SUFFICES ASSUME NEW k \in 1..Len(Phases)
                 PROVE  status'[Phases[k]] = IF k = at THEN "timeout"
                                             ELSE IF k > at THEN "skipped"
                                             ELSE status[Phases[k]]
      OBVIOUS
    <3>1. Phases[k] \in Names /\ (Phases[k] = Current <=> k = at)
      BY <2>1, PhaseList DEF Current
    <3>2. Phases[k] \in Later(at) <=> k > at
      BY <1>t, PhaseList DEF Later
    <3> QED BY <2>1, <3>1, <3>2
  <2>4. \A k \in 1..Len(Phases) : status'[Phases[k]] \in Ended
    <3> SUFFICES ASSUME NEW k \in 1..Len(Phases)
                 PROVE  status'[Phases[k]] \in Ended
      OBVIOUS
    <3>1. CASE k < at
      BY <1>t, <2>1, <2>3, <3>1 DEF PhasesInOrder
    <3>2. CASE k >= at
      BY <1>t, <2>1, <2>3, <3>2 DEF Ended
    <3> QED BY <1>t, <2>1, <3>1, <3>2
  <2>5. PhasesInOrder'
    BY <1>t, <2>1, <2>4 DEF PhasesInOrder, Done
  <2>6. ActiveIsKnown'
    <3>1. \A n \in Names : status'[n] # "running"
      BY <2>4, PhaseList DEF Ended
    <3>2. \A n \in active : status'[n] = "timeout" \/ n \in Detached
      <4> SUFFICES ASSUME NEW n \in active, n \notin Detached
                   PROVE  status'[n] = "timeout"
        OBVIOUS
      <4>1. PICK k \in 1..Len(Phases) : n = Phases[k]
        BY PhaseList DEF TypeOK
      <4>2. status[n] \in {"running", "timeout"}
        BY DEF ActiveIsKnown
      <4> QED BY <1>t, <2>1, <2>3, <4>1, <4>2 DEF PhasesInOrder, Ended
    <3> QED BY <2>1, <3>1, <3>2 DEF ActiveIsKnown
  <2>7. BudgetIsSpent' /\ ExitIsLast'
    BY <1>t, <2>1 DEF BudgetIsSpent, ExitIsLast
  <2>8. NothingLeftBefore'
    <3>1. at # Len(Phases)
      BY <1>t, <2>1, PhaseList DEF ActiveIsKnown, Async, Current
    <3>2. Len(Phases) \in 1..Len(Phases) /\ Len(Phases) > at
      BY <1>t, <2>1, <3>1
    <3>3. status'["close-storage"] = "skipped"
      BY <2>3, <3>2, PhaseList
    <3> QED BY <3>3 DEF NothingLeftBefore
  <2> QED BY <2>2, <2>5, <2>6, <2>7, <2>8
<1>6. ASSUME Exit
      PROVE  SequenceInv'
  <2>1. /\ at = Done /\ exit = "none" /\ exit' = IF Clean THEN "0" ELSE "1"
        /\ UNCHANGED <<at, status, active, left, serverLeft, busy, signalled>>
    BY <1>6 DEF Exit
  <2> QED BY <2>1 DEF TypeOK, PhasesInOrder, ActiveIsKnown, BudgetIsSpent,
             NothingLeftBefore, ExitIsLast, Clean
<1>7. ASSUME LateEnd \/ WorkEnds
      PROVE  SequenceInv'
  <2>1. /\ active' \subseteq active /\ busy' \in BOOLEAN
        /\ UNCHANGED <<at, status, left, serverLeft, signalled, exit>>
    BY <1>7 DEF LateEnd, WorkEnds, TypeOK
  <2> QED BY <2>1 DEF TypeOK, PhasesInOrder, ActiveIsKnown, BudgetIsSpent,
             NothingLeftBefore, ExitIsLast
<1>8. ASSUME Tick
      PROVE  SequenceInv'
  <2>1. /\ left > 0 /\ left' = left - 1
        /\ serverLeft' = IF serverLeft > 0 THEN serverLeft - 1 ELSE 0
        /\ UNCHANGED <<at, status, active, busy, signalled, exit>>
    BY <1>8 DEF Tick
  <2>2. left' \in 0..DeadlineMs /\ serverLeft' \in 0..ServerMs
    BY <1>t, <2>1 DEF TypeOK
  <2>3. TypeOK' /\ PhasesInOrder' /\ ActiveIsKnown' /\ NothingLeftBefore' /\ ExitIsLast'
    BY <2>1, <2>2 DEF TypeOK, PhasesInOrder, ActiveIsKnown, NothingLeftBefore, ExitIsLast
  <2>4. BudgetIsSpent'
    <3>1. left # 0
      BY <1>t, <2>1
    <3> QED BY <2>1, <3>1 DEF BudgetIsSpent
  <2> QED BY <2>3, <2>4
<1>9. ASSUME UNCHANGED vars
      PROVE  SequenceInv'
  BY <1>9 DEF vars, TypeOK, PhasesInOrder, ActiveIsKnown, BudgetIsSpent,
     NothingLeftBefore, ExitIsLast
<1> QED
  BY <1>1, <1>2, <1>3, <1>4, <1>5, <1>6, <1>7, <1>8, <1>9 DEF Next, Progress
-----------------------------------------------------------------------------
\* The queue counts slots as everybody does.
LEMMA SameCount == \A S : Q!Cardinality(S) = Cardinality(S)
  BY Zenon DEF Q!Cardinality, Cardinality

\* pump() without a free slot, or on a closed queue, starts nothing.
LEMMA PumpNothing ==
  ASSUME NEW q \in Seq(Jobs), NEW r, NEW ph \in [Jobs -> Q!Phases],
         attempt \in [Jobs -> 0..MaxAttempts],
         Q!Pump(q, r, ph), closed \/ Q!Taken(q, r) = 0
  PROVE  /\ queue' = q /\ running' = r
         /\ phase' = ph /\ attempt' = attempt
<1>1. Len(q) \in Nat
  OBVIOUS
<1> DEFINE n == IF closed THEN 0 ELSE Q!Taken(q, r)
           start == Q!ToSet(SubSeq(q, 1, n))
<1>2. /\ queue' = SubSeq(q, n + 1, Len(q))
      /\ running' = r \cup start
      /\ phase' = [j \in Jobs |-> IF j \in start THEN "handler" ELSE ph[j]]
      /\ attempt' = [j \in Jobs |-> IF j \in start THEN 1 ELSE attempt[j]]
  BY Zenon DEF Q!Pump
<1>n. n = 0
  OBVIOUS
<1> HIDE DEF n
<1>3. SubSeq(q, 1, Len(q)) = q
  BY SubSeqFull
<1>4. start = {}
  <2>1. SubSeq(q, 1, n) = <<>>
    BY <1>1, <1>n, SubSeqEmpty
  <2>2. DOMAIN <<>> = {}
    OBVIOUS
  <2> QED BY <2>1, <2>2 DEF Q!ToSet
<1> HIDE DEF start
<1>5. queue' = q
  BY <1>2, <1>3, <1>n
<1> QED BY <1>2, <1>4, <1>5

\* pump() with one job to start takes the one at the head.
LEMMA PumpHead ==
  ASSUME NEW q \in Seq(Jobs), q # <<>>, NEW r, NEW ph \in [Jobs -> Q!Phases],
         attempt \in [Jobs -> 0..MaxAttempts],
         Q!Pump(q, r, ph), ~closed, Q!Taken(q, r) = 1
  PROVE  /\ queue' \in Seq(Jobs) /\ Len(queue') = Len(q) - 1
         /\ \A i \in 1..Len(queue') : queue'[i] = q[i + 1]
         /\ q[1] \in Jobs
         /\ running' = r \cup {q[1]}
         /\ phase' = [ph EXCEPT ![q[1]] = "handler"]
         /\ attempt' = [attempt EXCEPT ![q[1]] = 1]
<1>1. Len(q) \in Nat /\ Len(q) >= 1 /\ q[1] \in Jobs
  BY EmptySeq, LenProperties, ElementOfSeq
<1> DEFINE n == IF closed THEN 0 ELSE Q!Taken(q, r)
           start == Q!ToSet(SubSeq(q, 1, n))
<1>2. /\ queue' = SubSeq(q, n + 1, Len(q))
      /\ running' = r \cup start
      /\ phase' = [j \in Jobs |-> IF j \in start THEN "handler" ELSE ph[j]]
      /\ attempt' = [j \in Jobs |-> IF j \in start THEN 1 ELSE attempt[j]]
  BY Zenon DEF Q!Pump
<1>n. n = 1
  OBVIOUS
<1> HIDE DEF n
<1>3. start = {q[1]}
  <2>1. /\ SubSeq(q, 1, 1) \in Seq(Jobs) /\ Len(SubSeq(q, 1, 1)) = 1
        /\ SubSeq(q, 1, 1)[1] = q[1]
    BY <1>1, SubSeqProperties
  <2>2. DOMAIN SubSeq(q, 1, 1) = {1}
    BY <2>1, LenProperties
  <2> QED BY <1>n, <2>1, <2>2 DEF Q!ToSet
<1> HIDE DEF start
<1>4. /\ queue' \in Seq(Jobs) /\ Len(queue') = Len(q) - 1
      /\ \A i \in 1..Len(queue') : queue'[i] = q[i + 1]
  <2>1. Len(q) \in Int /\ 2 \in Int /\ n + 1 = 2
    BY <1>1, <1>n
  <2>2. \A i \in 2..Len(q) : q[i] \in Jobs
    BY <1>1, ElementOfSeq
  <2>3. /\ SubSeq(q, 2, Len(q)) \in Seq(Jobs)
        /\ Len(SubSeq(q, 2, Len(q))) = IF 2 <= Len(q) THEN Len(q) - 2 + 1 ELSE 0
        /\ \A i \in 1..(Len(q) - 2 + 1) : SubSeq(q, 2, Len(q))[i] = q[2 + i - 1]
    BY <2>1, <2>2, SubSeqProperties
  <2>4. queue' = SubSeq(q, 2, Len(q))
    BY <1>2, <2>1
  <2>5. Len(queue') = Len(q) - 1
    <3>1. \A a \in Nat : a >= 1 => (IF 2 <= a THEN a - 2 + 1 ELSE 0) = a - 1
      OBVIOUS
    <3>2. (IF 2 <= Len(q) THEN Len(q) - 2 + 1 ELSE 0) = Len(q) - 1
      BY <1>1, <3>1
    <3> QED BY <2>3, <2>4, <3>2
  <2>6. \A i \in 1..Len(queue') : 2 + i - 1 = i + 1 /\ i \in 1..(Len(q) - 2 + 1)
    BY <1>1, <2>5
  <2> QED BY <2>3, <2>4, <2>5, <2>6
<1> QED BY <1>1, <1>2, <1>3, <1>4

\* The empty queue satisfies the invariant.
LEMMA QueueInit == Q!Init => QueueInv
<1> SUFFICES ASSUME Q!Init
             PROVE  QueueInv
  OBVIOUS
<1>1. Q!TypeOK
  <2>1. 0 \in 0..MaxAttempts /\ <<>> \in Seq(Jobs)
    BY ProcessAssumption DEF Q!QueueAssumption
  <2> QED BY <2>1 DEF Q!Init, Q!TypeOK, Q!Phases
<1>2. Len(queue) = 0
  BY DEF Q!Init
<1>3. JobsAreKept
  BY <1>2 DEF Q!Init, JobsAreKept, Q!Outcomes
<1>4. SlotsAreBounded /\ NoIdleSlot
  BY ProcessAssumption, FS_EmptySet
     DEF Q!Init, SlotsAreBounded, NoIdleSlot, Q!QueueAssumption
<1> QED BY <1>1, <1>3, <1>4 DEF QueueInv

\* A job that has a slot, and no other, moves on within it.
LEMMA InSlotStep ==
  ASSUME QueueInv, NEW j \in Jobs, phase[j] \in {"handler", "backoff"},
         NEW p \in {"handler", "backoff"} \cup Q!Outcomes, NEW a \in 0..MaxAttempts,
         p = "backoff" => a < MaxAttempts,
         phase' = [phase EXCEPT ![j] = p],
         attempt' = [attempt EXCEPT ![j] = a],
         UNCHANGED <<queue, running, aborted, closed, waiter>>
  PROVE  QueueInv'
<1> USE DEF QueueInv
<1>1. Q!TypeOK'
  BY DEF Q!TypeOK, Q!Phases, Q!Outcomes
<1>2. /\ phase'[j] = p /\ attempt'[j] = a
      /\ \A k \in Jobs \ {j} : phase'[k] = phase[k] /\ attempt'[k] = attempt[k]
  BY DEF Q!TypeOK
<1>3. \A i \in 1..Len(queue) : queue[i] \in Jobs /\ queue[i] # j
  BY DEF Q!TypeOK, JobsAreKept
<1>4. j \in running
  BY DEF JobsAreKept
<1>5. JobsAreKept'
  BY <1>2, <1>3, <1>4 DEF JobsAreKept, Q!Outcomes
<1>6. SlotsAreBounded' /\ NoIdleSlot'
  BY DEF SlotsAreBounded, NoIdleSlot
<1> QED BY <1>1, <1>5, <1>6

\* A job that is accepted waits, or starts at once in a slot that is free: an
\* idle slot means an empty queue, so that nobody is overtaken.
LEMMA AcceptStep ==
  ASSUME QueueInv, NEW j \in Jobs, phase[j] = "new", ~closed,
         Q!Pump(Append(queue, j), running, [phase EXCEPT ![j] = "queued"]),
         Q!NotifyDrain, UNCHANGED <<aborted, closed>>
  PROVE  QueueInv'
<1> USE DEF QueueInv
<1> DEFINE q == Append(queue, j)
           ph == [phase EXCEPT ![j] = "queued"]
<1>1. /\ queue \in Seq(Jobs) /\ Len(queue) \in Nat
      /\ q \in Seq(Jobs) /\ q # <<>> /\ Len(q) = Len(queue) + 1
      /\ \A i \in 1..Len(queue) : q[i] = queue[i] /\ queue[i] \in Jobs
      /\ q[Len(queue) + 1] = j
  BY AppendProperties, LenProperties, ElementOfSeq DEF Q!TypeOK
<1>2. ph \in [Jobs -> Q!Phases] /\ attempt \in [Jobs -> 0..MaxAttempts]
  BY DEF Q!TypeOK, Q!Phases
<1>3. /\ ph[j] = "queued"
      /\ \A k \in Jobs \ {j} : ph[k] = phase[k]
  BY DEF Q!TypeOK
<1>4. /\ j \notin running
      /\ \A i \in 1..Len(queue) : queue[i] # j
  BY DEF JobsAreKept, Q!Outcomes
<1>5. /\ Concurrency \in Nat \ {0} /\ MaxAttempts \in Nat \ {0}
      /\ IsFiniteSet(running) /\ Cardinality(running) \in Nat
      /\ Cardinality(running) <= Concurrency
  BY ProcessAssumption, FS_CardinalityType DEF Q!QueueAssumption, SlotsAreBounded
<1>6. waiter' \in [Waiters -> {"idle", "waiting", "done"}]
  BY DEF Q!NotifyDrain, Q!TypeOK
<1>p. Q!Pump(q, running, ph)
  OBVIOUS
<1> HIDE DEF q, ph
<1>7. CASE Cardinality(running) = Concurrency
  <2>1. Q!Taken(q, running) = 0
    BY <1>1, <1>5, <1>7, SameCount DEF Q!Taken
  <2>2. queue' = q /\ running' = running /\ phase' = ph /\ attempt' = attempt
    BY SMTT(30), <1>1, <1>2, <1>p, <2>1, PumpNothing
  <2>3. Q!TypeOK'
    BY <1>1, <1>2, <1>6, <2>2 DEF Q!TypeOK
  <2>4. JobsAreKept'
    <3>1. \A i \in 1..Len(q) : \/ i \in 1..Len(queue)
                               \/ i = Len(queue) + 1
      BY <1>1
    <3>2. /\ \A i, k \in 1..Len(q) : q[i] = q[k] => i = k
          /\ \A i \in 1..Len(q) : ph[q[i]] = "queued"
      BY SMTT(30), <1>1, <1>3, <1>4, <3>1 DEF JobsAreKept
    <3>3. /\ Len(queue) + 1 \in 1..Len(q)
          /\ \A i \in 1..Len(queue) : i \in 1..Len(q)
      BY <1>1
    <3>4. \A k \in Jobs : ph[k] = "queued" => \E i \in 1..Len(q) : q[i] = k
      BY <1>1, <1>3, <3>3 DEF JobsAreKept
    <3> QED BY <1>3, <1>4, <2>2, <3>2, <3>4 DEF JobsAreKept
  <2> QED BY <1>5, <1>7, <2>2, <2>3, <2>4 DEF SlotsAreBounded, NoIdleSlot
<1>8. CASE Cardinality(running) # Concurrency
  <2>1. queue = <<>> /\ Len(queue) = 0
    BY <1>8 DEF NoIdleSlot
  <2>2. Q!Taken(q, running) = 1
    <3>1. \A a, c \in Nat : a <= c /\ a # c => (IF 1 < c - a THEN 1 ELSE c - a) = 1
      OBVIOUS
    <3> QED BY <1>1, <1>5, <1>8, <2>1, <3>1, SameCount DEF Q!Taken
  <2>3. /\ queue' \in Seq(Jobs) /\ Len(queue') = 0 /\ q[1] = j
        /\ running' = running \cup {j}
        /\ phase' = [ph EXCEPT ![j] = "handler"]
        /\ attempt' = [attempt EXCEPT ![j] = 1]
    <3>1. q[1] = j /\ Len(q) = 1
      BY <1>1, <2>1
    <3>2. /\ queue' \in Seq(Jobs) /\ Len(queue') = Len(q) - 1
          /\ running' = running \cup {q[1]}
          /\ phase' = [ph EXCEPT ![q[1]] = "handler"]
          /\ attempt' = [attempt EXCEPT ![q[1]] = 1]
      BY <1>1, <1>2, <1>p, <2>2, PumpHead
    <3> QED BY <3>1, <3>2
  <2>4. queue' = <<>>
    BY <2>3, EmptySeq
  <2>5. /\ phase'[j] = "handler"
        /\ \A k \in Jobs \ {j} : phase'[k] = phase[k] /\ attempt'[k] = attempt[k]
    BY <1>2, <1>3, <2>3
  <2>6. Q!TypeOK'
    <3>1. 1 \in 0..MaxAttempts /\ "handler" \in Q!Phases
      BY <1>5 DEF Q!Phases
    <3> QED BY <1>2, <1>6, <2>3, <3>1 DEF Q!TypeOK
  <2>7. JobsAreKept'
    <3>1. \A k \in Jobs \ {j} : phase[k] # "queued"
      BY <2>1 DEF JobsAreKept
    <3> QED BY <2>3, <2>5, <3>1 DEF JobsAreKept, Q!Outcomes
  <2>8. SlotsAreBounded'
    <3>1. IsFiniteSet(running') /\ Cardinality(running') = Cardinality(running) + 1
      BY <1>4, <1>5, <2>3, FS_AddElement
    <3> QED BY <1>5, <1>8, <3>1 DEF SlotsAreBounded
  <2> QED BY <2>4, <2>6, <2>7, <2>8 DEF NoIdleSlot
<1> QED BY <1>7, <1>8

\* The finally callback gives the slot to the job at the head of the queue.
LEMMA FinallyStep ==
  ASSUME QueueInv, NEW j \in Jobs, Q!Finally(j)
  PROVE  QueueInv'
<1> USE DEF QueueInv
<1> DEFINE r == running \ {j}
<1>1. /\ j \in running /\ phase[j] \in Q!Outcomes
      /\ Q!Pump(queue, r, phase)
      /\ Q!NotifyDrain /\ UNCHANGED <<aborted, closed>>
  BY DEF Q!Finally
<1>2. /\ queue \in Seq(Jobs) /\ Len(queue) \in Nat
      /\ \A i \in 1..Len(queue) : queue[i] \in Jobs
      /\ phase \in [Jobs -> Q!Phases] /\ attempt \in [Jobs -> 0..MaxAttempts]
      /\ waiter' \in [Waiters -> {"idle", "waiting", "done"}]
  BY <1>1, LenProperties, ElementOfSeq DEF Q!TypeOK, Q!NotifyDrain
<1>3. /\ Concurrency \in Nat \ {0} /\ MaxAttempts \in Nat \ {0}
      /\ IsFiniteSet(running) /\ Cardinality(running) \in Nat
      /\ Cardinality(running) <= Concurrency
      /\ IsFiniteSet(r) /\ Cardinality(r) = Cardinality(running) - 1
      /\ Cardinality(r) \in Nat
  BY <1>1, ProcessAssumption, FS_CardinalityType, FS_RemoveElement
     DEF Q!QueueAssumption, SlotsAreBounded
<1>p. r \subseteq running /\ \A k \in running : k = j \/ k \in r
  OBVIOUS
<1> HIDE DEF r
<1>4. CASE queue = <<>>
  <2>1. Q!Taken(queue, r) = 0
    <3>1. Len(queue) = 0
      BY <1>4
    <3> QED BY <1>3, <3>1, SameCount DEF Q!Taken
  <2>2. queue' = queue /\ running' = r /\ phase' = phase /\ attempt' = attempt
    BY <1>1, <1>2, <2>1, PumpNothing
  <2>3. Q!TypeOK'
    BY <1>1, <1>2, <1>p, <2>2 DEF Q!TypeOK
  <2>4. JobsAreKept'
    BY <1>1, <1>p, <2>2 DEF JobsAreKept, Q!Outcomes
  <2> QED BY <1>3, <1>4, <2>2, <2>3, <2>4 DEF SlotsAreBounded, NoIdleSlot
<1>5. CASE queue # <<>>
  <2> DEFINE x == queue[1]
  <2>1. ~closed /\ Cardinality(running) = Concurrency
    BY <1>5 DEF NoIdleSlot
  <2>2. Len(queue) >= 1 /\ 1 \in 1..Len(queue) /\ x \in Jobs
    BY <1>2, <1>5, EmptySeq
  <2>3. Q!Taken(queue, r) = 1
    <3>1. \A l, c \in Nat : l >= 1 /\ c >= 1 =>
             (IF l < c - (c - 1) THEN l ELSE c - (c - 1)) = 1
      OBVIOUS
    <3> QED BY <1>2, <1>3, <2>1, <2>2, <3>1, SameCount DEF Q!Taken
  <2>4. /\ queue' \in Seq(Jobs) /\ Len(queue') = Len(queue) - 1
        /\ \A i \in 1..Len(queue') : queue'[i] = queue[i + 1]
        /\ running' = r \cup {x}
        /\ phase' = [phase EXCEPT ![x] = "handler"]
        /\ attempt' = [attempt EXCEPT ![x] = 1]
    BY <1>1, <1>2, <1>5, <2>1, <2>3, PumpHead
  <2>5. phase[x] = "queued" /\ x \notin running
    BY <2>2 DEF JobsAreKept, Q!Outcomes
  <2> HIDE DEF x
  <2>6. /\ phase'[x] = "handler"
        /\ \A k \in Jobs \ {x} : phase'[k] = phase[k] /\ attempt'[k] = attempt[k]
    BY <1>2, <2>2, <2>4
  <2>7. Q!TypeOK'
    <3>1. 1 \in 0..MaxAttempts /\ "handler" \in Q!Phases
      BY <1>3 DEF Q!Phases
    <3> QED BY <1>1, <1>2, <1>p, <2>2, <2>4, <3>1 DEF Q!TypeOK
  <2>8. JobsAreKept'
    <3>1. \A i \in 1..Len(queue') : i + 1 \in 1..Len(queue) /\ i + 1 # 1
      BY <1>2, <2>4
    <3>2. \A i, k \in 1..Len(queue') : queue'[i] = queue'[k] => i = k
      <4> SUFFICES ASSUME NEW i \in 1..Len(queue'), NEW k \in 1..Len(queue'),
                          queue'[i] = queue'[k]
                   PROVE  i = k
        OBVIOUS
      <4>1. i + 1 = k + 1
        BY <2>4, <3>1 DEF JobsAreKept
      <4> QED BY <4>1
    <3>3. \A i \in 1..Len(queue') : queue'[i] # x /\ queue'[i] \in Jobs
      BY SMTT(30), <1>2, <2>2, <2>4, <3>1 DEF JobsAreKept, x
    <3>4. \A i \in 1..Len(queue') : phase'[queue'[i]] = "queued"
      BY <2>4, <2>6, <3>1, <3>3 DEF JobsAreKept
    <3>5. \A k \in Jobs : phase'[k] = "queued" =>
             \E i \in 1..Len(queue') : queue'[i] = k
      <4> SUFFICES ASSUME NEW k \in Jobs, phase'[k] = "queued"
                   PROVE  \E i \in 1..Len(queue') : queue'[i] = k
        OBVIOUS
      <4>1. k # x /\ phase[k] = "queued"
        BY <2>6
      <4>2. PICK i \in 1..Len(queue) : queue[i] = k
        BY <4>1 DEF JobsAreKept
      <4>3. i # 1
        BY <4>1, <4>2 DEF x
      <4>4. i - 1 \in 1..Len(queue') /\ (i - 1) + 1 = i
        BY <1>2, <2>4, <4>3
      <4> QED BY <2>4, <4>2, <4>4
    <3>6. \A k \in Jobs :
             /\ phase'[k] \in {"handler", "backoff"} => k \in running'
             /\ k \in running' => phase'[k] \in {"handler", "backoff"} \cup Q!Outcomes
             /\ phase'[k] = "backoff" => attempt'[k] < MaxAttempts
      BY <1>1, <1>p, <2>4, <2>6 DEF JobsAreKept, Q!Outcomes
    <3> QED BY <3>2, <3>4, <3>5, <3>6 DEF JobsAreKept
  <2>9. IsFiniteSet(running') /\ Cardinality(running') = Concurrency
    <3>1. x \notin r
      BY <1>p, <2>5
    <3>2. IsFiniteSet(running') /\ Cardinality(running') = Cardinality(r) + 1
      BY <1>3, <2>4, <3>1, FS_AddElement
    <3> QED BY <1>3, <2>1, <3>2
  <2> QED BY <1>1, <1>3, <2>1, <2>7, <2>8, <2>9 DEF SlotsAreBounded, NoIdleSlot
<1> QED BY <1>4, <1>5

\* shutdown() cancels what waits and leaves what runs in its slot.
LEMMA CloseStep ==
  ASSUME QueueInv, Q!Shutdown
  PROVE  QueueInv'
<1> USE DEF QueueInv
<1>1. /\ closed' = TRUE /\ queue' = <<>>
      /\ phase' = [j \in Jobs |-> IF j \in Q!ToSet(queue) THEN "cancelled" ELSE phase[j]]
      /\ aborted' = aborted \cup Q!ToSet(queue) \cup running
      /\ UNCHANGED <<running, attempt, waiter>>
  BY DEF Q!Shutdown
<1>2. /\ DOMAIN queue = 1..Len(queue)
      /\ \A i \in 1..Len(queue) : queue[i] \in Jobs
  BY LenProperties, ElementOfSeq DEF Q!TypeOK
<1>3. /\ Q!ToSet(queue) \subseteq Jobs
      /\ \A j \in Jobs : j \in Q!ToSet(queue) <=> \E i \in 1..Len(queue) : queue[i] = j
  BY <1>2 DEF Q!ToSet
<1>4. Q!TypeOK'
  <2>1. <<>> \in Seq(Jobs)
    BY EmptySeq
  <2> QED BY <1>1, <1>3, <2>1 DEF Q!TypeOK, Q!Phases, Q!Outcomes
<1>5. JobsAreKept'
  <2>1. Len(queue') = 0
    BY <1>1
  <2>2. \A j \in Jobs : j \in Q!ToSet(queue) <=> phase[j] = "queued"
    BY <1>3 DEF JobsAreKept
  <2>3. \A j \in Jobs : phase'[j] = IF phase[j] = "queued" THEN "cancelled" ELSE phase[j]
    BY <1>1, <2>2
  <2> QED BY <1>1, <2>1, <2>3 DEF JobsAreKept, Q!Outcomes
<1>6. SlotsAreBounded' /\ NoIdleSlot'
  BY <1>1 DEF SlotsAreBounded, NoIdleSlot
<1> QED BY <1>4, <1>5, <1>6

\* Every step of the queue keeps its invariant.
LEMMA QueueStepInv == QueueInv /\ [Q!Next]_queueVars => QueueInv'
<1> SUFFICES ASSUME QueueInv, [Q!Next]_queueVars
             PROVE  QueueInv'
  OBVIOUS
<1> USE DEF QueueInv
<1>m. MaxAttempts \in Nat \ {0}
  BY ProcessAssumption DEF Q!QueueAssumption
<1>1. ASSUME NEW j \in Jobs, Q!Enqueue(j)
      PROVE  QueueInv'
  <2>1. CASE /\ phase' = [phase EXCEPT ![j] = "refused"]
             /\ UNCHANGED <<queue, running, attempt, waiter, aborted, closed>>
    <3>1. phase[j] = "new"
      BY <1>1 DEF Q!Enqueue
    <3>2. /\ phase'[j] = "refused"
          /\ \A k \in Jobs \ {j} : phase'[k] = phase[k]
          /\ \A i \in 1..Len(queue) : queue[i] \in Jobs /\ queue[i] # j
      BY <2>1, <3>1, ElementOfSeq DEF Q!TypeOK, JobsAreKept
    <3>3. Q!TypeOK'
      BY <2>1 DEF Q!TypeOK, Q!Phases
    <3>4. JobsAreKept'
      BY <2>1, <3>1, <3>2 DEF JobsAreKept, Q!Outcomes
    <3> QED BY <2>1, <3>3, <3>4 DEF SlotsAreBounded, NoIdleSlot
  <2>2. CASE /\ ~closed
             /\ Q!Pump(Append(queue, j), running, [phase EXCEPT ![j] = "queued"])
             /\ Q!NotifyDrain /\ UNCHANGED <<aborted, closed>>
    BY <1>1, <2>2, AcceptStep DEF Q!Enqueue
  <2> QED BY <1>1, <2>1, <2>2 DEF Q!Enqueue
<1>2. ASSUME NEW j \in Jobs, Q!HandlerReturns(j) \/ Q!HandlerThrows(j) \/ Q!Retry(j)
      PROVE  QueueInv'
  <2>1. phase[j] \in {"handler", "backoff"}
    BY <1>2 DEF Q!HandlerReturns, Q!HandlerThrows, Q!Retry
  <2>2. UNCHANGED <<queue, running, aborted, closed, waiter>>
    BY <1>2 DEF Q!HandlerReturns, Q!HandlerThrows, Q!Retry
  <2>3. attempt \in [Jobs -> 0..MaxAttempts] /\ attempt = [attempt EXCEPT ![j] = attempt[j]]
    BY DEF Q!TypeOK
  <2>4. \E p \in {"handler", "backoff"} \cup Q!Outcomes, a \in 0..MaxAttempts :
           /\ phase' = [phase EXCEPT ![j] = p]
           /\ attempt' = [attempt EXCEPT ![j] = a]
           /\ p = "backoff" => a < MaxAttempts
    <3>1. CASE Q!HandlerReturns(j)
      <4>1. attempt[j] \in 0..MaxAttempts /\ attempt' = [attempt EXCEPT ![j] = attempt[j]]
        BY <2>3, <3>1 DEF Q!HandlerReturns, Q!Settle
      <4>2. PICK p \in Q!Outcomes : phase' = [phase EXCEPT ![j] = p]
        BY <3>1 DEF Q!HandlerReturns, Q!Settle, Q!Outcomes
      <4>3. p # "backoff"
        BY DEF Q!Outcomes
      <4> QED BY <4>1, <4>2, <4>3
    <3>2. CASE Q!HandlerThrows(j)
      <4>1. attempt[j] \in 0..MaxAttempts /\ attempt' = [attempt EXCEPT ![j] = attempt[j]]
        BY <2>3, <3>2 DEF Q!HandlerThrows, Q!Settle
      <4>2. CASE \E p \in Q!Outcomes : phase' = [phase EXCEPT ![j] = p]
        BY <4>1, <4>2 DEF Q!Outcomes
      <4>3. CASE attempt[j] < MaxAttempts /\ phase' = [phase EXCEPT ![j] = "backoff"]
        BY <4>1, <4>3
      <4> QED BY <3>2, <4>2, <4>3 DEF Q!HandlerThrows, Q!Settle, Q!Outcomes
    <3>3. CASE Q!Retry(j)
      <4>1. CASE Q!Settle(j, "cancelled")
        BY <2>3, <4>1 DEF Q!Settle, Q!Outcomes
      <4>2. CASE /\ phase' = [phase EXCEPT ![j] = "handler"]
                 /\ attempt' = [attempt EXCEPT ![j] = attempt[j] + 1]
        <5>1. attempt[j] + 1 \in 0..MaxAttempts
          BY <1>m, <2>3, <3>3 DEF Q!Retry, JobsAreKept
        <5>2. "handler" \in {"handler", "backoff"} \cup Q!Outcomes /\ "handler" # "backoff"
          OBVIOUS
        <5> QED BY ONLY <4>2, <5>1, <5>2
      <4> QED BY <3>3, <4>1, <4>2 DEF Q!Retry
    <3> QED BY <1>2, <3>1, <3>2, <3>3
  <2> QED BY <2>1, <2>2, <2>4, InSlotStep
<1>3. ASSUME NEW j \in Jobs, Q!Finally(j)
      PROVE  QueueInv'
  BY <1>3, FinallyStep
<1>4. ASSUME NEW d \in Waiters, Q!Drain(d)
      PROVE  QueueInv'
  BY <1>4 DEF Q!Drain, Q!TypeOK, JobsAreKept, SlotsAreBounded, NoIdleSlot
<1>5. ASSUME Q!Shutdown
      PROVE  QueueInv'
  BY <1>5, CloseStep
<1>6. ASSUME UNCHANGED queueVars
      PROVE  QueueInv'
  BY <1>6 DEF queueVars, Q!TypeOK, JobsAreKept, SlotsAreBounded, NoIdleSlot
<1> QED BY <1>1, <1>2, <1>3, <1>4, <1>5, <1>6 DEF Q!Next
-----------------------------------------------------------------------------
\* Every step of the process is a step of the sequence, or none, and one of the
\* queue, or none.
LEMMA ProcessStepIsBoth == [ProcessNext]_processVars => [Next]_vars /\ [Q!Next]_queueVars
<1> SUFFICES ASSUME [ProcessNext]_processVars
             PROVE  [Next]_vars /\ [Q!Next]_queueVars
  OBVIOUS
<1>1. ASSUME NEW j \in Jobs, JobStep(j) \/ HandlerEnds(j)
      PROVE  [Next]_vars /\ [Q!Next]_queueVars
  BY <1>1 DEF JobStep, HandlerEnds, Q!Next
<1>2. ASSUME NEW d \in Waiters, Await(d)
      PROVE  [Next]_vars /\ [Q!Next]_queueVars
  BY <1>2 DEF Await, Q!Next
<1>3. ASSUME StopJobs \/ JobsStopped \/ SequenceStep \/ OtherStep \/ Time
      PROVE  [Next]_vars /\ [Q!Next]_queueVars
  BY <1>3 DEF StopJobs, JobsStopped, SequenceStep, OtherStep, Time, GiveUp, Next,
     Progress, Q!Next
<1>4. ASSUME UNCHANGED processVars
      PROVE  [Next]_vars /\ [Q!Next]_queueVars
  BY <1>4 DEF processVars, vars, queueVars
<1> QED BY <1>1, <1>2, <1>3, <1>4 DEF ProcessNext

\* A closed queue stays closed, and once it has drained it stays empty.
LEMMA ClosedStaysClosed ==
  ASSUME QueueInv, closed, [Q!Next]_queueVars
  PROVE  closed' /\ (JobsDrained => JobsDrained')
<1> USE DEF QueueInv
<1>1. ASSUME NEW j \in Jobs,
             \/ Q!Enqueue(j) \/ Q!HandlerReturns(j) \/ Q!HandlerThrows(j) \/ Q!Retry(j)
      PROVE  closed' /\ (JobsDrained => JobsDrained')
  BY <1>1 DEF Q!Enqueue, Q!HandlerReturns, Q!HandlerThrows, Q!Retry, JobsDrained
<1>2. ASSUME NEW j \in Jobs, Q!Finally(j)
      PROVE  closed' /\ (JobsDrained => JobsDrained')
  BY <1>2 DEF Q!Finally, JobsDrained
<1>3. ASSUME \/ \E d \in Waiters : Q!Drain(d)
             \/ Q!Shutdown \/ UNCHANGED queueVars
      PROVE  closed' /\ (JobsDrained => JobsDrained')
  BY <1>3 DEF Q!Drain, Q!Shutdown, queueVars, JobsDrained
<1> QED BY <1>1, <1>2, <1>3 DEF Q!Next
-----------------------------------------------------------------------------
\* Only stop-jobs itself moves the status of stop-jobs, unless the budget is
\* spent: then it is skipped, or times out if it runs.
LEMMA OthersLeaveStopJobs ==
  ASSUME SequenceInv, SequenceStep \/ OtherStep \/ Time
  PROVE  \/ status'["stop-jobs"] \in {status["stop-jobs"], "skipped"}
         \/ status["stop-jobs"] = "running" /\ status'["stop-jobs"] = "timeout"
<1> USE DEF SequenceInv
<1>1. /\ "stop-jobs" \in Names
      /\ at \in 1..Len(Phases) => Current \in Names
      /\ status \in [Names -> {"pending", "running", "completed", "failed",
                               "timeout", "skipped"}]
  BY PhaseList DEF Current, TypeOK
<1>2. CASE Skip
  BY <1>1, <1>2 DEF Skip
<1>3. CASE Timeout
  BY <1>1, <1>3 DEF Timeout
<1>4. CASE GiveUp \/ (~InStopJobs /\ (Settle \/ Start))
  <2>1. at \in 1..Len(Phases) /\ Current # "stop-jobs"
    BY <1>4 DEF GiveUp, InStopJobs, Settle, Start
  <2>2. PICK s \in {"running", "completed", "failed"} :
           status' = [status EXCEPT ![Current] = s]
    BY <1>4 DEF GiveUp, Settle, Start, Endings
  <2> QED BY <1>1, <2>1, <2>2
<1>5. CASE Exit \/ Signal \/ WorkEnds \/ LateEnd \/ Tick
  BY <1>5 DEF Exit, Signal, WorkEnds, LateEnd, Tick
<1>6. \/ Skip \/ Timeout \/ GiveUp \/ (~InStopJobs /\ (Settle \/ Start))
      \/ Exit \/ Signal \/ WorkEnds \/ LateEnd \/ Tick
  BY Zenon DEF SequenceStep, OtherStep, Time
<1> QED BY <1>2, <1>3, <1>4, <1>5, <1>6

\* Every step of the process keeps the invariant.
LEMMA ProcessStepInv == ProcessInv /\ [ProcessNext]_processVars => ProcessInv'
<1> SUFFICES ASSUME ProcessInv, [ProcessNext]_processVars
             PROVE  ProcessInv'
  OBVIOUS
<1> USE DEF ProcessInv
<1>1. [Next]_vars /\ [Q!Next]_queueVars
  BY ProcessStepIsBoth
<1>2. SequenceInv'
  BY <1>1, SequenceStepInv
<1>3. QueueInv'
  BY <1>1, QueueStepInv
<1>4. closed => closed' /\ (JobsDrained => JobsDrained')
  BY <1>1, ClosedStaysClosed
<1>5. StopJobsIsTrue'
  <2>1. CASE status'["stop-jobs"] = status["stop-jobs"]
    BY <1>4, <2>1 DEF StopJobsIsTrue
  <2>2. CASE SequenceStep \/ OtherStep \/ Time
    <3>1. \/ status'["stop-jobs"] \in {status["stop-jobs"], "skipped"}
          \/ status["stop-jobs"] = "running" /\ status'["stop-jobs"] = "timeout"
      BY <2>2, OthersLeaveStopJobs
    <3> QED BY <1>4, <3>1 DEF StopJobsIsTrue
  <2>3. CASE StopJobs
    <3>1. /\ status'["stop-jobs"] = "running"
          /\ closed'
      BY <2>3, PhaseList DEF StopJobs, InStopJobs, Start, Async, Q!Shutdown,
         SequenceInv, TypeOK
    <3> QED BY <3>1 DEF StopJobsIsTrue
  <2>4. CASE JobsStopped
    <3>1. status["stop-jobs"] = "running" /\ JobsDrained /\ UNCHANGED queueVars
      BY <2>4 DEF JobsStopped, InStopJobs, Settle
    <3>2. closed' /\ JobsDrained'
      BY <1>4, <3>1 DEF StopJobsIsTrue
    <3> QED BY <3>2 DEF StopJobsIsTrue
  <2>5. CASE UNCHANGED vars
    <3>1. UNCHANGED status
      BY <2>5 DEF vars
    <3> QED BY <2>1, <3>1
  <2>6. CASE UNCHANGED processVars
    <3>1. UNCHANGED status
      BY <2>6 DEF processVars
    <3> QED BY <2>1, <3>1
  <2> QED BY <2>2, <2>3, <2>4, <2>5, <2>6 DEF ProcessNext, JobStep, HandlerEnds, Await
<1> QED BY <1>2, <1>3, <1>5

\* The inductive invariant holds in every state of every server process.
THEOREM ProcessSafe == ProcessSpec => []ProcessInv
<1>1. ProcessInit => ProcessInv
  <2> SUFFICES ASSUME ProcessInit
               PROVE  ProcessInv
    OBVIOUS
  <2>1. SequenceInv /\ QueueInv
    BY SequenceInit, QueueInit DEF ProcessInit
  <2>2. status["stop-jobs"] = "pending"
    BY PhaseList DEF ProcessInit, Init
  <2> QED BY <2>1, <2>2 DEF ProcessInv, StopJobsIsTrue
<1> QED BY <1>1, ProcessStepInv, PTL DEF ProcessSpec

\* A shutdown is orderly whatever the deadline, the phases that hang and the
\* jobs in the queue: no slot is left idle, storage is closed only after every
\* phase before it and every background job have ended, and the process exits
\* with 0 only if every phase completed and every accepted job has a result.
THEOREM ShutdownOrderly == ProcessSpec => []ShutdownIsOrderly
<1>1. ProcessInv => ShutdownIsOrderly
  <2> SUFFICES ASSUME ProcessInv
               PROVE  ShutdownIsOrderly
    OBVIOUS
  <2> USE DEF ProcessInv, SequenceInv, QueueInv
  <2>1. ProcessTypeOK /\ NoIdleSlot
    BY DEF ProcessTypeOK
  <2>2. StorageIsClosedLast
    <3> SUFFICES ASSUME status["close-storage"] \in {"completed", "failed"}
                 PROVE  active \subseteq Detached /\ running = {}
      BY DEF StorageIsClosedLast
    <3>1. \A n \in Names : status[n] \in {"completed", "failed"}
      BY DEF NothingLeftBefore
    <3>2. active \subseteq Detached
      BY <3>1 DEF ActiveIsKnown, TypeOK
    <3>3. running = {}
      BY <3>1, PhaseList DEF StopJobsIsTrue, JobsDrained
    <3> QED BY <3>2, <3>3
  <2>3. CleanExitLosesNothing
    <3> SUFFICES ASSUME exit = "0"
                 PROVE  /\ \A n \in Names : status[n] = "completed"
                                            /\ n \notin active \ Detached
                        /\ \A j \in Jobs : phase[j] \in {"new", "refused"} \cup Q!Outcomes
      BY DEF CleanExitLosesNothing
    <3>1. \A n \in Names : status[n] = "completed"
      BY DEF ExitIsLast
    <3>2. \A n \in Names : n \notin active \ Detached
      BY <3>1 DEF ActiveIsKnown
    <3>3. queue = <<>> /\ running = {} /\ Len(queue) = 0
      BY <3>1, PhaseList DEF StopJobsIsTrue, JobsDrained
    <3>4. \A j \in Jobs : phase[j] \notin {"queued", "handler", "backoff"}
      BY <3>3 DEF JobsAreKept
    <3> QED BY <3>1, <3>2, <3>4 DEF Q!TypeOK, Q!Phases
  <2> QED BY <2>1, <2>2, <2>3 DEF ShutdownIsOrderly
<1> QED BY <1>1, ProcessSafe, PTL
-----------------------------------------------------------------------------
\* A job is told to stop only by the shutdown that closes the queue, and only
\* if it was queued or had a slot.
AbortedAreKnown ==
    \A j \in aborted : closed /\ phase[j] \in {"handler", "backoff"} \cup Q!Outcomes

\* What a step of the queue may do to a job: its result stays, and once the job
\* was told to stop no step gives it another result than "cancelled".
JobStaysSettled(j) ==
    /\ phase[j] \in Q!Outcomes => phase'[j] = phase[j]
    /\ j \in aborted => phase'[j] \in {phase[j], "cancelled"}

\* pump() changes nothing but the jobs it starts, and those were waiting: on a
\* queue that is closed it starts none.
LEMMA PumpStartsWaiting ==
  ASSUME QueueInv, NEW q \in Seq(Jobs), NEW r, Cardinality(r) \in Nat,
         NEW ph \in [Jobs -> Q!Phases], Q!Pump(q, r, ph), NEW j \in Jobs,
         \A i \in 1..Len(q) : q[i] # j
  PROVE  phase'[j] = ph[j]
<1> DEFINE n == IF closed THEN 0 ELSE Q!Taken(q, r)
           start == Q!ToSet(SubSeq(q, 1, n))
<1>1. phase' = [k \in Jobs |-> IF k \in start THEN "handler" ELSE ph[k]]
  BY Zenon DEF Q!Pump
<1>2. n \in Int /\ n <= Len(q) /\ Len(q) \in Nat
  <2>1. Concurrency \in Nat /\ Len(q) \in Nat
    BY ProcessAssumption DEF Q!QueueAssumption
  <2> QED BY <2>1, SameCount DEF Q!Taken
<1> HIDE DEF n
<1>3. j \notin start
  <2>1. /\ SubSeq(q, 1, n) \in Seq(Jobs)
        /\ DOMAIN SubSeq(q, 1, n) = 1..n
        /\ \A i \in 1..n : SubSeq(q, 1, n)[i] = q[i]
    BY <1>2, SubSeqProperties
  <2> QED BY <1>2, <2>1 DEF Q!ToSet
<1> QED BY <1>1, <1>3
\* A step of the queue leaves results as they are, and jobs that were told to
\* stop without success.
LEMMA QueueStepSettles ==
  ASSUME QueueInv, AbortedAreKnown, [Q!Next]_queueVars
  PROVE  AbortedAreKnown' /\ \A j \in Jobs : JobStaysSettled(j)
<1> USE DEF QueueInv
<1>t. /\ phase \in [Jobs -> Q!Phases] /\ aborted \subseteq Jobs
      /\ queue \in Seq(Jobs) /\ Len(queue) \in Nat
      /\ \A i \in 1..Len(queue) : queue[i] \in Jobs /\ phase[queue[i]] = "queued"
      /\ Cardinality(running) \in Nat
  BY LenProperties, ElementOfSeq, FS_CardinalityType
     DEF Q!TypeOK, JobsAreKept, SlotsAreBounded
<1>s. ASSUME UNCHANGED aborted, closed => closed', \A j \in Jobs : JobStaysSettled(j)
      PROVE  AbortedAreKnown' /\ \A j \in Jobs : JobStaysSettled(j)
  BY <1>t, <1>s DEF AbortedAreKnown, JobStaysSettled, Q!Outcomes
<1>1. ASSUME NEW k \in Jobs, Q!Enqueue(k)
      PROVE  AbortedAreKnown' /\ \A j \in Jobs : JobStaysSettled(j)
  <2>1. phase[k] = "new" /\ k \notin aborted /\ UNCHANGED <<aborted, closed>>
    BY <1>1 DEF Q!Enqueue, AbortedAreKnown, Q!Outcomes
  <2>2. CASE phase' = [phase EXCEPT ![k] = "refused"]
    <3>1. \A j \in Jobs : JobStaysSettled(j)
      BY <1>t, <2>1, <2>2 DEF JobStaysSettled, Q!Outcomes
    <3> QED BY <1>s, <2>1, <3>1
  <2>3. CASE Q!Pump(Append(queue, k), running, [phase EXCEPT ![k] = "queued"])
    <3> DEFINE q == Append(queue, k)
               ph == [phase EXCEPT ![k] = "queued"]
    <3>1. /\ q \in Seq(Jobs) /\ ph \in [Jobs -> Q!Phases]
          /\ Len(q) = Len(queue) + 1
          /\ \A i \in 1..Len(q) : q[i] = IF i <= Len(queue) THEN queue[i] ELSE k
          /\ \A j \in Jobs : j # k => ph[j] = phase[j]
      BY <1>t, AppendProperties DEF Q!Phases
    <3>2. \A i \in 1..Len(q) : i <= Len(queue) => i \in 1..Len(queue)
      BY <1>t, <3>1
    <3> HIDE DEF q, ph
    <3>3. Q!Pump(q, running, ph)
      BY <2>3 DEF q, ph
    <3>4. \A j \in Jobs : j # k /\ phase[j] # "queued" => phase'[j] = phase[j]
      <4> SUFFICES ASSUME NEW j \in Jobs, j # k, phase[j] # "queued"
                   PROVE  phase'[j] = phase[j]
        OBVIOUS
      <4>1. \A i \in 1..Len(q) : q[i] # j
        BY <1>t, <3>1, <3>2
      <4> QED BY <1>t, <3>1, <3>3, <4>1, PumpStartsWaiting
    <3>5. \A j \in Jobs : JobStaysSettled(j)
      BY <2>1, <3>4 DEF JobStaysSettled, AbortedAreKnown, Q!Outcomes
    <3> QED BY <1>s, <2>1, <3>5
  <2> QED BY <1>1, <2>2, <2>3 DEF Q!Enqueue
<1>2. ASSUME NEW k \in Jobs, Q!HandlerReturns(k) \/ Q!HandlerThrows(k) \/ Q!Retry(k)
      PROVE  AbortedAreKnown' /\ \A j \in Jobs : JobStaysSettled(j)
  <2>1. /\ phase[k] \in {"handler", "backoff"} /\ UNCHANGED <<aborted, closed>>
        /\ k \in aborted => phase' = [phase EXCEPT ![k] = "cancelled"]
    BY <1>2 DEF Q!HandlerReturns, Q!HandlerThrows, Q!Retry, Q!Settle
  <2>2. \A j \in Jobs : j # k => phase'[j] = phase[j]
    BY <1>t, <1>2 DEF Q!HandlerReturns, Q!HandlerThrows, Q!Retry, Q!Settle
  <2>3. \A j \in Jobs : JobStaysSettled(j)
    BY <1>t, <2>1, <2>2 DEF JobStaysSettled, Q!Outcomes
  <2> QED BY <1>s, <2>1, <2>3
<1>3. ASSUME NEW k \in Jobs, Q!Finally(k)
      PROVE  AbortedAreKnown' /\ \A j \in Jobs : JobStaysSettled(j)
  <2>1. /\ Q!Pump(queue, running \ {k}, phase) /\ k \in running
        /\ UNCHANGED <<aborted, closed>>
    BY <1>3 DEF Q!Finally
  <2>2. Cardinality(running \ {k}) \in Nat
    <3>1. IsFiniteSet(running \ {k})
      BY FS_RemoveElement DEF SlotsAreBounded
    <3> QED BY <3>1, FS_CardinalityType
  <2>3. \A j \in Jobs : phase[j] # "queued" => phase'[j] = phase[j]
    <3> SUFFICES ASSUME NEW j \in Jobs, phase[j] # "queued"
                 PROVE  phase'[j] = phase[j]
      OBVIOUS
    <3>1. \A i \in 1..Len(queue) : queue[i] # j
      BY <1>t
    <3> QED BY <1>t, <2>1, <2>2, <3>1, PumpStartsWaiting
  <2>4. \A j \in Jobs : JobStaysSettled(j)
    BY <2>3 DEF JobStaysSettled, AbortedAreKnown, Q!Outcomes
  <2> QED BY <1>s, <2>1, <2>4
<1>4. ASSUME Q!Shutdown
      PROVE  AbortedAreKnown' /\ \A j \in Jobs : JobStaysSettled(j)
  <2>1. /\ closed' = TRUE
        /\ phase' = [j \in Jobs |-> IF j \in Q!ToSet(queue) THEN "cancelled" ELSE phase[j]]
        /\ aborted' = aborted \cup Q!ToSet(queue) \cup running
    BY <1>4 DEF Q!Shutdown
  <2>2. \A j \in Q!ToSet(queue) : j \in Jobs /\ phase[j] = "queued"
    BY <1>t, LenProperties DEF Q!ToSet
  <2>3. \A j \in Jobs : JobStaysSettled(j)
    BY <2>1, <2>2 DEF JobStaysSettled, AbortedAreKnown, Q!Outcomes
  <2>4. \A j \in running : j \in Jobs /\ phase[j] \in {"handler", "backoff"} \cup Q!Outcomes
    BY DEF JobsAreKept, Q!TypeOK
  <2>5. AbortedAreKnown'
    BY <1>t, <2>1, <2>2, <2>4 DEF AbortedAreKnown, Q!Outcomes
  <2> QED BY <2>3, <2>5
<1>5. ASSUME (\E d \in Waiters : Q!Drain(d)) \/ UNCHANGED queueVars
      PROVE  AbortedAreKnown' /\ \A j \in Jobs : JobStaysSettled(j)
  <2>1. UNCHANGED <<aborted, closed, phase>>
    BY <1>5 DEF Q!Drain, queueVars
  <2> QED BY <1>s, <2>1 DEF JobStaysSettled
<1> QED BY <1>1, <1>2, <1>3, <1>4, <1>5 DEF Q!Next

\* In every step of every server process a job keeps the result it has, and a
\* job that was told to stop gets no other result than "cancelled", even if its
\* handler ignored the signal and returned.
THEOREM ResultsAreFinal == ProcessSpec => SettledOnce
<1> DEFINE Kept == \A j \in Jobs : JobStaysSettled(j)
<1>1. ProcessInit => AbortedAreKnown
  BY DEF ProcessInit, Q!Init, AbortedAreKnown
<1>2. ProcessInv /\ AbortedAreKnown /\ [ProcessNext]_processVars
         => AbortedAreKnown' /\ Kept
  BY ProcessStepIsBoth, QueueStepSettles DEF ProcessInv
<1>3. ProcessSpec => [][Kept]_processVars
  BY <1>1, <1>2, ProcessSafe, PTL DEF ProcessSpec
<1>4. Kept <=> \A j \in Jobs : /\ phase[j] \in Q!Outcomes => phase'[j] = phase[j]
                               /\ j \in aborted => phase'[j] \in {phase[j], "cancelled"}
  BY DEF JobStaysSettled
<1> QED BY <1>3, <1>4, PTL DEF SettledOnce

-----------------------------------------------------------------------------
(***************************************************************************)
(* The leases of one key, in the process and in Redis.                     *)
(***************************************************************************)
\* What was good once is past its acquisition, and what was granted is good or
\* was good once.
MemInv == /\ MemTypeOK
          /\ \A h \in memPast : memPc[h] \notin {"new", "waiting"}
          /\ \A h \in Handles : memPc[h] = "granted" => h \in MemGood \/ h \in memPast

LEMMA MemStarts == MemInit => MemInv
BY LockAssumption DEF MemInit, MemInv, MemTypeOK, LeaseEntry, NoEntry, MemPhases

\* A call that was not granted is not good, and history grows by what was.
LEMMA MemPastGrows ==
  ASSUME MemInv, MemTypeOK', MemRemember,
         \A h \in Handles : memPc'[h] \in {"new", "waiting"} => memPc[h] = memPc'[h],
         \A h \in Handles : memPc'[h] = "granted" => memPc[h] = "granted" \/ h \in MemGood'
  PROVE  MemInv'
BY DEF MemInv, MemTypeOK, MemRemember, MemGood

LEMMA MemStepKeeps == MemInv /\ [MemNext]_memVars => MemInv'
<1> SUFFICES ASSUME MemInv, [MemNext]_memVars PROVE MemInv'  OBVIOUS
<1>t. /\ entry.owner \in Owners \cup {NoOwner} /\ entry.left \in Nat
      /\ memPc \in [Handles -> MemPhases] /\ memPatience \in [Handles -> Nat]
      /\ memPast \subseteq Handles /\ memPast \cup (MemGood \ MemGood') \subseteq Handles
      /\ OwnerOf \in [Handles -> Owners] /\ LeaseMs \in Nat /\ WaitMs \in Nat
  BY LockAssumption DEF MemInv, MemTypeOK, LeaseEntry, MemGood
<1>1. CASE UNCHANGED memVars
  BY <1>1 DEF memVars, MemInv, MemTypeOK, MemGood, MemHolds
<1>2. ASSUME NEW h \in Handles, MemCall(h) PROVE MemInv'
  <2>1. MemTypeOK'  BY <1>2, <1>t DEF MemCall, MemTypeOK, MemInv, MemPhases
  <2>2. \A g \in memPast : g # h  BY <1>2 DEF MemCall, MemInv
  <2> QED  BY <1>2, <1>t, <2>1, <2>2 DEF MemCall, MemInv, MemGood, MemHolds
<1>3. ASSUME NEW h \in Handles, MemAcquire(h) PROVE MemInv'
  <2>1. MemTypeOK'  BY <1>3, <1>t DEF MemAcquire, MemRemember, MemTypeOK, LeaseEntry, MemPhases
  <2>2. \A g \in Handles : memPc'[g] = "granted" => memPc[g] = "granted" \/ g \in MemGood'
    BY <1>3, <1>t, LockAssumption DEF MemAcquire, MemGood, MemHolds
  <2> QED  BY <1>3, <1>t, <2>1, <2>2, MemPastGrows DEF MemAcquire
<1>4. ASSUME NEW h \in Handles, MemRefuse(h) PROVE MemInv'
  BY <1>4, <1>t DEF MemRefuse, MemInv, MemTypeOK, MemPhases, MemGood, MemHolds
<1>5. ASSUME NEW h \in Handles, MemRenew(h) PROVE MemInv'
  <2>1. MemTypeOK'  BY <1>5, <1>t DEF MemRenew, MemRemember, MemInv, MemTypeOK, LeaseEntry, MemPhases
  <2> QED  BY <1>5, <1>t, <2>1, MemPastGrows DEF MemRenew
<1>6. ASSUME NEW h \in Handles, MemRelease(h) PROVE MemInv'
  <2>1. MemTypeOK'
    BY <1>6, <1>t DEF MemRelease, MemRemember, MemInv, MemTypeOK, LeaseEntry, NoEntry, MemPhases
  <2> QED  BY <1>6, <1>t, <2>1, MemPastGrows DEF MemRelease
<1>7. CASE MemSweep
  BY <1>7, <1>t DEF MemSweep, MemInv, MemTypeOK, LeaseEntry, NoEntry, MemGood, MemHolds
<1>8. CASE MemTick
  <2>1. MemTypeOK'  BY <1>8, <1>t DEF MemTick, MemRemember, MemInv, MemTypeOK, LeaseEntry
  <2> QED  BY <1>8, <1>t, <2>1, MemPastGrows DEF MemTick
<1> QED  BY <1>1, <1>2, <1>3, <1>4, <1>5, <1>6, <1>7, <1>8 DEF MemNext, MemRound

LEMMA MemStepContract ==
  ASSUME MemInv, [MemNext]_memVars
  PROVE  [MemContract!Next]_(MemContract!cvars)
<1>t. /\ entry.owner \in Owners \cup {NoOwner} /\ entry.left \in Nat
      /\ memPc \in [Handles -> MemPhases] /\ OwnerOf \in [Handles -> Owners]
      /\ LeaseMs \in Nat \ {0} /\ NoOwner \notin Owners
      /\ \A h \in memPast : memPc[h] \notin {"new", "waiting"}
  BY LockAssumption DEF MemInv, MemTypeOK, LeaseEntry
<1>e. ASSUME MemGood' \subseteq MemGood, MemRemember, MemAnswered' = MemAnswered
      PROVE  [MemContract!Next]_(MemContract!cvars)
  BY <1>e DEF MemRemember, MemContract!Next, MemContract!End
<1>s. ASSUME MemGood' = MemGood, memPast' = memPast, MemAnswered' = MemAnswered
      PROVE  [MemContract!Next]_(MemContract!cvars)
  BY <1>s DEF MemContract!cvars
<1>1. CASE UNCHANGED memVars
  BY <1>1, <1>s DEF memVars, MemGood, MemHolds, MemAnswered
<1>2. ASSUME NEW h \in Handles, MemCall(h) PROVE [MemContract!Next]_(MemContract!cvars)
  BY <1>2, <1>s, <1>t DEF MemCall, MemGood, MemHolds, MemAnswered
<1>3. ASSUME NEW h \in Handles, MemAcquire(h) PROVE [MemContract!Next]_(MemContract!cvars)
  <2>1. MemGood = {}  BY <1>3, <1>t DEF MemAcquire, MemGood, MemHolds
  <2>2. ASSUME NEW g \in Handles, g \in MemGood', g # h
        PROVE  g \in memPast /\ OwnerOf[g] = OwnerOf[h]
    <3>1. memPc[g] = "granted" /\ OwnerOf[g] = OwnerOf[h]
      BY <1>3, <1>t, <2>2 DEF MemAcquire, MemGood, MemHolds
    <3> QED  BY <2>1, <3>1 DEF MemInv
  <2>3. MemGood' \subseteq {h} \cup {g \in memPast : OwnerOf[g] = OwnerOf[h]}
    BY <2>2 DEF MemGood
  <2>4. memPast' = memPast  BY <1>3, <2>1 DEF MemAcquire, MemRemember
  <2>5. h \notin MemAnswered /\ MemAnswered' = MemAnswered \cup {h}
    BY <1>3, <1>t DEF MemAcquire, MemAnswered
  <2> QED  BY <2>1, <2>3, <2>4, <2>5 DEF MemContract!Next, MemContract!Grant, MemContract!Answer
<1>4. ASSUME NEW h \in Handles, MemRefuse(h) PROVE [MemContract!Next]_(MemContract!cvars)
  <2>1. MemGood' = MemGood /\ memPast' = memPast
    BY <1>4, <1>t DEF MemRefuse, MemGood, MemHolds
  <2>2. h \notin MemAnswered /\ MemAnswered' = MemAnswered \cup {h}
    BY <1>4, <1>t DEF MemRefuse, MemAnswered
  <2> QED  BY <2>1, <2>2 DEF MemContract!Next, MemContract!Refuse, MemContract!Answer
<1>5. ASSUME NEW h \in Handles, MemRenew(h) PROVE [MemContract!Next]_(MemContract!cvars)
  <2>1. entry.owner' = entry.owner /\ (entry.left' > 0 => entry.left > 0 \/ MemHolds(h))
    BY <1>5, <1>t DEF MemRenew, MemInv, MemTypeOK, LeaseEntry
  <2>2. \A g \in Handles : memPc'[g] = "granted" => memPc[g] = "granted"  BY <1>5, <1>t DEF MemRenew
  <2>3. MemGood' \subseteq MemGood  BY <2>1, <2>2 DEF MemGood, MemHolds
  <2>4. MemAnswered' = MemAnswered  BY <1>5, <1>t DEF MemRenew, MemAnswered
  <2> QED  BY <1>5, <1>e, <2>3, <2>4 DEF MemRenew
<1>6. ASSUME NEW h \in Handles, MemRelease(h) PROVE [MemContract!Next]_(MemContract!cvars)
  <2>1. MemGood' \subseteq MemGood  BY <1>6, <1>t DEF MemRelease, MemGood, MemHolds, NoEntry
  <2>2. MemAnswered' = MemAnswered  BY <1>6, <1>t DEF MemRelease, MemAnswered
  <2> QED  BY <1>6, <1>e, <2>1, <2>2 DEF MemRelease
<1>7. CASE MemSweep
  BY <1>7, <1>s, <1>t DEF MemSweep, MemGood, MemHolds, NoEntry, MemAnswered
<1>8. CASE MemTick
  <2>1. MemGood' \subseteq MemGood  BY <1>8, <1>t DEF MemTick, MemGood, MemHolds
  <2>2. MemAnswered' = MemAnswered  BY <1>8 DEF MemTick, MemAnswered
  <2> QED  BY <1>8, <1>e, <2>1, <2>2 DEF MemTick
<1> QED  BY <1>1, <1>2, <1>3, <1>4, <1>5, <1>6, <1>7, <1>8 DEF MemNext, MemRound

\* release() frees the key only when the entry is the releasing owner's.
LEMMA MemStepPrivate ==
  ASSUME MemInv, [MemNext]_memVars,
         NEW g \in Handles, NEW h \in Handles, OwnerOf[g] # OwnerOf[h],
         memPc[g] # "released", memPc'[g] = "released", h \in MemGood
  PROVE  h \in MemGood'
<1>t. memPc \in [Handles -> MemPhases]  BY DEF MemInv, MemTypeOK
<1>1. MemRelease(g)
  BY <1>t DEF MemNext, MemRound, memVars, MemCall, MemAcquire, MemRefuse, MemRenew, MemRelease,
              MemSweep, MemTick
<1> QED  BY <1>1, <1>t DEF MemRelease, MemGood, MemHolds

\* The in-process provider: the Map entry and the phases of the calls are well
\* typed, and what was good once is past its acquisition.
THEOREM MemLockInvariant == MemSpec => []MemInv
BY MemStarts, MemStepKeeps, PTL DEF MemSpec

\* Only one owner's handles are good at a time: they all stand for one entry.
LEMMA OneOwners == []MemContract!OneOwner /\ []RedisContract!OneOwner
<1>1. MemContract!OneOwner  BY DEF MemContract!OneOwner, MemGood, MemHolds
<1>2. RedisContract!OneOwner  BY DEF RedisContract!OneOwner, RedisGood, Owns
<1> QED  BY <1>1, <1>2, PTL

\* The in-process provider implements the contract of a lease, whichever calls
\* share an owner, and release() takes the lease from no other owner.
THEOREM MemLockTheorem ==
  MemSpec => MemKeepsContract /\ MemReleaseIsPrivate
<1>1. MemInit => MemContract!Init
  BY DEF MemInit, MemContract!Init, MemGood, MemAnswered
<1>2. MemInv /\ [MemNext]_memVars => [MemContract!Next]_(MemContract!cvars)  BY MemStepContract
<1>3. MemInv /\ [MemNext]_memVars =>
        [\A g, h \in Handles : /\ OwnerOf[g] # OwnerOf[h] /\ memPc[g] # "released" /\ memPc'[g] = "released"
                               /\ h \in MemGood
                               => h \in MemGood']_memVars
  BY MemStepPrivate
<1>4. MemSpec => MemContract!Spec
  BY <1>1, <1>2, MemLockInvariant, PTL DEF MemSpec, MemContract!Spec
<1>5. MemSpec => MemReleaseIsPrivate
  BY <1>3, MemLockInvariant, PTL DEF MemSpec, MemReleaseIsPrivate
<1> QED  BY <1>4, <1>5 DEF MemKeepsContract

-----------------------------------------------------------------------------
\* What was good once has been asked for before, and what was granted is good or
\* was good once.
RedisInv == /\ RedisTypeOK
            /\ \A h \in redisPast : redisPc[h] # "new"
            /\ \A h \in Handles : redisPc[h] = "granted" => h \in RedisGood \/ h \in redisPast

LEMMA RedisPastGrows ==
  ASSUME RedisInv, RedisTypeOK', RedisRemember,
         \A h \in Handles : redisPc'[h] # "new" \/ redisPc[h] = "new",
         \A h \in Handles : redisPc'[h] = "granted" => redisPc[h] = "granted" \/ h \in RedisGood'
  PROVE  RedisInv'
BY DEF RedisInv, RedisTypeOK, RedisRemember, RedisGood

LEMMA RedisStarts == RedisInit => RedisInv
BY DEF RedisInit, RedisInv, RedisTypeOK, RedisPhases

LEMMA RedisStepKeeps == RedisInv /\ [RedisNext]_redisVars => RedisInv'
<1> SUFFICES ASSUME RedisInv, [RedisNext]_redisVars PROVE RedisInv'  OBVIOUS
<1>t. /\ key \in [owner : Owners, left : 1..LeaseMs] \cup {NoKey}
      /\ redisPc \in [Handles -> RedisPhases] /\ redisPast \subseteq Handles
      /\ redisPast \cup (RedisGood \ RedisGood') \subseteq Handles
      /\ OwnerOf \in [Handles -> Owners] /\ LeaseMs \in Nat \ {0}
      /\ \A h \in redisPast \cup (RedisGood \ RedisGood') : redisPc[h] # "new"
  BY LockAssumption DEF RedisInv, RedisTypeOK, RedisGood
<1>1. CASE UNCHANGED redisVars
  BY <1>1 DEF redisVars, RedisInv, RedisTypeOK, RedisGood, Owns
<1>2. ASSUME NEW h \in Handles, RedisAcquire(h) PROVE RedisInv'
  <2>1. redisPc' \in [Handles -> RedisPhases] /\ \A g \in Handles : redisPc'[g] # "new" \/ redisPc[g] = "new"
    BY <1>2, <1>t DEF RedisAcquire, RedisPhases
  <2>2. key' \in [owner : Owners, left : 1..LeaseMs]  BY <1>2, <1>t DEF RedisAcquire
  <2>3. \A g \in Handles : redisPc'[g] = "granted" => redisPc[g] = "granted" \/ g \in RedisGood'
    BY <1>2, <1>t DEF RedisAcquire, RedisGood, Owns
  <2>4. RedisTypeOK'  BY <1>2, <1>t, <2>1, <2>2 DEF RedisAcquire, RedisRemember, RedisTypeOK
  <2> QED  BY <1>2, <2>1, <2>3, <2>4, RedisPastGrows DEF RedisAcquire
<1>3. ASSUME NEW h \in Handles, RedisRefuse(h) PROVE RedisInv'
  BY <1>3, <1>t DEF RedisRefuse, RedisInv, RedisTypeOK, RedisPhases, RedisGood, Owns
<1>4. ASSUME NEW h \in Handles, RedisRenew(h) PROVE RedisInv'
  <2>1. redisPc' \in [Handles -> RedisPhases] /\ \A g \in Handles : redisPc'[g] # "new" \/ redisPc[g] = "new"
    BY <1>4, <1>t DEF RedisRenew, RedisPhases
  <2>2. key' \in [owner : Owners, left : 1..LeaseMs] \cup {NoKey}
    <3>1. CASE key = NoKey
      BY <1>4, <1>t, <3>1, LockAssumption DEF RedisRenew, Owns, NoKey
    <3>2. CASE key # NoKey
      <4>1. key \in [owner : Owners, left : 1..LeaseMs]  BY <1>t, <3>2
      <4> QED  BY <1>4, <1>t, <4>1 DEF RedisRenew
    <3> QED  BY <3>1, <3>2
  <2>3. RedisTypeOK'  BY <1>4, <1>t, <2>1, <2>2 DEF RedisRenew, RedisRemember, RedisTypeOK, NoKey
  <2> QED  BY <1>4, <1>t, <2>1, <2>3, RedisPastGrows DEF RedisRenew
<1>5. ASSUME NEW h \in Handles, RedisRelease(h) PROVE RedisInv'
  <2>1. redisPc' \in [Handles -> RedisPhases] /\ \A g \in Handles : redisPc'[g] # "new" \/ redisPc[g] = "new"
    BY <1>5, <1>t DEF RedisRelease, RedisPhases
  <2>2. key' \in {key, NoKey}  BY <1>5 DEF RedisRelease
  <2>3. RedisTypeOK'  BY <1>5, <1>t, <2>1, <2>2 DEF RedisRelease, RedisRemember, RedisTypeOK, NoKey
  <2> QED  BY <1>5, <1>t, <2>1, <2>3, RedisPastGrows DEF RedisRelease
<1>6. ASSUME NEW h \in Handles, RedisCrash(h) PROVE RedisInv'
  <2>1. redisPc' \in [Handles -> RedisPhases] /\ \A g \in Handles : redisPc'[g] # "new" \/ redisPc[g] = "new"
    BY <1>6, <1>t DEF RedisCrash, RedisPhases
  <2>3. RedisTypeOK'  BY <1>6, <1>t, <2>1 DEF RedisCrash, RedisRemember, RedisTypeOK, NoKey
  <2> QED  BY <1>6, <1>t, <2>1, <2>3, RedisPastGrows DEF RedisCrash
<1>7. CASE RedisTick
  <2>1. key \in [owner : Owners, left : 1..LeaseMs]  BY <1>7, <1>t DEF RedisTick
  <2>2. key' \in [owner : Owners, left : 1..LeaseMs] \cup {NoKey'}
    BY <1>7, <1>t, <2>1 DEF RedisTick, NoKey
  <2>3. RedisTypeOK'  BY <1>7, <1>t, <2>2 DEF RedisTick, RedisRemember, RedisTypeOK
  <2> QED  BY <1>7, <1>t, <2>3, RedisPastGrows DEF RedisTick
<1> QED  BY <1>1, <1>2, <1>3, <1>4, <1>5, <1>6, <1>7 DEF RedisNext

LEMMA RedisStepContract ==
  ASSUME RedisInv, [RedisNext]_redisVars
  PROVE  [RedisContract!Next]_(RedisContract!cvars)
<1>t. /\ redisPc \in [Handles -> RedisPhases] /\ OwnerOf \in [Handles -> Owners]
      /\ NoOwner \notin Owners /\ \A h \in redisPast : redisPc[h] # "new"
      /\ key \in [owner : Owners, left : 1..LeaseMs] \cup {NoKey}
      /\ NoKey.owner = NoOwner
  BY LockAssumption DEF RedisInv, RedisTypeOK, NoKey
<1>e. ASSUME RedisGood' \subseteq RedisGood, RedisRemember, RedisAnswered' = RedisAnswered
      PROVE  [RedisContract!Next]_(RedisContract!cvars)
  BY <1>e DEF RedisRemember, RedisContract!Next, RedisContract!End
<1>s. ASSUME RedisGood' = RedisGood, redisPast' = redisPast, RedisAnswered' = RedisAnswered
      PROVE  [RedisContract!Next]_(RedisContract!cvars)
  BY <1>s DEF RedisContract!cvars
<1>1. CASE UNCHANGED redisVars
  BY <1>1, <1>s DEF redisVars, RedisGood, Owns, RedisAnswered
<1>2. ASSUME NEW h \in Handles, RedisAcquire(h) PROVE [RedisContract!Next]_(RedisContract!cvars)
  <2>1. RedisGood = {}  BY <1>2, <1>t DEF RedisAcquire, RedisGood, Owns
  <2>2. ASSUME NEW g \in Handles, g \in RedisGood', g # h
        PROVE  g \in redisPast /\ OwnerOf[g] = OwnerOf[h]
    <3>1. redisPc[g] = "granted" /\ OwnerOf[g] = OwnerOf[h]
      BY <1>2, <1>t, <2>2 DEF RedisAcquire, RedisGood, Owns
    <3> QED  BY <2>1, <3>1 DEF RedisInv
  <2>3. RedisGood' \subseteq {h} \cup {g \in redisPast : OwnerOf[g] = OwnerOf[h]}
    BY <2>2 DEF RedisGood
  <2>4. redisPast' = redisPast  BY <1>2, <2>1 DEF RedisAcquire, RedisRemember
  <2>5. h \notin RedisAnswered /\ RedisAnswered' = RedisAnswered \cup {h}
    BY <1>2, <1>t DEF RedisAcquire, RedisAnswered
  <2> QED  BY <2>1, <2>3, <2>4, <2>5 DEF RedisContract!Next, RedisContract!Grant, RedisContract!Answer
<1>3. ASSUME NEW h \in Handles, RedisRefuse(h) PROVE [RedisContract!Next]_(RedisContract!cvars)
  <2>1. RedisGood' = RedisGood /\ redisPast' = redisPast
    BY <1>3, <1>t DEF RedisRefuse, RedisGood, Owns
  <2>2. h \notin RedisAnswered /\ RedisAnswered' = RedisAnswered \cup {h}
    BY <1>3, <1>t DEF RedisRefuse, RedisAnswered
  <2> QED  BY <2>1, <2>2 DEF RedisContract!Next, RedisContract!Refuse, RedisContract!Answer
<1>4. ASSUME NEW h \in Handles, RedisRenew(h) PROVE [RedisContract!Next]_(RedisContract!cvars)
  <2>1. key'.owner = key.owner
    <3>1. CASE ~Owns(h)  BY <1>4, <3>1 DEF RedisRenew
    <3>2. CASE Owns(h)
      <4>1. key \in [owner : Owners, left : 1..LeaseMs]  BY <1>t, <3>2 DEF Owns
      <4> QED  BY <1>4, <3>2, <4>1 DEF RedisRenew
    <3> QED  BY <3>1, <3>2
  <2>2. RedisGood' \subseteq RedisGood  BY <1>4, <1>t, <2>1 DEF RedisRenew, RedisGood, Owns
  <2>9. RedisAnswered' = RedisAnswered  BY <1>4, <1>t DEF RedisRenew, RedisAnswered
  <2> QED  BY <1>4, <1>e, <2>2, <2>9 DEF RedisRenew
<1>5. ASSUME NEW h \in Handles, RedisRelease(h) PROVE [RedisContract!Next]_(RedisContract!cvars)
  <2>1. RedisGood' \subseteq RedisGood  BY <1>5, <1>t DEF RedisRelease, RedisGood, Owns
  <2>9. RedisAnswered' = RedisAnswered  BY <1>5, <1>t DEF RedisRelease, RedisAnswered
  <2> QED  BY <1>5, <1>e, <2>1, <2>9 DEF RedisRelease
<1>6. ASSUME NEW h \in Handles, RedisCrash(h) PROVE [RedisContract!Next]_(RedisContract!cvars)
  <2>1. RedisGood' \subseteq RedisGood  BY <1>6, <1>t DEF RedisCrash, RedisGood, Owns
  <2>9. RedisAnswered' = RedisAnswered  BY <1>6, <1>t DEF RedisCrash, RedisAnswered
  <2> QED  BY <1>6, <1>e, <2>1, <2>9 DEF RedisCrash
<1>7. CASE RedisTick
  <2>1. key'.owner \in {key.owner, NoOwner}
    <3>1. key \in [owner : Owners, left : 1..LeaseMs]  BY <1>7, <1>t DEF RedisTick
    <3> QED  BY <1>7, <1>t, <3>1 DEF RedisTick
  <2>2. RedisGood' \subseteq RedisGood  BY <1>7, <1>t, <2>1 DEF RedisTick, RedisGood, Owns
  <2>9. RedisAnswered' = RedisAnswered  BY <1>7, <1>t DEF RedisTick, RedisAnswered
  <2> QED  BY <1>7, <1>e, <2>2, <2>9 DEF RedisTick
<1> QED  BY <1>1, <1>2, <1>3, <1>4, <1>5, <1>6, <1>7 DEF RedisNext

\* The release script deletes the key only when it holds the releasing owner.
LEMMA RedisStepPrivate ==
  ASSUME RedisInv, [RedisNext]_redisVars,
         NEW g \in Handles, NEW h \in Handles, OwnerOf[g] # OwnerOf[h],
         redisPc[g] # "released", redisPc'[g] = "released", h \in RedisGood
  PROVE  h \in RedisGood'
<1>t. redisPc \in [Handles -> RedisPhases]  BY DEF RedisInv, RedisTypeOK
<1>1. RedisRelease(g)
  BY <1>t DEF RedisNext, redisVars, RedisAcquire, RedisRefuse, RedisRenew, RedisRelease, RedisCrash,
              RedisTick
<1> QED  BY <1>1, <1>t DEF RedisRelease, RedisGood, Owns

\* The Redis provider: a key that exists has an owner and time left, and what was
\* good once has been asked for.
THEOREM RedisLockInvariant == RedisSpec => []RedisInv
BY RedisStarts, RedisStepKeeps, PTL DEF RedisSpec

\* Lost replies, expiry in the server and crashes of holders included, the Redis
\* provider implements the contract of a lease, whichever calls share an owner, and
\* a late release() takes the lease from no other owner.
THEOREM RedisLockTheorem ==
  RedisSpec => RedisKeepsContract /\ RedisReleaseIsPrivate
<1>1. RedisInit => RedisContract!Init
  BY DEF RedisInit, RedisContract!Init, RedisGood, RedisAnswered
<1>2. RedisInv /\ [RedisNext]_redisVars => [RedisContract!Next]_(RedisContract!cvars)
  BY RedisStepContract
<1>3. RedisInv /\ [RedisNext]_redisVars =>
        [\A g, h \in Handles : /\ OwnerOf[g] # OwnerOf[h] /\ redisPc[g] # "released" /\ redisPc'[g] = "released"
                               /\ h \in RedisGood
                               => h \in RedisGood']_redisVars
  BY RedisStepPrivate
<1>4. RedisSpec => RedisContract!Spec
  BY <1>1, <1>2, RedisLockInvariant, PTL DEF RedisSpec, RedisContract!Spec
<1>5. RedisSpec => RedisReleaseIsPrivate
  BY <1>3, RedisLockInvariant, PTL DEF RedisSpec, RedisReleaseIsPrivate
<1> QED  BY <1>4, <1>5 DEF RedisKeepsContract

\* Both providers keep the contract of a lease, for any assignment of owners to calls.
THEOREM LeasesKeepContractTheorem ==
  MemSpec /\ RedisSpec => LeasesKeepContract
<1>1. MemInv => MemTypeOK  BY DEF MemInv
<1>2. RedisInv => RedisTypeOK  BY DEF RedisInv
<1> QED
  BY <1>1, <1>2, MemLockInvariant, MemLockTheorem, RedisLockInvariant, RedisLockTheorem, OneOwners, PTL
  DEF LeasesKeepContract
=============================================================================
