--------------------------- MODULE InProcessLock ----------------------------
(***************************************************************************)
(* InProcessLockProvider (src/lock.ts) for one key: a Map entry with an    *)
(* owner and an expiry, and the handles that acquire() gave out.  Every    *)
(* method runs between two awaits, hence in one step.  Times are kept as   *)
(* the milliseconds left, 0 standing for "in the past".                    *)
(***************************************************************************)
EXTENDS Integers

CONSTANTS Handles,       \* the calls of acquire()
          Owners,        \* lease owners
          NoOwner,       \* no entry in the Map
          OwnerOf,       \* the owner each call passes, or the process default
          LeaseMs,       \* leaseMs of acquire() and renew()
          WaitMs         \* waitMs of acquire(); its default is 0

\* What the constants are assumed to be.
ASSUME LockAssumption == /\ OwnerOf \in [Handles -> Owners]
                         /\ NoOwner \notin Owners
                         /\ LeaseMs \in Nat \ {0} /\ WaitMs \in Nat

VARIABLES entry,         \* the Map entry of the key
          memPc,         \* where each call of acquire(), or its handle, is
          memPatience,   \* the milliseconds left to a waiting acquire()
          memPast        \* history: the handles that were good and are not

memVars == <<entry, memPc, memPatience, memPast>>

LeaseEntry == [owner : Owners \cup {NoOwner}, left : Nat]
NoEntry    == [owner |-> NoOwner, left |-> 0]
MemPhases  == {"new", "waiting", "refused", "granted", "lost", "released"}

MemInit == /\ entry = NoEntry
           /\ memPc = [h \in Handles |-> "new"]
           /\ memPatience = [h \in Handles |-> 0]
           /\ memPast = {}

\* The entry says that the handle is still its holder: isHeld(), and the test
\* that renew() makes.
MemHolds(h) == entry.owner = OwnerOf[h] /\ entry.left > 0

MemGood == {h \in Handles : memPc[h] = "granted" /\ MemHolds(h)}

\* History of the step: what was good before it and is not after it.
MemRemember == memPast' = memPast \cup (MemGood \ MemGood')
-----------------------------------------------------------------------------
MemCall(h) == /\ memPc[h] = "new"
              /\ memPc' = [memPc EXCEPT ![h] = "waiting"]
              /\ memPatience' = [memPatience EXCEPT ![h] = WaitMs]
              /\ UNCHANGED <<entry, memPast>>

\* One round of acquire() that finds the key free or its lease expired.
MemAcquire(h) == /\ memPc[h] = "waiting"
                 /\ entry.left = 0
                 /\ entry' = [owner |-> OwnerOf[h], left |-> LeaseMs]
                 /\ memPc' = [memPc EXCEPT ![h] = "granted"]
                 /\ UNCHANGED memPatience
                 /\ MemRemember

\* The lease is held and the deadline has passed: LOCK_TIMEOUT.
MemRefuse(h) == /\ memPc[h] = "waiting"
                /\ entry.left > 0 /\ memPatience[h] = 0
                /\ memPc' = [memPc EXCEPT ![h] = "refused"]
                /\ UNCHANGED <<entry, memPatience, memPast>>

\* renew(): extend the lease, or return false, upon which the work is abandoned.
MemRenew(h) == /\ memPc[h] = "granted"
               /\ \/ MemHolds(h) /\ entry' = [entry EXCEPT !.left = LeaseMs] /\ UNCHANGED memPc
                  \/ ~MemHolds(h) /\ memPc' = [memPc EXCEPT ![h] = "lost"] /\ UNCHANGED entry
               /\ UNCHANGED memPatience
               /\ MemRemember

\* release(), which withLock() calls however its body ended.
MemRelease(h) == /\ memPc[h] \in {"granted", "lost"}
                 /\ entry' = IF entry.owner = OwnerOf[h] THEN NoEntry ELSE entry
                 /\ memPc' = [memPc EXCEPT ![h] = "released"]
                 /\ UNCHANGED memPatience
                 /\ MemRemember

\* inspect() and sweep() drop a lease that has expired.
MemSweep == /\ entry.owner # NoOwner /\ entry.left = 0
            /\ entry' = NoEntry
            /\ UNCHANGED <<memPc, memPatience, memPast>>

\* Time passes.
MemTick == /\ entry' = [entry EXCEPT !.left = IF @ > 0 THEN @ - 1 ELSE 0]
           /\ memPatience' = [h \in Handles |-> IF memPatience[h] > 0 THEN memPatience[h] - 1 ELSE 0]
           /\ UNCHANGED memPc
           /\ MemRemember

MemRound(h) == MemAcquire(h) \/ MemRefuse(h)

MemNext == \/ \E h \in Handles : MemCall(h) \/ MemRound(h) \/ MemRenew(h) \/ MemRelease(h)
           \/ MemSweep
           \/ MemTick

MemSpec == MemInit /\ [][MemNext]_memVars

\* A waiting acquire() polls again and again, and time passes.  No holder is
\* assumed ever to release, or to stop renewing.
MemFairness == WF_memVars(MemTick) /\ \A h \in Handles : WF_memVars(MemRound(h))
-----------------------------------------------------------------------------
MemTypeOK == /\ entry \in LeaseEntry
             /\ memPc \in [Handles -> MemPhases]
             /\ memPatience \in [Handles -> Nat]
             /\ memPast \subseteq Handles

\* The calls that acquire() has answered.
MemAnswered == {h \in Handles : memPc[h] \notin {"new", "waiting"}}

\* Whichever calls share an owner: one owner at a time has good handles, and a
\* lost lease stays lost until its own owner takes it again.
MemContract == INSTANCE LeaseContract
               WITH good <- MemGood, spent <- memPast, answered <- MemAnswered
MemKeepsContract == MemContract!Spec

\* Giving up a handle takes nothing from another owner: when release() runs,
\* the handles of other owners that were good stay good.
MemReleaseIsPrivate ==
    [][\A g, h \in Handles :
          /\ OwnerOf[g] # OwnerOf[h] /\ memPc[g] # "released" /\ memPc'[g] = "released"
          /\ h \in MemGood
          => h \in MemGood']_memVars

\* acquire() never blocks for ever: it is granted or refused.
MemAcquireEnds == \A h \in Handles : memPc[h] = "waiting" ~> memPc[h] # "waiting"
=============================================================================
