------------------------------ MODULE FileLock ------------------------------
(***************************************************************************)
(* FileLockProvider (src/lock.ts) for one key: a lease file shared by the  *)
(* processes of a host.  Every await is a point where other processes run, *)
(* so each file system call is a step of its own; fs.writeFile is two (it  *)
(* opens the file, which empties or creates it, and then writes).  A write *)
(* goes to the file that was opened, even if that has been unlinked since. *)
(* Each process makes one acquisition, under an owner id of its own.       *)
(***************************************************************************)
EXTENDS Integers

CONSTANTS Procs,
          Torn,          \* the content of a file that cannot be parsed
          LeaseMs, WaitMs,
          MaxSpins,      \* MAX_ACQUIRE_SPINS
          Mortal         \* the processes that may die

\* What the constants are assumed to be.
FileAssumption == /\ Torn \notin Procs
                  /\ LeaseMs \in Nat \ {0} /\ WaitMs \in Nat
                  /\ MaxSpins \in Nat \ {0} /\ Mortal \subseteq Procs

VARIABLES file,          \* the lease file, or NoFile
          pc,            \* the await each process is at
          linked,        \* whether the file it has open is still at the path
          payload,       \* ms left of the expiresAt it is about to write
          mine,          \* ms left of the lease it last wrote
          patience,      \* ms left until acquire()'s deadline
          spins

vars == <<file, pc, linked, payload, mine, patience, spins>>

NoFile == [owner |-> "none", left |-> 0]
Acquiring == {"create", "write", "read", "unlink"}
Renewing  == {"renewOpen", "renewWrite"}
Phases == Acquiring \cup Renewing \cup
          {"new", "held", "lost", "releaseRead", "releaseUnlink", "released", "refused", "crashed"}

Init == /\ file = NoFile
        /\ pc = [p \in Procs |-> "new"]
        /\ linked = [p \in Procs |-> FALSE]
        /\ payload = [p \in Procs |-> 0]
        /\ mine = [p \in Procs |-> 0]
        /\ patience = [p \in Procs |-> 0]
        /\ spins = [p \in Procs |-> 0]

Goto(p, l) == pc' = [pc EXCEPT ![p] = l]

\* open() for writing: the file is there and empty, and p has it open.
Opens(p) == /\ file' = [owner |-> Torn, left |-> 0]
            /\ linked' = [linked EXCEPT ![p] = TRUE]

\* write() of the payload to the open file, wherever that is by now.
Writes(p) == /\ file' = IF linked[p] THEN [owner |-> p, left |-> payload[p]] ELSE file
             /\ mine' = [mine EXCEPT ![p] = payload[p]]
             /\ UNCHANGED linked

Unlinks == /\ file' = NoFile
           /\ linked' = [q \in Procs |-> FALSE]
-----------------------------------------------------------------------------
Call(p) == /\ pc[p] = "new"
           /\ Goto(p, "create")
           /\ patience' = [patience EXCEPT ![p] = WaitMs]
           /\ UNCHANGED <<file, linked, payload, mine, spins>>

\* open(O_CREAT | O_EXCL) of the wx write, or EEXIST.
Create(p) == /\ pc[p] = "create"
             /\ payload' = [payload EXCEPT ![p] = LeaseMs]
             /\ \/ file = NoFile /\ Opens(p) /\ Goto(p, "write")
                \/ file # NoFile /\ Goto(p, "read") /\ UNCHANGED <<file, linked>>
             /\ UNCHANGED <<mine, patience, spins>>

Write(p) == /\ pc[p] = "write"
            /\ Writes(p)
            /\ Goto(p, "held")
            /\ UNCHANGED <<payload, patience, spins>>

\* Another round, unless there have been too many.
Retry(p) == /\ spins' = [spins EXCEPT ![p] = @ + 1]
            /\ Goto(p, IF spins'[p] > MaxSpins THEN "refused" ELSE "create")

MutRead(p) ==            \* a file that cannot be parsed counts as held
    /\ pc[p] = "read"
    /\ \/ file = NoFile /\ Retry(p)
       \/ file # NoFile /\ file.owner # Torn /\ file.left = 0
          /\ Goto(p, "unlink") /\ UNCHANGED spins
       \/ file # NoFile /\ (file.left > 0 \/ file.owner = Torn)
          /\ Goto(p, IF patience[p] = 0 THEN "refused" ELSE "create")
          /\ UNCHANGED spins
    /\ UNCHANGED <<file, linked, payload, mine, patience>>

\* Gone: retry.  Expired or unreadable: reclaim.  Held: poll until the deadline.
Read(p) == /\ pc[p] = "read"
           /\ \/ file = NoFile /\ Retry(p)
              \/ file # NoFile /\ file.left = 0 /\ Goto(p, "unlink") /\ UNCHANGED spins
              \/ /\ file.left > 0
                 /\ Goto(p, IF patience[p] = 0 THEN "refused" ELSE "create")
                 /\ UNCHANGED spins
           /\ UNCHANGED <<file, linked, payload, mine, patience>>

\* The reclaiming unlink removes whatever is at the path by now.
Reclaim(p) == /\ pc[p] = "unlink"
              /\ Unlinks
              /\ Retry(p)
              /\ UNCHANGED <<payload, mine, patience>>
-----------------------------------------------------------------------------
\* renew(): the read, with the owner (and not the expiry) compared ...
RenewRead(p) == /\ pc[p] = "held"
                /\ \/ file.owner = p /\ Goto(p, "renewOpen")
                   \/ file.owner # p /\ Goto(p, "lost")
                /\ payload' = [payload EXCEPT ![p] = LeaseMs]
                /\ UNCHANGED <<file, linked, mine, patience, spins>>

\* ... then the rewrite, which creates the file again if it has gone.
RenewOpen(p) == /\ pc[p] = "renewOpen"
                /\ Opens(p)
                /\ Goto(p, "renewWrite")
                /\ UNCHANGED <<payload, mine, patience, spins>>

RenewWrite(p) == /\ pc[p] = "renewWrite"
                 /\ Writes(p)
                 /\ Goto(p, "held")
                 /\ UNCHANGED <<payload, patience, spins>>

\* release(): the read with the owner compared, then the unlink.
ReleaseRead(p) == /\ pc[p] \in {"held", "lost"}
                  /\ Goto(p, IF file.owner = p THEN "releaseUnlink" ELSE "released")
                  /\ UNCHANGED <<file, linked, payload, mine, patience, spins>>

ReleaseUnlink(p) == /\ pc[p] = "releaseUnlink"
                    /\ Unlinks
                    /\ Goto(p, "released")
                    /\ UNCHANGED <<payload, mine, patience, spins>>

Crash(p) == /\ p \in Mortal /\ pc[p] \notin {"released", "refused", "crashed"}
            /\ Goto(p, "crashed")
            /\ UNCHANGED <<file, linked, payload, mine, patience, spins>>

Less(f) == [p \in Procs |-> IF f[p] > 0 THEN f[p] - 1 ELSE 0]

Tick == /\ file' = [file EXCEPT !.left = IF @ > 0 THEN @ - 1 ELSE 0]
        /\ payload' = Less(payload) /\ mine' = Less(mine) /\ patience' = Less(patience)
        /\ UNCHANGED <<pc, linked, spins>>

AcquireStep(p) == Create(p) \/ Write(p) \/ Read(p) \/ Reclaim(p)
RenewStep(p)   == RenewRead(p) \/ RenewOpen(p) \/ RenewWrite(p)
ReleaseStep(p) == ReleaseRead(p) \/ ReleaseUnlink(p)

Next == \/ \E p \in Procs : \/ Call(p) \/ AcquireStep(p) \/ RenewStep(p)
                            \/ ReleaseStep(p) \/ Crash(p)
        \/ Tick

Spec == Init /\ [][Next]_vars

\* File system calls of a live process return, and time passes.
Fairness == WF_vars(Tick) /\ \A p \in Procs : WF_vars(AcquireStep(p))
-----------------------------------------------------------------------------
TypeOK == /\ file \in [owner : Procs \cup {Torn, "none"}, left : Nat]
          /\ pc \in [Procs -> Phases] /\ linked \in [Procs -> BOOLEAN]
          /\ payload \in [Procs -> Nat] /\ mine \in [Procs -> Nat]
          /\ patience \in [Procs -> Nat] /\ spins \in [Procs -> 0..MaxSpins + 1]

\* The handle of p is in use and the lease it wrote has not run out.
Believes(p) == pc[p] \in {"held"} \cup Renewing /\ mine[p] > 0

\* The exclusive create is the arbiter: two processes never hold unexpired
\* leases on the same key.
MutualExclusion == \A p, q \in Procs : Believes(p) /\ Believes(q) => p = q

\* acquire() never blocks indefinitely: contention is bounded by the spins,
\* a lease that is held by the deadline.
AcquireEnds == \A p \in Procs : pc[p] \in Acquiring ~> pc[p] \notin Acquiring

\* A holder that died, even in the middle of writing its lease, blocks nobody
\* once the lease has run out: the one process that is left and still asking
\* gets it, if contention has not used up its spins already.
DeadHolderDoesNotBlock ==
    \A p \in Procs \ Mortal :
       /\ \A q \in Procs \ {p} : pc[q] = "crashed"
       /\ pc[p] \in Acquiring /\ file.left = 0 /\ spins[p] + 2 <= MaxSpins
       ~> pc[p] = "held"
=============================================================================
