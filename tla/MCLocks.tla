------------------------------ MODULE MCLocks -------------------------------
(***************************************************************************)
(* The three LockProviders side by side, on a key of their own each.  A    *)
(* deployment uses one of them: in an initial state one is fresh and the   *)
(* others have given out and taken back all their leases.                  *)
(***************************************************************************)
EXTENDS RedisLock

CONSTANTS a, b, c, Torn, MaxSpins

Clients == {a, b, c}
\* a and b are calls of one process that pass no owner and get its default.
Shared  == [h \in Clients |-> IF h = c THEN c ELSE a]
Procs   == {a, b}

VARIABLES file, filePc, linked, payload, mine, filePatience, spins

fileVars == <<file, filePc, linked, payload, mine, filePatience, spins>>

F == INSTANCE FileLock WITH Mortal <- {a}, pc <- filePc, patience <- filePatience

ASSUME F!FileAssumption

Providers == {"mem", "redis", "file"}

Init == /\ entry = NoEntry /\ key = NoKey /\ file = F!NoFile
        /\ memPatience = [h \in Clients |-> 0] /\ memPast = {} /\ redisPast = {}
        /\ linked = [p \in Procs |-> FALSE]
        /\ payload = [p \in Procs |-> 0] /\ mine = [p \in Procs |-> 0]
        /\ filePatience = [p \in Procs |-> 0] /\ spins = [p \in Procs |-> 0]
        /\ \E used \in Providers :
              /\ memPc = [h \in Clients |-> IF used = "mem" THEN "new" ELSE "released"]
              /\ redisPc = [h \in Clients |-> IF used = "redis" THEN "new" ELSE "released"]
              /\ filePc = [p \in Procs |-> IF used = "file" THEN "new" ELSE "released"]

Next == \/ MemNext /\ UNCHANGED <<redisVars, fileVars>>
        \/ RedisNext /\ UNCHANGED <<memVars, fileVars>>
        \/ F!Next /\ UNCHANGED <<memVars, redisVars>>

Spec == Init /\ [][Next]_<<memVars, redisVars, fileVars>>
FairSpec == Spec /\ MemFairness /\ RedisFairness /\ F!Fairness
-----------------------------------------------------------------------------
\* Nobody waits for ever: acquire() ends, by its deadline or by the number of its
\* spins; a Redis lease that no handle can renew, because its owner crashed or never
\* learnt that it had it, runs out; and a process that died, even while it was writing its lease file, blocks
\* nobody once the lease has run out.
NobodyWaitsForEver == /\ []F!TypeOK
                      /\ MemAcquireEnds /\ F!AcquireEnds
                      /\ OrphanedLeaseExpires
                      /\ F!DeadHolderDoesNotBlock

\* The exclusive create is the arbiter: two processes never hold unexpired
\* file leases on the same key.
FileMutualExclusion == F!MutualExclusion
=============================================================================
