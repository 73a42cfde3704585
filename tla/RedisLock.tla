----------------------------- MODULE RedisLock ------------------------------
(***************************************************************************)
(* RedisLockProvider (src/redis.ts) for one key.  SET NX PX and the two    *)
(* Lua scripts each run atomically in the server, which deletes the key by *)
(* itself when its time is up.  A reply may be lost on its way back, and a *)
(* process may die: the server does not learn of either.  It implements    *)
(* the interface of the in-process provider, with the same parameters.     *)
(***************************************************************************)
EXTENDS InProcessLock

VARIABLES key,           \* the key in the server: its value and time to live
          redisPc,       \* what has become of each acquire() and its handle
          redisPast      \* history: the handles that were good and are not

redisVars == <<key, redisPc, redisPast>>

NoKey == [owner |-> NoOwner, left |-> 0]
RedisPhases == {"new", "refused", "failed", "granted", "lost", "released", "crashed"}

RedisInit == /\ key = NoKey
             /\ redisPc = [h \in Handles |-> "new"]
             /\ redisPast = {}

\* GET KEYS[1] == ARGV[1]
Owns(h) == key.owner = OwnerOf[h]

RedisGood == {h \in Handles : redisPc[h] = "granted" /\ Owns(h)}
RedisRemember == redisPast' = redisPast \cup (RedisGood \ RedisGood')
-----------------------------------------------------------------------------
MutRedisAcquire(h) ==    \* SET without NX
    /\ redisPc[h] = "new"
    /\ key' = [owner |-> OwnerOf[h], left |-> LeaseMs]
    /\ \E outcome \in {"granted", "failed"} : redisPc' = [redisPc EXCEPT ![h] = outcome]
    /\ RedisRemember

\* SET NX PX succeeds.  If its reply is lost the caller gets an exception and
\* no handle, and the key stays until it expires.
RedisAcquire(h) == /\ redisPc[h] = "new"
                   /\ key = NoKey
                   /\ key' = [owner |-> OwnerOf[h], left |-> LeaseMs]
                   /\ \E outcome \in {"granted", "failed"} : redisPc' = [redisPc EXCEPT ![h] = outcome]
                   /\ RedisRemember

\* SET NX returned null: LOCK_TIMEOUT at once, whatever waitMs was asked for.
RedisRefuse(h) == /\ redisPc[h] = "new"
                  /\ key # NoKey
                  /\ redisPc' = [redisPc EXCEPT ![h] = "refused"]
                  /\ UNCHANGED <<key, redisPast>>

\* RENEW_SCRIPT; a false or a missing answer makes the caller abandon the work.
RedisRenew(h) == /\ redisPc[h] = "granted"
                 /\ key' = IF Owns(h) THEN [key EXCEPT !.left = LeaseMs] ELSE key
                 /\ \/ Owns(h) /\ UNCHANGED redisPc
                    \/ redisPc' = [redisPc EXCEPT ![h] = "lost"]
                 /\ RedisRemember

\* RELEASE_SCRIPT, executed whether or not its answer arrives.
RedisRelease(h) == /\ redisPc[h] \in {"granted", "lost"}
                   /\ key' = IF Owns(h) THEN NoKey ELSE key
                   /\ redisPc' = [redisPc EXCEPT ![h] = "released"]
                   /\ RedisRemember

\* The holder's process dies.
RedisCrash(h) == /\ redisPc[h] \in {"granted", "lost"}
                 /\ redisPc' = [redisPc EXCEPT ![h] = "crashed"]
                 /\ UNCHANGED key
                 /\ RedisRemember

\* The server expires the key.
RedisTick == /\ key # NoKey
             /\ key' = IF key.left = 1 THEN NoKey ELSE [key EXCEPT !.left = @ - 1]
             /\ UNCHANGED redisPc
             /\ RedisRemember

RedisNext == \/ \E h \in Handles : \/ RedisAcquire(h) \/ RedisRefuse(h) \/ RedisRenew(h)
                                   \/ RedisRelease(h) \/ RedisCrash(h)
             \/ RedisTick

RedisSpec == RedisInit /\ [][RedisNext]_redisVars

\* The server's clock runs; nothing is assumed of the clients.
RedisFairness == WF_redisVars(RedisTick)
-----------------------------------------------------------------------------
RedisTypeOK == /\ key \in [owner : Owners, left : 1..LeaseMs] \cup {NoKey}
               /\ redisPc \in [Handles -> RedisPhases]
               /\ redisPast \subseteq Handles

\* The calls that the server has answered, whether or not the reply arrived.
RedisAnswered == {h \in Handles : redisPc[h] # "new"}

\* Lost replies and crashes included, one owner at a time has good handles, and
\* a lost lease stays lost until its own owner takes it again.
RedisContract == INSTANCE LeaseContract
                 WITH good <- RedisGood, spent <- redisPast, answered <- RedisAnswered
RedisKeepsContract == RedisContract!Spec

\* A release that comes after the lease was reclaimed and taken by a peer
\* leaves the peer's lease alone.
RedisReleaseIsPrivate ==
    [][\A g, h \in Handles :
          /\ OwnerOf[g] # OwnerOf[h] /\ redisPc[g] # "released" /\ redisPc'[g] = "released"
          /\ h \in RedisGood
          => h \in RedisGood']_redisVars

\* The in-process and the Redis provider keep the contract of a lease, for calls
\* that pass owners of their own and for calls that share the default owner of
\* their process: two owners never have good handles at a time, a lost handle is
\* good again only when its own owner has taken the lease again, and giving up a
\* handle, however late, takes the lease from no other owner.
LeasesKeepContract == /\ [](MemTypeOK /\ RedisTypeOK)
                      /\ MemKeepsContract /\ []MemContract!OneOwner /\ MemReleaseIsPrivate
                      /\ RedisKeepsContract /\ []RedisContract!OneOwner /\ RedisReleaseIsPrivate

\* A lease that no handle can renew, because its owner crashed or never learnt
\* that it had it, does not block the key for ever: it runs out, or its owner
\* takes the lease again.
OrphanedLeaseExpires == key # NoKey /\ RedisGood = {} ~> key = NoKey \/ RedisGood # {}
=============================================================================
