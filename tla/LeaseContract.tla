--------------------------- MODULE LeaseContract ----------------------------
(***************************************************************************)
(* What a LockProvider promises about one key (src/lock.ts, docs/lock.md). *)
(* A lease belongs to an owner, and handles are what its owner was given:  *)
(* the handles that are good at a time all belong to one owner, a lease is *)
(* taken only while there is none, and a handle that has stopped being     *)
(* good is good again only if its own owner takes the lease once more.     *)
(* Where every call has an owner of its own, that is one good handle at a  *)
(* time, and what is lost stays lost.                                      *)
(***************************************************************************)
CONSTANTS Handles, OwnerOf

VARIABLES good,          \* the handles whose renew() would return true
          spent,         \* the handles that were good and at some time no longer
          answered       \* the calls of acquire() that have got an answer

cvars == <<good, spent, answered>>

Init == good = {} /\ spent = {} /\ answered \in SUBSET Handles

\* A call is answered once, with the lease or without.
Answer(h) == h \notin answered /\ answered' = answered \cup {h}

Grant(h) == /\ good = {}
            /\ Answer(h)
            /\ good' \subseteq {h} \cup {g \in spent : OwnerOf[g] = OwnerOf[h]}
            /\ UNCHANGED spent

Refuse(h) == Answer(h) /\ UNCHANGED <<good, spent>>

End == /\ good' \subseteq good
       /\ spent' = spent \cup (good \ good')
       /\ UNCHANGED answered

Next == (\E h \in Handles : Grant(h) \/ Refuse(h)) \/ End

Spec == Init /\ [][Next]_cvars

\* What the contract is for: two owners are never both at work.
OneOwner == \A g, h \in good : OwnerOf[g] = OwnerOf[h]
=============================================================================
