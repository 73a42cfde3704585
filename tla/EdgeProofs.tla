----------------------------- MODULE EdgeProofs -----------------------------
(***************************************************************************)
(* What stands between a request and the memory service, proved for every  *)
(* value of the constants: the budgets, the admission of requests, the     *)
(* tenant directory, the policy, the lifecycle and the audit log.  The     *)
(* models share no variable, and each has an inductive invariant of its    *)
(* own.                                                                    *)
(***************************************************************************)
EXTENDS RateLimits, HttpServer, Tenants, GuardedService, Lifecycle, PolicyAudit,
        FiniteSetTheorems, TLAPS
-----------------------------------------------------------------------------
(* The budgets of RateLimits: what the windows remember.                   *)
Charges == [r : Calls, time : Nat]
RequestPlaces == {"new", "queued", "charge", "denied", "admitted", "sent", "refused", "charged",
                  "charged late", "admitted late", "unavailable"}

LimitTyped ==
    /\ limitClock \in Nat /\ forgotten \subseteq Keys
    /\ req \in [Calls -> [at : RequestPlaces, time : Nat]]
    /\ window \in [Keys -> SUBSET Charges] /\ \A k \in Keys : IsFiniteSet(window[k])
    /\ store \in {"process", "redis"}
    /\ store = "process" => \A r \in Calls : req[r].at \in {"new", "queued", "charge", "denied", "admitted"}
    /\ store = "redis"   => \A r \in Calls : req[r].at \notin {"queued", "charge"}
    /\ \A r \in Calls : req[r].time <= limitClock

\* The requests that count against a key, those whose answer is under way included.
Spent(k) == {r \in Calls : req[r].at \in {"charged", "admitted"} /\ k \in Charged[r]}
Mark(r) == [r |-> r, time |-> req[r].time]

\* What may still be within the window of a key that was not evicted is in it.
WindowsRemember ==
    \A k \in Keys \ forgotten : \A r \in Spent(k) :
        limitClock - req[r].time < Window(k) => Mark(r) \in window[k]

\* The request between its decision and its charge is alone, and has room.
OneDecides ==
    /\ tail \in Seq(Calls)
    /\ \A r \in Calls : /\ req[r].at \in {"queued", "charge"} => \E i \in 1 .. Len(tail) : tail[i] = r
                        /\ req[r].at = "charge" => Head(tail) = r /\ Room(r)

SpanOf(k, t) == {r \in Spent(k) : t <= req[r].time /\ req[r].time < t + Window(k)}
SpansWithin ==
    \A k \in Keys \ forgotten, t \in Nat : IsFiniteSet(SpanOf(k, t)) /\ Cardinality(SpanOf(k, t)) <= Limit(k)

LimitInv == LimitTyped /\ WindowsRemember /\ OneDecides /\ SpansWithin

LEMMA PolicyOf ==
    ASSUME NEW k \in Keys
    PROVE  /\ Limit(k) \in Nat /\ Limit(k) > 0 /\ Window(k) \in Nat /\ Window(k) > 0
BY LimitAssumption DEF Dims, Policies, Limit, Window

\* A charge that found room keeps every span of the key within the limit.
LEMMA RoomForOne ==
    ASSUME LimitInv, NEW k \in Keys \ forgotten, NEW t \in Nat, NEW r \in Calls,
           Cardinality(Pruned(k, window, limitClock)) < Limit(k), limitClock < t + Window(k)
    PROVE  IsFiniteSet(SpanOf(k, t) \cup {r}) /\ Cardinality(SpanOf(k, t) \cup {r}) <= Limit(k)
<1> DEFINE S == SpanOf(k, t)
           P == Pruned(k, window, limitClock)
           f == [x \in S |-> Mark(x)]
<1>0. /\ limitClock \in Nat /\ Window(k) \in Nat /\ Limit(k) \in Nat /\ k \in Keys
      /\ \A x \in S : x \in Calls /\ req[x].time \in Nat /\ req[x].time <= limitClock /\ t <= req[x].time
  BY PolicyOf DEF LimitInv, LimitTyped, SpanOf, Spent
<1>1. \A x \in S : Mark(x) \in P
  <2> SUFFICES ASSUME NEW x \in S PROVE Mark(x) \in P  OBVIOUS
  <2>1. limitClock - req[x].time < Window(k)  BY <1>0
  <2>2. Mark(x) \in window[k]  BY <2>1 DEF LimitInv, WindowsRemember, SpanOf
  <2> QED  BY <2>1, <2>2 DEF Pruned, Mark
<1>2. f \in Injection(S, P)
  <2>1. f \in [S -> P]  BY <1>1
  <2>2. \A x, y \in S : f[x] = f[y] => x = y  BY DEF Mark
  <2> HIDE DEF f, S, P
  <2> QED  BY <2>1, <2>2 DEF Injection, IsInjective
<1>3. IsFiniteSet(P)
  <2>1. P \subseteq window[k] /\ IsFiniteSet(window[k])  BY <1>0 DEF Pruned, LimitInv, LimitTyped
  <2> HIDE DEF P
  <2> QED  BY <2>1, FS_Subset
<1> HIDE DEF f, S, P
<1>4. IsFiniteSet(S) /\ Cardinality(S) <= Cardinality(P)  BY <1>2, <1>3, FS_Injection
<1>5. Cardinality(S) \in Nat /\ Cardinality(P) \in Nat  BY <1>3, <1>4, FS_CardinalityType
<1>6. IsFiniteSet(S \cup {r}) /\ Cardinality(S \cup {r}) <= Cardinality(S) + 1
  <2>1. IsFiniteSet(S)  BY <1>4
  <2>2. /\ IsFiniteSet(S \cup {r})
        /\ Cardinality(S \cup {r}) = IF r \in S THEN Cardinality(S) ELSE Cardinality(S) + 1
    BY <2>1, FS_AddElement
  <2> QED  BY <1>5, <2>2
<1>7. Cardinality(P) < Limit(k)  BY DEF P
<1>8. Cardinality(S \cup {r}) \in Nat  BY <1>6, FS_CardinalityType
<1>9. IsFiniteSet(S \cup {r}) /\ Cardinality(S \cup {r}) <= Limit(k)  BY <1>0, <1>4, <1>5, <1>6, <1>7, <1>8
<1> QED  BY <1>9 DEF S

\* Entries that may still count are kept by every step.
Remembers == \A k \in Keys \ forgotten' : \A c \in window[k] :
                limitClock' - c.time < Window(k) => c \in window'[k]

\* Nothing but charges adds to the requests that count.
Passes == /\ forgotten \subseteq forgotten' /\ forgotten' \subseteq Keys
          /\ limitClock' \in Nat /\ limitClock <= limitClock'
          /\ Remembers

LEMMA NoneSpent ==
    ASSUME LimitInv, Passes,
           \A r \in Calls : req'[r].at \in {"charged", "admitted"} =>
              req[r].at \in {"charged", "admitted"} /\ req'[r].time = req[r].time
    PROVE  WindowsRemember' /\ SpansWithin'
<1>1. WindowsRemember'
  <2> SUFFICES ASSUME NEW k \in Keys \ forgotten', NEW r \in Spent(k)', limitClock' - req'[r].time < Window(k)
               PROVE  Mark(r)' \in window'[k]
    BY DEF WindowsRemember
  <2>1. r \in Spent(k) /\ req'[r].time = req[r].time /\ Mark(r)' = Mark(r) /\ r \in Calls
    BY DEF Spent, Mark
  <2>2. /\ limitClock - req[r].time < Window(k) /\ k \in Keys \ forgotten
        /\ limitClock' - Mark(r).time < Window(k)
    BY <2>1, PolicyOf DEF LimitInv, LimitTyped, Passes, Mark
  <2>3. Mark(r) \in window[k]  BY <2>1, <2>2 DEF LimitInv, WindowsRemember
  <2> QED  BY <2>1, <2>2, <2>3 DEF Passes, Remembers
<1>2. SpansWithin'
  <2> SUFFICES ASSUME NEW k \in Keys \ forgotten', NEW t \in Nat
               PROVE  IsFiniteSet(SpanOf(k, t)') /\ Cardinality(SpanOf(k, t)') <= Limit(k)
    BY DEF SpansWithin
  <2>1. k \in Keys \ forgotten  BY DEF Passes
  <2>2. SpanOf(k, t)' \subseteq SpanOf(k, t)  BY DEF SpanOf, Spent
  <2>3. IsFiniteSet(SpanOf(k, t)) /\ Cardinality(SpanOf(k, t)) <= Limit(k)
    BY <2>1 DEF LimitInv, SpansWithin
  <2>4. /\ IsFiniteSet(SpanOf(k, t)') /\ Cardinality(SpanOf(k, t)') <= Cardinality(SpanOf(k, t))
        /\ Cardinality(SpanOf(k, t)) \in Nat /\ Cardinality(SpanOf(k, t)') \in Nat
    BY <2>2, <2>3, FS_Subset, FS_CardinalityType
  <2> QED  BY <2>1, <2>3, <2>4, PolicyOf
<1> QED  BY <1>1, <1>2

\* One request is charged, at the time the room was seen.
LEMMA OneSpent ==
    ASSUME LimitInv, Passes, limitClock' = limitClock, NEW r \in Calls,
           req'[r].at \in {"charged", "admitted"}, req'[r].time = limitClock,
           \A s \in Calls \ {r} : req'[s] = req[s],
           req[r].at \notin {"charged", "admitted"},
           \A k \in Charged[r] : /\ Cardinality(Pruned(k, window, limitClock)) < Limit(k)
                                 /\ [r |-> r, time |-> limitClock] \in window'[k]
    PROVE  WindowsRemember' /\ SpansWithin'
<1>1. WindowsRemember'
  <2> SUFFICES ASSUME NEW k \in Keys \ forgotten', NEW s \in Spent(k)', limitClock' - req'[s].time < Window(k)
               PROVE  Mark(s)' \in window'[k]
    BY DEF WindowsRemember
  <2>1. CASE s = r  BY <2>1 DEF Spent, Mark
  <2>2. CASE s # r
    <3>1. s \in Spent(k) /\ req'[s] = req[s] /\ Mark(s)' = Mark(s) /\ Mark(s).time = req[s].time
      BY <2>2 DEF Spent, Mark
    <3>2. k \in Keys \ forgotten  BY DEF Passes
    <3>3. Mark(s) \in window[k]  BY <3>1, <3>2 DEF LimitInv, WindowsRemember
    <3> QED  BY <3>1, <3>3 DEF Passes, Remembers
  <2> QED  BY <2>1, <2>2
<1>2. SpansWithin'
  <2> SUFFICES ASSUME NEW k \in Keys \ forgotten', NEW t \in Nat
               PROVE  IsFiniteSet(SpanOf(k, t)') /\ Cardinality(SpanOf(k, t)') <= Limit(k)
    BY DEF SpansWithin
  <2>1. k \in Keys \ forgotten  BY DEF Passes
  <2>2. \E B : /\ SpanOf(k, t)' \subseteq B
               /\ IsFiniteSet(B) /\ Cardinality(B) <= Limit(k)
    <3>1. CASE k \in Charged[r] /\ limitClock < t + Window(k)
      <4>1. SpanOf(k, t)' \subseteq SpanOf(k, t) \cup {r}  BY DEF SpanOf, Spent
      <4> QED  BY <2>1, <3>1, <4>1, RoomForOne
    <3>2. CASE ~(k \in Charged[r] /\ limitClock < t + Window(k))
      <4>1. SpanOf(k, t)' \subseteq SpanOf(k, t)  BY <3>2 DEF SpanOf, Spent
      <4> QED  BY <2>1, <4>1 DEF LimitInv, SpansWithin
    <3> QED  BY <3>1, <3>2
  <2>3. PICK B : SpanOf(k, t)' \subseteq B /\ IsFiniteSet(B) /\ Cardinality(B) <= Limit(k)  BY <2>2
  <2>4. /\ IsFiniteSet(SpanOf(k, t)') /\ Cardinality(SpanOf(k, t)') <= Cardinality(B)
        /\ Cardinality(B) \in Nat /\ Cardinality(SpanOf(k, t)') \in Nat
    BY <2>3, FS_Subset, FS_CardinalityType
  <2> QED  BY <2>1, <2>3, <2>4, PolicyOf
<1> QED  BY <1>1, <1>2

\* What is left of a window when it is pruned is finite and was there before.
LEMMA PrunedPart ==
    ASSUME LimitTyped, NEW k \in Keys, NEW now \in Nat
    PROVE  /\ Pruned(k, window, now) \subseteq window[k] /\ IsFiniteSet(Pruned(k, window, now))
           /\ Pruned(k, window, now) \subseteq Charges
<1>1. Pruned(k, window, now) \subseteq window[k] /\ IsFiniteSet(window[k]) /\ window[k] \subseteq Charges
  BY DEF LimitTyped, Pruned
<1> QED  BY <1>1, FS_Subset

\* An access prunes the windows of the request, and drops those it evicts.
LEMMA AccessDoes ==
    ASSUME LimitTyped, NEW r \in Calls, NEW charge \in BOOLEAN, Access(r, charge)
    PROVE  /\ forgotten \subseteq forgotten' /\ forgotten' \subseteq Keys
           /\ DOMAIN window' = Keys /\ window' = [k \in Keys |-> window'[k]]
           /\ \A k \in Charged[r] :
                 window'[k] = IF charge THEN Pruned(k, window, limitClock) \cup {[r |-> r, time |-> limitClock]}
                                        ELSE Pruned(k, window, limitClock)
           /\ \A k \in Keys \ Charged[r] :
                 \/ window'[k] = window[k]
                 \/ window'[k] = {} /\ (k \in forgotten' \/ Lapsed(k, window))
<1> DEFINE tracked == Tracked(r)
           kept == Charged[r] \cup UNION {ToSet(tracked[d]) : d \in Dims}
           live(k) == IF k \in Charged[r] THEN Pruned(k, window, limitClock) ELSE window[k]
<1>1. /\ window' = [k \in Keys |->
                       IF k \notin kept THEN {}
                       ELSE IF charge /\ k \in Charged[r] THEN live(k) \cup {[r |-> r, time |-> limitClock]}
                                                         ELSE live(k)]
      /\ forgotten' = forgotten \cup {k \in Keys \ kept : ~Lapsed(k, window)}
  BY DEF Access
<1>2. Charged[r] \subseteq kept /\ Charged[r] \subseteq Keys  BY LimitAssumption
<1> HIDE DEF kept
<1>3. forgotten \subseteq forgotten' /\ forgotten' \subseteq Keys  BY <1>1 DEF LimitTyped
<1>4. \A k \in Charged[r] :
         window'[k] = IF charge THEN Pruned(k, window, limitClock) \cup {[r |-> r, time |-> limitClock]}
                                ELSE Pruned(k, window, limitClock)
  BY <1>1, <1>2
<1>5. \A k \in Keys \ Charged[r] :
         \/ window'[k] = window[k]
         \/ window'[k] = {} /\ (k \in forgotten' \/ Lapsed(k, window))
  BY <1>1
<1> QED  BY <1>1, <1>3, <1>4, <1>5

LEMMA AccessTyped ==
    ASSUME LimitTyped, NEW r \in Calls, NEW charge \in BOOLEAN, Access(r, charge), limitClock' = limitClock
    PROVE  /\ window' \in [Keys -> SUBSET Charges] /\ \A k \in Keys : IsFiniteSet(window'[k])
           /\ Passes
<1>0. limitClock \in Nat /\ Charged[r] \subseteq Keys  BY LimitAssumption DEF LimitTyped
<1>1. ASSUME NEW k \in Keys
      PROVE  window'[k] \subseteq Charges /\ IsFiniteSet(window'[k])
  <2>1. CASE k \in Charged[r]
    <3>1. /\ IsFiniteSet(Pruned(k, window, limitClock)) /\ Pruned(k, window, limitClock) \subseteq Charges
          /\ [r |-> r, time |-> limitClock] \in Charges
      BY <1>0, PrunedPart DEF Charges
    <3>2. IsFiniteSet(Pruned(k, window, limitClock) \cup {[r |-> r, time |-> limitClock]})
      BY <3>1, FS_AddElement
    <3>3. window'[k] = Pruned(k, window, limitClock) \cup {[r |-> r, time |-> limitClock]}
          \/ window'[k] = Pruned(k, window, limitClock)
      BY <2>1, AccessDoes
    <3>4. {[r |-> r, time |-> limitClock]} \subseteq Charges  BY <3>1
    <3> QED  BY <3>1, <3>2, <3>3, <3>4
  <2>2. CASE k \notin Charged[r]
    BY <2>2, AccessDoes, FS_EmptySet DEF LimitTyped
  <2> QED  BY <2>1, <2>2
<1>2. window' \in [Keys -> SUBSET Charges]
  <2> DEFINE f == window'
  <2>1. f = [k \in Keys |-> f[k]] /\ \A k \in Keys : f[k] \in SUBSET Charges  BY <1>1, AccessDoes
  <2> HIDE DEF f
  <2>2. f \in [Keys -> SUBSET Charges]  BY <2>1
  <2> QED  BY <2>2 DEF f
<1>3. Remembers
  <2> SUFFICES ASSUME NEW k \in Keys \ forgotten', NEW c \in window[k], limitClock - c.time < Window(k)
               PROVE  c \in window'[k]
    BY DEF Remembers
  <2>1. c.time \in Nat /\ Window(k) \in Nat  BY PolicyOf DEF LimitTyped, Charges
  <2>2. CASE k \in Charged[r]
    <3>1. c \in Pruned(k, window, limitClock)  BY DEF Pruned
    <3>2. window'[k] = IF charge THEN Pruned(k, window, limitClock) \cup {[r |-> r, time |-> limitClock]}
                                 ELSE Pruned(k, window, limitClock)
      BY <2>2, AccessDoes
    <3> QED  BY <3>1, <3>2
  <2>3. CASE k \notin Charged[r]
    <3>1. ~Lapsed(k, window)  BY <1>0, <2>1 DEF Lapsed
    <3> QED  BY <2>3, <3>1, AccessDoes
  <2> QED  BY <2>2, <2>3
<1> QED  BY <1>0, <1>1, <1>2, <1>3, AccessDoes DEF Passes

\* Whoever waits behind another one stays in line.
LEMMA InLine ==
    ASSUME NEW q \in Seq(Calls), NEW s, NEW i \in 1 .. Len(q), q[i] = s
    PROVE  /\ q # <<>> /\ Tail(q) \in Seq(Calls) /\ Head(q) \in Calls
           /\ s # Head(q) => \E j \in 1 .. Len(Tail(q)) : Tail(q)[j] = s
           /\ \A r \in Calls : /\ Append(q, r) \in Seq(Calls) /\ Head(Append(q, r)) = Head(q)
                               /\ \E j \in 1 .. Len(Append(q, r)) : Append(q, r)[j] = s
<1>1. q # <<>> /\ Tail(q) \in Seq(Calls) /\ Head(q) \in Calls  OBVIOUS
<1>2. ASSUME s # Head(q) PROVE \E j \in 1 .. Len(Tail(q)) : Tail(q)[j] = s
  <2>1. i # 1  BY <1>1, <1>2
  <2>2. i - 1 \in 1 .. Len(Tail(q)) /\ Tail(q)[i - 1] = q[i]  BY <1>1, <2>1
  <2> QED  BY <2>2
<1>3. ASSUME NEW r \in Calls
      PROVE  /\ Append(q, r) \in Seq(Calls) /\ Head(Append(q, r)) = Head(q)
             /\ \E j \in 1 .. Len(Append(q, r)) : Append(q, r)[j] = s
  <2>1. /\ Append(q, r) \in Seq(Calls) /\ Head(Append(q, r)) = Head(q)
        /\ i \in 1 .. Len(Append(q, r)) /\ Append(q, r)[i] = q[i]
    BY <1>1
  <2> QED  BY <2>1
<1> QED  BY <1>1, <1>2, <1>3

\* Requests of one process: in line, decided, charged.
LEMMA EnterKeeps ==
    ASSUME LimitInv, NEW r \in Calls, Enter(r)
    PROVE  LimitInv'
<1>0. /\ limitClock' = limitClock /\ store' = store /\ limitClock \in Nat
      /\ store = "process" /\ req[r].at = "new" /\ window' = window /\ forgotten' = forgotten
      /\ req[r] \in [at : RequestPlaces, time : Nat] /\ tail \in Seq(Calls)
      /\ tail' = Append(tail, r) /\ req' = [req EXCEPT ![r].at = "queued"]
  BY DEF Enter, Move, LimitInv, LimitTyped, OneDecides
<1>1. Passes  BY <1>0 DEF Passes, Remembers, LimitInv, LimitTyped
<1>2. LimitTyped'  BY <1>0 DEF LimitInv, LimitTyped, RequestPlaces
<1>3. WindowsRemember' /\ SpansWithin'  BY <1>0, <1>1, NoneSpent DEF LimitInv, LimitTyped
<1>4. ASSUME NEW s \in Calls
      PROVE  /\ req'[s].at \in {"queued", "charge"} => \E i \in 1 .. Len(tail') : tail'[i] = s
             /\ req'[s].at = "charge" => Head(tail') = s /\ Room(s)'
  <2>1. CASE s = r
    <3>1. req'[s].at = "queued"  BY <1>0, <2>1 DEF LimitInv, LimitTyped
    <3>2. Len(tail) + 1 \in 1 .. Len(tail') /\ tail'[Len(tail) + 1] = r  BY <1>0
    <3> QED  BY <2>1, <3>1, <3>2
  <2>2. CASE s # r
    <3>1. req'[s] = req[s]  BY <1>0, <2>2 DEF LimitInv, LimitTyped
    <3>2. Room(s)' = Room(s)  BY <1>0 DEF Room, Pruned
    <3>3. CASE req[s].at \in {"queued", "charge"}
      <4>1. PICK i \in 1 .. Len(tail) : tail[i] = s  BY <3>3 DEF LimitInv, OneDecides
      <4>2. Head(tail') = Head(tail) /\ \E j \in 1 .. Len(tail') : tail'[j] = s  BY <1>0, <4>1, InLine
      <4> QED  BY <3>1, <3>2, <4>2 DEF LimitInv, OneDecides
    <3> QED  BY <3>1, <3>3
  <2> QED  BY <2>1, <2>2
<1>5. OneDecides'  BY <1>0, <1>4 DEF OneDecides
<1> QED  BY <1>2, <1>3, <1>5 DEF LimitInv

\* Of those who wait only the first decides.
LEMMA FirstDecides ==
    ASSUME LimitInv, NEW r \in Calls, req[r].at \in {"queued", "charge"}, Head(tail) = r
    PROVE  /\ tail \in Seq(Calls) /\ Tail(tail) \in Seq(Calls)
           /\ \A s \in Calls \ {r} :
                 /\ req[s].at # "charge"
                 /\ req[s].at = "queued" => /\ \E i \in 1 .. Len(tail) : tail[i] = s
                                            /\ \E i \in 1 .. Len(Tail(tail)) : Tail(tail)[i] = s
<1>1. tail \in Seq(Calls)  BY DEF LimitInv, OneDecides
<1>2. PICK i \in 1 .. Len(tail) : tail[i] = r  BY DEF LimitInv, OneDecides
<1>3. Tail(tail) \in Seq(Calls)  BY <1>1, <1>2, InLine
<1>4. ASSUME NEW s \in Calls \ {r}
      PROVE  /\ req[s].at # "charge"
             /\ req[s].at = "queued" => /\ \E j \in 1 .. Len(tail) : tail[j] = s
                                        /\ \E j \in 1 .. Len(Tail(tail)) : Tail(tail)[j] = s
  <2>1. req[s].at # "charge"  BY DEF LimitInv, OneDecides
  <2>2. ASSUME req[s].at = "queued"
        PROVE  /\ \E j \in 1 .. Len(tail) : tail[j] = s
               /\ \E j \in 1 .. Len(Tail(tail)) : Tail(tail)[j] = s
    <3>1. PICK k \in 1 .. Len(tail) : tail[k] = s  BY <2>2 DEF LimitInv, OneDecides
    <3> QED  BY <1>1, <3>1, InLine, ZenonT(30)
  <2> QED  BY <2>1, <2>2
<1> QED  BY <1>1, <1>3, <1>4

\* The shape of the state after a step of one request in one process.
LEMMA ShapeKept ==
    ASSUME LimitInv, NEW r \in Calls,
           store = "process", store' = store, limitClock' = limitClock,
           window' \in [Keys -> SUBSET Charges], \A k \in Keys : IsFiniteSet(window'[k]),
           forgotten' \subseteq Keys,
           req' \in [Calls -> [at : RequestPlaces, time : Nat]],
           \A s \in Calls \ {r} : req'[s] = req[s],
           req'[r].at \in {"charge", "denied", "admitted"}, req'[r].time <= limitClock
    PROVE  LimitTyped'
<1>1. \A s \in Calls : /\ req'[s].at \in {"new", "queued", "charge", "denied", "admitted"}
                       /\ req'[s].time <= limitClock
  BY DEF LimitInv, LimitTyped
<1> QED  BY <1>1 DEF LimitInv, LimitTyped

LEMMA DecideKeeps ==
    ASSUME LimitInv, NEW r \in Calls, Decide(r)
    PROVE  LimitInv'
<1>0. /\ limitClock' = limitClock /\ store' = store /\ limitClock \in Nat
      /\ store = "process" /\ req[r].at = "queued" /\ Head(tail) = r /\ Access(r, FALSE)
      /\ req[r] \in [at : RequestPlaces, time : Nat] /\ req[r].time <= limitClock
      /\ Charged[r] \subseteq Keys
  BY LimitAssumption DEF Decide, MayEnter, LimitInv, LimitTyped
<1>1. /\ window' \in [Keys -> SUBSET Charges] /\ \A k \in Keys : IsFiniteSet(window'[k])
      /\ Passes
  BY <1>0, AccessTyped DEF LimitInv
<1>2. PICK l \in {"charge", "denied"} :
         /\ req' = [req EXCEPT ![r].at = l]
         /\ l = "charge" => Room(r) /\ tail' = tail
         /\ l = "denied" => tail' = Tail(tail)
  BY DEF Decide, Move
<1>3. /\ req' \in [Calls -> [at : RequestPlaces, time : Nat]]
      /\ req'[r].at = l /\ req'[r].time = req[r].time /\ \A s \in Calls \ {r} : req'[s] = req[s]
  BY <1>0, <1>2 DEF LimitInv, LimitTyped, RequestPlaces
<1>4. LimitTyped'  BY <1>0, <1>1, <1>3, ShapeKept DEF Passes
<1>5. WindowsRemember' /\ SpansWithin'  BY <1>1, <1>2, NoneSpent DEF LimitInv, LimitTyped
<1>6. Room(r) => Room(r)'
  <2>1. ASSUME NEW k \in Charged[r] PROVE Pruned(k, window, limitClock)' = Pruned(k, window, limitClock)
    <3>1. window'[k] = Pruned(k, window, limitClock)  BY <1>0, AccessDoes DEF LimitInv
    <3> QED  BY <1>0, <3>1 DEF Pruned
  <2> QED  BY <2>1 DEF Room
<1>7. OneDecides'
  <2>1. ASSUME NEW s \in Calls
        PROVE  /\ req'[s].at \in {"queued", "charge"} => \E i \in 1 .. Len(tail') : tail'[i] = s
               /\ req'[s].at = "charge" => Head(tail') = s /\ Room(s)'
    <3>1. CASE s = r
      <4>1. req'[s].at = l  BY <1>3, <3>1 DEF LimitInv, LimitTyped
      <4>2. \E i \in 1 .. Len(tail) : tail[i] = r  BY <1>0 DEF LimitInv, OneDecides
      <4> QED  BY <1>0, <1>2, <1>6, <3>1, <4>1, <4>2
    <3>2. CASE s # r
      <4>1. req'[s] = req[s]  BY <1>3, <3>2 DEF LimitInv, LimitTyped
      <4> QED  BY <1>0, <1>2, <3>2, <4>1, FirstDecides
    <3> QED  BY <3>1, <3>2
  <2>2. tail' \in Seq(Calls)  BY <1>0, <1>2, FirstDecides
  <2> QED  BY <2>1, <2>2 DEF OneDecides
<1> QED  BY <1>4, <1>5, <1>7 DEF LimitInv

LEMMA ChargeKeeps ==
    ASSUME LimitInv, NEW r \in Calls, ChargeAll(r)
    PROVE  LimitInv'
<1>0. /\ limitClock' = limitClock /\ store' = store /\ limitClock \in Nat
      /\ store = "process" /\ req[r].at = "charge" /\ Head(tail) = r /\ Room(r) /\ Access(r, TRUE)
      /\ req' = [req EXCEPT ![r] = [at |-> "admitted", time |-> limitClock]] /\ tail' = Tail(tail)
      /\ Charged[r] \subseteq Keys
  BY LimitAssumption DEF ChargeAll, LimitInv, LimitTyped, OneDecides
<1>1. /\ window' \in [Keys -> SUBSET Charges] /\ \A k \in Keys : IsFiniteSet(window'[k])
      /\ Passes
  BY <1>0, AccessTyped DEF LimitInv
<1>3. /\ req' \in [Calls -> [at : RequestPlaces, time : Nat]]
      /\ req'[r].at = "admitted" /\ req'[r].time = limitClock
      /\ \A s \in Calls \ {r} : req'[s] = req[s]
  BY <1>0 DEF LimitInv, LimitTyped, RequestPlaces
<1>2. LimitTyped'  BY <1>0, <1>1, <1>3, ShapeKept DEF Passes
<1>4. \A k \in Charged[r] : /\ Cardinality(Pruned(k, window, limitClock)) < Limit(k)
                            /\ [r |-> r, time |-> limitClock] \in window'[k]
  <2> SUFFICES ASSUME NEW k \in Charged[r]
               PROVE  /\ Cardinality(Pruned(k, window, limitClock)) < Limit(k)
                      /\ [r |-> r, time |-> limitClock] \in window'[k]
    OBVIOUS
  <2>1. LimitTyped /\ TRUE \in BOOLEAN  BY DEF LimitInv
  <2>2. window'[k] = Pruned(k, window, limitClock) \cup {[r |-> r, time |-> limitClock]}
    BY <1>0, <2>1, AccessDoes
  <2> QED  BY <1>0, <2>2 DEF Room
<1>5. WindowsRemember' /\ SpansWithin'  BY <1>0, <1>1, <1>3, <1>4, OneSpent
<1>6. OneDecides'
  <2>1. ASSUME NEW s \in Calls
        PROVE  /\ req'[s].at \in {"queued", "charge"} => \E i \in 1 .. Len(tail') : tail'[i] = s
               /\ req'[s].at = "charge" => Head(tail') = s /\ Room(s)'
    BY <1>0, <1>3, FirstDecides, ZenonT(30)
  <2>2. tail' \in Seq(Calls)  BY <1>0, FirstDecides
  <2> QED  BY <2>1, <2>2 DEF OneDecides
<1> QED  BY <1>2, <1>5, <1>6 DEF LimitInv

\* Requests of several processes, which share the store.
LEMMA ShapeOfShared ==
    ASSUME LimitInv, NEW r \in Calls,
           store = "redis", store' = store, limitClock' = limitClock, forgotten' = forgotten,
           window' \in [Keys -> SUBSET Charges], \A k \in Keys : IsFiniteSet(window'[k]),
           req' \in [Calls -> [at : RequestPlaces, time : Nat]],
           \A s \in Calls \ {r} : req'[s] = req[s],
           req'[r].at \notin {"queued", "charge"}, req'[r].time <= limitClock, tail' = tail
    PROVE  LimitTyped' /\ OneDecides'
<1>1. \A s \in Calls : req'[s].at \notin {"queued", "charge"} /\ req'[s].time <= limitClock
  BY DEF LimitInv, LimitTyped
<1> QED  BY <1>1 DEF LimitInv, LimitTyped, OneDecides

LEMMA SharedKeepsLimits ==
    ASSUME LimitInv, NEW r \in Calls, Stamp(r) \/ ScriptAnswers(r) \/ Unreachable(r)
    PROVE  LimitInv'
<1>0. /\ limitClock' = limitClock /\ store' = store /\ store = "redis" /\ limitClock \in Nat
      /\ window' = window /\ forgotten' = forgotten /\ tail' = tail
      /\ req[r] \in [at : RequestPlaces, time : Nat] /\ req[r].time <= limitClock
  BY DEF Stamp, ScriptAnswers, Unreachable, LimitInv, LimitTyped
<1>1. /\ req' \in [Calls -> [at : RequestPlaces, time : Nat]]
      /\ \A s \in Calls \ {r} : req'[s] = req[s]
      /\ req'[r].at \notin {"queued", "charge"} /\ req'[r].time <= limitClock
      /\ req'[r].at \in {"charged", "admitted"} =>
            req[r].at \in {"charged", "admitted"} /\ req'[r].time = req[r].time
  <2>1. CASE Stamp(r)
    <3>1. req' = [req EXCEPT ![r] = [at |-> "sent", time |-> limitClock]]  BY <2>1 DEF Stamp
    <3>2. [at |-> "sent", time |-> limitClock] \in [at : RequestPlaces, time : Nat]
      BY <1>0 DEF RequestPlaces
    <3>3. req \in [Calls -> [at : RequestPlaces, time : Nat]]  BY DEF LimitInv, LimitTyped
    <3> QED  BY <1>0, <3>1, <3>2, <3>3
  <2>2. CASE ScriptAnswers(r)
    <3>1. CASE req[r].at = "refused"
      <4>1. req' = [req EXCEPT ![r].at = "denied"]  BY <2>2, <3>1 DEF ScriptAnswers, Move
      <4> QED  BY <1>0, <4>1 DEF LimitInv, LimitTyped, RequestPlaces
    <3>2. CASE req[r].at = "charged"
      <4>1. req' = [req EXCEPT ![r].at = "admitted"]  BY <2>2, <3>2 DEF ScriptAnswers, Move
      <4> QED  BY <1>0, <3>2, <4>1 DEF LimitInv, LimitTyped, RequestPlaces
    <3>3. CASE req[r].at = "charged late"
      <4>1. req' = [req EXCEPT ![r].at = "admitted late"]  BY <2>2, <3>3 DEF ScriptAnswers, Move
      <4> QED  BY <1>0, <4>1 DEF LimitInv, LimitTyped, RequestPlaces
    <3> QED  BY <2>2, <3>1, <3>2, <3>3 DEF ScriptAnswers
  <2>3. CASE Unreachable(r)
    <3>1. req' = [req EXCEPT ![r].at = "unavailable"]  BY <2>3 DEF Unreachable, Move
    <3> QED  BY <1>0, <3>1 DEF LimitInv, LimitTyped, RequestPlaces
  <2> QED  BY <2>1, <2>2, <2>3
<1>2. Passes  BY <1>0 DEF Passes, Remembers, LimitInv, LimitTyped
<1>3. WindowsRemember' /\ SpansWithin'  BY <1>1, <1>2, NoneSpent
<1>4. LimitTyped' /\ OneDecides'
  BY <1>0, <1>1, ShapeOfShared DEF LimitInv, LimitTyped
<1> QED  BY <1>3, <1>4 DEF LimitInv

LEMMA ScriptKeeps ==
    ASSUME LimitInv, NEW r \in Calls, Script(r)
    PROVE  LimitInv'
<1> DEFINE now == req[r].time
           Refuses(k) == Cardinality(Pruned(k, window, now)) >= Limit(k)
           mark == [r |-> r, time |-> now]
<1>0. /\ limitClock' = limitClock /\ store' = store /\ store = "redis" /\ limitClock \in Nat
      /\ forgotten' = forgotten /\ tail' = tail /\ req[r].at = "sent"
      /\ req[r] \in [at : RequestPlaces, time : Nat] /\ now \in Nat /\ now <= limitClock
      /\ Charged[r] \subseteq Keys /\ mark \in Charges
  BY LimitAssumption DEF Script, LimitInv, LimitTyped, Charges
<1>1. ASSUME NEW k \in Keys
      PROVE  /\ Pruned(k, window, now) \subseteq window[k] /\ IsFiniteSet(Pruned(k, window, now))
             /\ Pruned(k, window, now) \subseteq Charges
             /\ IsFiniteSet(Pruned(k, window, now) \cup {mark})
             /\ Pruned(k, window, now) \cup {mark} \subseteq Charges
             /\ window[k] \subseteq Charges /\ IsFiniteSet(window[k])
             /\ \A c \in window[k] : limitClock - c.time < Window(k) => c \in Pruned(k, window, now)
  <2>1. /\ Pruned(k, window, now) \subseteq window[k] /\ IsFiniteSet(Pruned(k, window, now))
        /\ Pruned(k, window, now) \subseteq Charges
    BY <1>0, PrunedPart DEF LimitInv
  <2>2. IsFiniteSet(Pruned(k, window, now) \cup {mark})  BY <2>1, FS_AddElement
  <2>3. \A c \in window[k] : c.time \in Nat  BY DEF LimitInv, LimitTyped, Charges
  <2>4. \A c \in window[k] : limitClock - c.time < Window(k) => c \in Pruned(k, window, now)
    BY <1>0, <2>3, PolicyOf DEF Pruned
  <2> QED  BY <1>0, <2>1, <2>2, <2>4 DEF LimitInv, LimitTyped
<1>2. CASE \E k \in Charged[r] : Refuses(k)
  <2>1. PICK S \in SUBSET Charged[r] :
           window' = [k \in Keys |-> IF k \in S THEN Pruned(k, window, now) ELSE window[k]]
    BY <1>2 DEF Script
  <2>2. req' = [req EXCEPT ![r].at = "refused"]  BY <1>2 DEF Script, Move
  <2>3. /\ req' \in [Calls -> [at : RequestPlaces, time : Nat]]
        /\ \A s \in Calls \ {r} : req'[s] = req[s]
        /\ req'[r].at = "refused" /\ req'[r].time <= limitClock
    BY <1>0, <2>2 DEF LimitInv, LimitTyped, RequestPlaces
  <2>4. /\ window' \in [Keys -> SUBSET Charges] /\ \A k \in Keys : IsFiniteSet(window'[k])
        /\ \A k \in Keys : \A c \in window[k] : limitClock - c.time < Window(k) => c \in window'[k]
    BY <1>1, <2>1
  <2>5. Passes  BY <1>0, <2>4 DEF Passes, Remembers, LimitInv, LimitTyped
  <2>6. WindowsRemember' /\ SpansWithin'  BY <2>3, <2>5, NoneSpent
  <2>7. LimitTyped' /\ OneDecides'  BY <1>0, <2>3, <2>4, ShapeOfShared
  <2> QED  BY <2>6, <2>7 DEF LimitInv
<1>3. CASE ~\E k \in Charged[r] : Refuses(k)
  <2> DEFINE l == IF limitClock = now THEN "charged" ELSE "charged late"
  <2>1. window' = [k \in Keys |-> IF k \in Charged[r] THEN Pruned(k, window, now) \cup {mark} ELSE window[k]]
    BY <1>3 DEF Script
  <2>2. req' = [req EXCEPT ![r].at = l]  BY <1>3 DEF Script
  <2>3. /\ req' \in [Calls -> [at : RequestPlaces, time : Nat]]
        /\ \A s \in Calls \ {r} : req'[s] = req[s]
        /\ req'[r].at = l /\ req'[r].time = now
    BY <1>0, <2>2 DEF LimitInv, LimitTyped, RequestPlaces
  <2>4. /\ window' \in [Keys -> SUBSET Charges] /\ \A k \in Keys : IsFiniteSet(window'[k])
        /\ \A k \in Keys : \A c \in window[k] : limitClock - c.time < Window(k) => c \in window'[k]
        /\ \A k \in Charged[r] : mark \in window'[k]
    BY <1>0, <1>1, <2>1
  <2>5. Passes  BY <1>0, <2>4 DEF Passes, Remembers, LimitInv, LimitTyped
  <2>6. LimitTyped' /\ OneDecides'  BY <1>0, <2>3, <2>4, ShapeOfShared
  <2>7. CASE limitClock = now
    <3>1. \A k \in Charged[r] : Cardinality(Pruned(k, window, limitClock)) < Limit(k)
      <4> SUFFICES ASSUME NEW k \in Charged[r] PROVE Cardinality(Pruned(k, window, now)) < Limit(k)
        BY <2>7
      <4>1. Cardinality(Pruned(k, window, now)) \in Nat  BY <1>0, <1>1, FS_CardinalityType
      <4> QED  BY <1>0, <1>3, <4>1, PolicyOf
    <3>2. WindowsRemember' /\ SpansWithin'  BY <1>0, <2>3, <2>4, <2>5, <2>7, <3>1, OneSpent
    <3> QED  BY <2>6, <3>2 DEF LimitInv
  <2>8. CASE limitClock # now
    <3>1. WindowsRemember' /\ SpansWithin'  BY <2>3, <2>5, <2>8, NoneSpent
    <3> QED  BY <2>6, <3>1 DEF LimitInv
  <2> QED  BY <2>7, <2>8
<1> QED  BY <1>2, <1>3

\* What is pruned or swept leaves the room there was.
LEMMA RoomStays ==
    ASSUME LimitInv, NEW r \in Calls, Room(r), limitClock' \in Nat, limitClock <= limitClock',
           \A k \in Keys : window'[k] \subseteq window[k]
    PROVE  Room(r)'
<1> SUFFICES ASSUME NEW k \in Charged[r]
             PROVE  Cardinality(Pruned(k, window, limitClock)') < Limit(k)
  BY DEF Room
<1>0. k \in Keys /\ limitClock \in Nat  BY LimitAssumption DEF LimitInv, LimitTyped
<1>1. Pruned(k, window, limitClock)' \subseteq Pruned(k, window, limitClock)
  <2>1. \A c \in window[k] : c.time \in Nat  BY <1>0 DEF LimitInv, LimitTyped, Charges
  <2> QED  BY <1>0, <2>1, PolicyOf DEF Pruned
<1>2. IsFiniteSet(Pruned(k, window, limitClock))  BY <1>0, PrunedPart DEF LimitInv
<1>3. /\ Cardinality(Pruned(k, window, limitClock)') <= Cardinality(Pruned(k, window, limitClock))
      /\ Cardinality(Pruned(k, window, limitClock)') \in Nat
      /\ Cardinality(Pruned(k, window, limitClock)) \in Nat
  BY <1>1, <1>2, FS_Subset, FS_CardinalityType
<1>4. Cardinality(Pruned(k, window, limitClock)) < Limit(k)  BY DEF Room
<1> QED  BY <1>0, <1>3, <1>4, PolicyOf

LEMMA SweepAndTickKeep ==
    ASSUME LimitInv, Sweep \/ LimitTick \/ UNCHANGED limitVars
    PROVE  LimitInv'
<1>0. limitClock \in Nat  BY DEF LimitInv, LimitTyped
<1>1. UNCHANGED <<store, tail, req, forgotten>>  BY DEF Sweep, LimitTick, limitVars
<1>2. limitClock' \in Nat /\ limitClock <= limitClock'
  <2>1. limitClock' \in {limitClock, limitClock + 1}  BY DEF Sweep, LimitTick, limitVars
  <2> QED  BY <1>0, <2>1
<1>3. /\ window' \in [Keys -> SUBSET Charges] /\ \A k \in Keys : window'[k] \in {{}, window[k]}
      /\ \A k \in Keys : window'[k] = window[k] \/ (Lapsed(k, window) /\ limitClock' = limitClock)
  BY DEF Sweep, LimitTick, limitVars, LimitInv, LimitTyped
<1>4. Passes
  <2> SUFFICES ASSUME NEW k \in Keys \ forgotten', NEW c \in window[k], limitClock' - c.time < Window(k)
               PROVE  c \in window'[k]
    BY <1>1, <1>2 DEF Passes, Remembers, LimitInv, LimitTyped
  <2>1. c.time \in Nat  BY DEF LimitInv, LimitTyped, Charges
  <2>2. Lapsed(k, window) /\ limitClock' = limitClock => FALSE
    BY <1>0, <2>1, PolicyOf DEF Lapsed
  <2> QED  BY <1>3, <2>2
<1>5. WindowsRemember' /\ SpansWithin'  BY <1>1, <1>4, NoneSpent
<1>6. LimitTyped'
  <2>1. \A k \in Keys : IsFiniteSet(window'[k])  BY <1>3, FS_EmptySet DEF LimitInv, LimitTyped
  <2>2. \A r \in Calls : req[r].time \in Nat /\ req[r].time <= limitClock'
    BY <1>0, <1>2 DEF LimitInv, LimitTyped
  <2> QED  BY <1>1, <1>2, <1>3, <2>1, <2>2 DEF LimitInv, LimitTyped
<1>7. OneDecides'
  <2>1. \A r \in Calls : Room(r) => Room(r)'  BY <1>2, <1>3, RoomStays
  <2> QED  BY <1>1, <2>1 DEF LimitInv, OneDecides
<1> QED  BY <1>5, <1>6, <1>7 DEF LimitInv

\* However the decisions of a process and the scripts of Redis interleave, every
\* charge that may still count is in the window of its key, at most one request
\* is between its decision and its charge, and no span is over its limit.
THEOREM LimitInvariant == LimitSpec => []LimitInv
<1>1. LimitInit => LimitInv
  <2> SUFFICES ASSUME LimitInit PROVE LimitInv  OBVIOUS
  <2>1. LimitTyped
    BY LimitAssumption, FS_EmptySet DEF LimitInit, LimitTyped, RequestPlaces
  <2>2. \A k \in Keys : Spent(k) = {} /\ \A t \in Nat : SpanOf(k, t) = {}
    BY DEF LimitInit, Spent, SpanOf
  <2>3. SpansWithin  BY <2>2, FS_EmptySet, PolicyOf DEF SpansWithin
  <2>4. OneDecides  BY DEF LimitInit, OneDecides
  <2> QED  BY <2>1, <2>2, <2>3, <2>4 DEF LimitInv, WindowsRemember
<1>2. LimitInv /\ [LimitNext]_limitVars => LimitInv'
  BY EnterKeeps, DecideKeeps, ChargeKeeps, SharedKeepsLimits, ScriptKeeps, SweepAndTickKeep DEF LimitNext
<1> QED  BY <1>1, <1>2, PTL DEF LimitSpec

\* Of the requests of any span of windowMs that are charged to one key, quota.ts
\* and QUOTA_SCRIPT admit at most its limit.
THEOREM BudgetTheorem == LimitSpec => []WithinBudget
<1>1. LimitInv => WithinBudget
  <2> SUFFICES ASSUME LimitInv, NEW k \in Keys \ forgotten, NEW t \in 0 .. MaxTime
               PROVE  Cardinality({r \in Calls : /\ req[r].at = "admitted" /\ k \in Charged[r]
                                                 /\ req[r].time \in t .. t + Window(k) - 1}) <= Limit(k)
    BY DEF WithinBudget
  <2> DEFINE A == {r \in Calls : /\ req[r].at = "admitted" /\ k \in Charged[r]
                                 /\ req[r].time \in t .. t + Window(k) - 1}
  <2>0. t \in Nat /\ Window(k) \in Nat /\ Limit(k) \in Nat  BY LimitAssumption, PolicyOf
  <2>1. A \subseteq SpanOf(k, t)
    BY <2>0 DEF SpanOf, Spent, LimitInv, LimitTyped
  <2>2. IsFiniteSet(SpanOf(k, t)) /\ Cardinality(SpanOf(k, t)) <= Limit(k)
    BY <2>0 DEF LimitInv, SpansWithin
  <2> HIDE DEF A
  <2>3. /\ Cardinality(A) <= Cardinality(SpanOf(k, t)) /\ Cardinality(A) \in Nat
        /\ Cardinality(SpanOf(k, t)) \in Nat
    BY <2>1, <2>2, FS_Subset, FS_CardinalityType
  <2>4. Cardinality(A) <= Limit(k)  BY <2>0, <2>2, <2>3
  <2> QED  BY <2>4 DEF A
<1> QED  BY <1>1, LimitInvariant, PTL
-----------------------------------------------------------------------------
(* Admission to the HTTP server: a slot for every handler.                 *)
\* The places a handler passes, and those behind the authentication.
Places == {"start", "anonymous", "resolve", "consume", "route", "body", "service", "probe", "ok", "unready"}
Vetted == {"resolve", "consume", "route", "body", "service"}
Handling == [at : Places, route : Routes, key : BOOLEAN, reserved : BOOLEAN, tenant : BOOLEAN]
Buckets == {"address", "key", "tenant"}

\* What holds of one request, wherever its handler is.
OfRequest(r) ==
    /\ handler[r].at = "none" => charged[r] = {}
    /\ handler[r].at \in Vetted => Authorized(r) /\ (Strict => ~handler[r].reserved)
    /\ handler[r].at \in {"route", "body", "service"} => Bucket(r) \in charged[r]
    /\ handler[r] \in Handling /\ ~Authorized(r) => charged[r] \subseteq {"address"}

HttpTyped ==
    /\ handler \in [Requests -> Handling \cup {NoRequest, Ended}]
    /\ charged \in [Requests -> SUBSET Buckets]
    /\ IsFiniteSet(Running) /\ concurrent = Cardinality(Running)
    /\ concurrent <= MaxConcurrent

HttpInv == HttpTyped /\ \A r \in Requests : OfRequest(r)

\* A handler that is under way occupies one slot.
LEMMA RunningHandles ==
    ASSUME HttpTyped, NEW r \in Requests
    PROVE  /\ r \in Running <=> handler[r] \in Handling
           /\ r \in Running <=> handler[r].at \notin {"none", "ended"}
BY DEF HttpTyped, Running, Done, Handling, Places, NoRequest, Ended

\* The end of a handler gives its slot back and leaves nothing to keep.
LEMMA EndingKeeps ==
    ASSUME HttpInv, NEW r \in Requests, r \in Running,
           handler' = [handler EXCEPT ![r] = Ended], concurrent' = concurrent - 1,
           charged' \in [Requests -> SUBSET Buckets],
           \A s \in Requests \ {r} : charged'[s] = charged[s]
    PROVE  HttpInv'
<1> USE HttpAssumption
<1>1. handler' \in [Requests -> Handling \cup {NoRequest, Ended}]  BY DEF HttpInv, HttpTyped
<1>2. Running' = Running \ {r}
  BY DEF HttpInv, HttpTyped, Running, Ended, Done
<1>3. /\ IsFiniteSet(Running) /\ Cardinality(Running) \in Nat
      /\ IsFiniteSet(Running \ {r}) /\ Cardinality(Running \ {r}) = Cardinality(Running) - 1
  BY FS_RemoveElement, FS_CardinalityType DEF HttpInv, HttpTyped
<1>4. HttpTyped'  BY <1>1, <1>2, <1>3 DEF HttpInv, HttpTyped
<1>5. ASSUME NEW s \in Requests PROVE OfRequest(s)'
  <2>1. CASE s = r
    <3>1. handler'[s] = Ended /\ Ended \notin Handling /\ Ended.at = "ended"
      BY <2>1 DEF HttpInv, HttpTyped, Handling, Places, Ended
    <3> QED  BY <3>1 DEF OfRequest, Vetted
  <2>2. CASE s # r
    <3>1. handler'[s] = handler[s] /\ charged'[s] = charged[s]  BY <2>2 DEF HttpInv, HttpTyped
    <3> QED  BY <3>1 DEF HttpInv, OfRequest, Authorized, Bucket
  <2> QED  BY <2>1, <2>2
<1> QED  BY <1>4, <1>5 DEF HttpInv

\* A handler that goes on keeps its slot.
LEMMA GoingKeeps ==
    ASSUME HttpInv, NEW r \in Requests, r \in Running, NEW l \in Places,
           handler' = [handler EXCEPT ![r].at = l], concurrent' = concurrent,
           charged' \in [Requests -> SUBSET Buckets],
           \A s \in Requests \ {r} : charged'[s] = charged[s],
           l \in Vetted => Authorized(r) /\ (Strict => ~handler[r].reserved),
           l \in {"route", "body", "service"} => Bucket(r) \in charged'[r],
           ~Authorized(r) => charged'[r] \subseteq {"address"}
    PROVE  HttpInv'
<1>0. handler[r] \in Handling  BY RunningHandles DEF HttpInv
<1>1. /\ handler'[r] \in Handling /\ handler'[r].at = l
      /\ handler'[r].key = handler[r].key /\ handler'[r].reserved = handler[r].reserved
      /\ handler'[r].tenant = handler[r].tenant
  BY <1>0 DEF HttpInv, HttpTyped, Handling
<1>2. \A s \in Requests \ {r} : handler'[s] = handler[s]  BY DEF HttpInv, HttpTyped
<1>3. handler' \in [Requests -> Handling \cup {NoRequest, Ended}]
  BY <1>1, <1>2 DEF HttpInv, HttpTyped
<1>4. Running' = Running
  <2>1. l \notin Done  BY DEF Places, Done
  <2> QED  BY <1>1, <1>2, <2>1 DEF Running, Done
<1>5. HttpTyped'  BY <1>3, <1>4 DEF HttpInv, HttpTyped
<1>6. ASSUME NEW s \in Requests PROVE OfRequest(s)'
  <2>1. CASE s = r
    <3>1. Authorized(r)' = Authorized(r) /\ Bucket(r)' = Bucket(r)  BY <1>1 DEF Authorized, Bucket
    <3>2. l # "none"  BY DEF Places
    <3> QED  BY <1>1, <2>1, <3>1, <3>2 DEF OfRequest
  <2>2. CASE s # r
    BY <1>2, <2>2 DEF HttpInv, OfRequest, Authorized, Bucket
  <2> QED  BY <2>1, <2>2
<1> QED  BY <1>5, <1>6 DEF HttpInv

LEMMA ArriveKeeps ==
    ASSUME HttpInv, NEW r \in Requests, Arrive(r)
    PROVE  HttpInv'
<1> USE HttpAssumption
<1>0. charged' = charged /\ handler[r] = NoRequest /\ r \notin Running
  BY RunningHandles DEF Arrive, NoRequest, HttpInv
<1>1. PICK a \in Arrivals :
         \/ Overloaded /\ handler' = [handler EXCEPT ![r] = Ended] /\ UNCHANGED concurrent
         \/ ~Overloaded /\ handler' = [handler EXCEPT ![r] = Started(a)] /\ concurrent' = concurrent + 1
  BY DEF Arrive
<1>2. Started(a) \in Handling /\ Started(a).at = "start"
  BY DEF Arrivals, Started, Handling, Places
<1>3. handler' \in [Requests -> Handling \cup {NoRequest, Ended}]
  BY <1>1, <1>2 DEF HttpInv, HttpTyped
<1>4. \A s \in Requests \ {r} : handler'[s] = handler[s]  BY <1>1 DEF HttpInv, HttpTyped
<1>5. handler'[r] \in {Ended, Started(a)} /\ charged[r] = {}
  BY <1>0, <1>1 DEF HttpInv, HttpTyped, OfRequest, NoRequest
<1>6. HttpTyped'
  <2>1. CASE Overloaded /\ handler' = [handler EXCEPT ![r] = Ended] /\ UNCHANGED concurrent
    <3>1. Running' = Running  BY <1>0, <2>1 DEF HttpInv, HttpTyped, Running, Ended, Done
    <3> QED  BY <1>0, <1>3, <2>1, <3>1 DEF HttpInv, HttpTyped
  <2>2. CASE ~Overloaded /\ handler' = [handler EXCEPT ![r] = Started(a)] /\ concurrent' = concurrent + 1
    <3>1. Running' = Running \cup {r}
      BY <1>0, <1>2, <2>2 DEF HttpInv, HttpTyped, Running, Done
    <3>2. /\ IsFiniteSet(Running) /\ Cardinality(Running) \in Nat
          /\ IsFiniteSet(Running \cup {r}) /\ Cardinality(Running \cup {r}) = Cardinality(Running) + 1
      BY <1>0, FS_AddElement, FS_CardinalityType DEF HttpInv, HttpTyped
    <3>3. concurrent < MaxConcurrent  BY <2>2, <3>2 DEF Overloaded, HttpInv, HttpTyped
    <3> QED  BY <1>0, <1>3, <2>2, <3>1, <3>2, <3>3 DEF HttpInv, HttpTyped
  <2> QED  BY <1>1, <2>1, <2>2
<1>7. ASSUME NEW s \in Requests PROVE OfRequest(s)'
  <2>1. CASE s = r
    BY <1>0, <1>2, <1>5, <2>1 DEF OfRequest, Vetted, Ended
  <2>2. CASE s # r
    BY <1>0, <1>4, <2>2 DEF HttpInv, OfRequest, Authorized, Bucket
  <2> QED  BY <2>1, <2>2
<1> QED  BY <1>6, <1>7 DEF HttpInv

\* The limiter's answers touch the buckets of one request only.
LEMMA LimiterCharges ==
    ASSUME HttpInv, NEW r \in Requests, NEW b \in Buckets,
           LimiterAnswers(r, b) \/ LimiterFails(r, b)
    PROVE  /\ charged' \in [Requests -> SUBSET Buckets]
           /\ \A s \in Requests \ {r} : charged'[s] = charged[s]
           /\ charged[r] \subseteq charged'[r] /\ charged'[r] \subseteq charged[r] \cup {b}
           /\ LimiterAnswers(r, b) => b \in charged'[r]
BY DEF LimiterAnswers, LimiterFails, Charge, HttpInv, HttpTyped

LEMMA FinishEnds ==
    ASSUME NEW r, NEW status, Finish(r, status)
    PROVE  handler' = [handler EXCEPT ![r] = Ended] /\ concurrent' = concurrent - 1
BY DEF Finish, Answer, Reject

\* One request goes on or ends.
LEMMA RequestKeeps ==
    ASSUME HttpInv, NEW r \in Requests,
           \/ Live(r) \/ Readiness(r) \/ ProbeAnswer(r) \/ Authenticate(r) \/ Anonymous(r)
           \/ Resolve(r) \/ Consume(r) \/ Route(r) \/ ReadBody(r) \/ Serve(r) \/ Disconnect(r)
    PROVE  HttpInv'
<1>0. /\ handler[r].at \in Places
      /\ r \in Running /\ handler[r] \in Handling
      /\ charged \in [Requests -> SUBSET Buckets] /\ OfRequest(r)
  <2>1. handler[r].at \in Places \ {"none", "ended"}
    BY DEF Live, Readiness, ProbeAnswer, Authenticate, Anonymous, Resolve, Consume, Route, ReadBody,
           Serve, Disconnect, At, Places
  <2> QED  BY <2>1, RunningHandles DEF HttpInv, HttpTyped
<1>1. ASSUME charged' = charged, NEW status, Finish(r, status) PROVE HttpInv'
  BY <1>0, <1>1, FinishEnds, EndingKeeps
<1>2. ASSUME charged' = charged, NEW l \in Places, Goto(r, l), UNCHANGED concurrent,
             l \in Vetted => Authorized(r) /\ (Strict => ~handler[r].reserved),
             l \in {"route", "body", "service"} => Bucket(r) \in charged[r]
      PROVE  HttpInv'
  <2>1. ~Authorized(r) => charged[r] \subseteq {"address"}  BY <1>0 DEF OfRequest
  <2> QED  BY <1>0, <1>2, <2>1, GoingKeeps DEF Goto
<1>3. CASE Live(r)  BY <1>1, <1>3 DEF Live
<1>4. CASE Readiness(r)
  <2>1. charged' = charged  BY <1>4 DEF Readiness
  <2>2. CASE cached # "none"
    BY <1>1, <1>4, <2>1, <2>2 DEF Readiness
  <2>3. CASE cached = "none"
    <3>1. Goto(r, "probe") /\ UNCHANGED concurrent  BY <1>4, <2>3 DEF Readiness
    <3>2. "probe" \in Places /\ "probe" \notin Vetted  BY DEF Places, Vetted
    <3> QED  BY <1>2, <2>1, <3>1, <3>2
  <2> QED  BY <2>2, <2>3
<1>5. CASE ProbeAnswer(r)  BY <1>1, <1>5 DEF ProbeAnswer
<1>6. CASE Authenticate(r)
  <2>1. charged' = charged  BY <1>6 DEF Authenticate
  <2>2. CASE ~Authorized(r)
    <3>1. Goto(r, "anonymous") /\ UNCHANGED concurrent  BY <1>6, <2>2 DEF Authenticate
    <3>2. "anonymous" \in Places /\ "anonymous" \notin Vetted  BY DEF Places, Vetted
    <3> QED  BY <1>2, <2>1, <3>1, <3>2
  <2>3. CASE Authorized(r) /\ Strict /\ handler[r].reserved
    BY <1>1, <1>6, <2>1, <2>3 DEF Authenticate
  <2>4. CASE Authorized(r) /\ ~(Strict /\ handler[r].reserved)
    <3>1. Goto(r, "resolve") /\ UNCHANGED concurrent  BY <1>6, <2>4 DEF Authenticate
    <3>2. "resolve" \in Places  BY DEF Places
    <3> QED  BY <1>2, <2>1, <2>4, <3>1, <3>2
  <2> QED  BY <2>2, <2>3, <2>4
<1>7. CASE Anonymous(r)
  <2>1. "address" \in Buckets  BY DEF Buckets
  <2>2. (LimiterAnswers(r, "address") \/ LimiterFails(r, "address")) /\ Finish(r, "error")
    BY <1>7 DEF Anonymous
  <2>3. /\ charged' \in [Requests -> SUBSET Buckets]
        /\ \A s \in Requests \ {r} : charged'[s] = charged[s]
    BY <2>1, <2>2, LimiterCharges
  <2> QED  BY <1>0, <2>2, <2>3, FinishEnds, EndingKeeps
<1>8. CASE Resolve(r)
  <2>1. charged' = charged /\ handler[r].at = "resolve"  BY <1>8 DEF Resolve, At
  <2>2. CASE Goto(r, "consume") /\ UNCHANGED <<up, concurrent, response>>
    <3>1. "consume" \in Places /\ "resolve" \in Vetted  BY DEF Places, Vetted
    <3> QED  BY <1>0, <1>2, <2>1, <2>2, <3>1 DEF OfRequest
  <2> QED  BY <1>1, <1>8, <2>1, <2>2 DEF Resolve
<1>9. CASE Consume(r)
  <2>0. Bucket(r) \in Buckets /\ handler[r].at = "consume"  BY <1>9 DEF Bucket, Buckets, Consume, At
  <2>1. CASE LimiterAnswers(r, Bucket(r)) /\ Goto(r, "route") /\ UNCHANGED <<up, concurrent, response>>
    <3>1. /\ charged' \in [Requests -> SUBSET Buckets]
          /\ \A s \in Requests \ {r} : charged'[s] = charged[s]
          /\ Bucket(r) \in charged'[r]
      BY <2>0, <2>1, LimiterCharges
    <3>2. "route" \in Places /\ "consume" \in Vetted  BY DEF Places, Vetted
    <3>3. Authorized(r) /\ (Strict => ~handler[r].reserved)  BY <1>0, <2>0, <3>2 DEF OfRequest
    <3> QED  BY <1>0, <2>1, <3>1, <3>2, <3>3, GoingKeeps DEF Goto
  <2>2. CASE Denied(r) /\ Finish(r, "error")
    <3>1. /\ charged' \in [Requests -> SUBSET Buckets]
          /\ \A s \in Requests \ {r} : charged'[s] = charged[s]
      BY <1>0, <2>0, <2>2, LimiterCharges DEF Denied
    <3> QED  BY <1>0, <2>2, <3>1, FinishEnds, EndingKeeps
  <2> QED  BY <1>9, <2>1, <2>2 DEF Consume
<1>10. CASE Route(r)
  <2>1. charged' = charged /\ handler[r].at = "route"  BY <1>10 DEF Route, At
  <2>2. /\ Authorized(r) /\ (Strict => ~handler[r].reserved) /\ Bucket(r) \in charged[r]
        /\ "service" \in Places /\ "body" \in Places
    BY <1>0, <2>1 DEF OfRequest, Vetted, Places
  <2> QED  BY <1>1, <1>2, <1>10, <2>1, <2>2 DEF Route
<1>11. CASE ReadBody(r)
  <2>1. charged' = charged /\ handler[r].at = "body"  BY <1>11 DEF ReadBody, At
  <2>2. /\ Authorized(r) /\ (Strict => ~handler[r].reserved) /\ Bucket(r) \in charged[r]
        /\ "service" \in Places
    BY <1>0, <2>1 DEF OfRequest, Vetted, Places
  <2> QED  BY <1>1, <1>2, <1>11, <2>1, <2>2 DEF ReadBody
<1>12. CASE Serve(r)  BY <1>1, <1>12 DEF Serve
<1>13. CASE Disconnect(r)
  <2>1. charged' = charged /\ handler' = [handler EXCEPT ![r] = Ended] /\ concurrent' = concurrent - 1
    BY <1>13 DEF Disconnect, Answer
  <2> QED  BY <1>0, <2>1, EndingKeeps
<1> QED  BY <1>3, <1>4, <1>5, <1>6, <1>7, <1>8, <1>9, <1>10, <1>11, <1>12, <1>13

\* The answer of the readiness check reaches all that wait for it.
LEMMA ProbedKeeps ==
    ASSUME HttpInv, Probed
    PROVE  HttpInv'
<1>1. PICK value \in Health :
         handler' = [r \in Requests |-> IF r \in probe THEN [handler[r] EXCEPT !.at = value] ELSE handler[r]]
  BY DEF Probed
<1>2. value \in {"ok", "unready"} /\ value \in Places /\ value \notin Vetted /\ value \notin Done
  BY DEF Health, Places, Vetted, Done
<1>3. charged' = charged /\ concurrent' = concurrent /\ \A r \in probe : handler[r].at = "probe"
  BY DEF Probed
<1>4. ASSUME NEW r \in Requests
      PROVE  \/ handler'[r] = handler[r]
             \/ /\ handler[r] \in Handling /\ handler'[r] \in Handling /\ handler'[r].at = value
                /\ handler'[r].key = handler[r].key
  <2>1. CASE r \in probe
    <3>1. handler[r] \in Handling  BY <1>3, <2>1, RunningHandles DEF HttpInv
    <3>2. handler'[r] = [handler[r] EXCEPT !.at = value]  BY <1>1, <2>1
    <3> QED  BY <1>2, <3>1, <3>2 DEF Handling
  <2>2. CASE r \notin probe  BY <1>1, <2>2
  <2> QED  BY <2>1, <2>2
<1>5. \A r \in Requests : handler'[r] \in Handling \cup {NoRequest, Ended}
  BY <1>4 DEF HttpInv, HttpTyped
<1>6. handler' \in [Requests -> Handling \cup {NoRequest, Ended}]
  <2> DEFINE f == handler'
  <2>1. f = [r \in Requests |-> f[r]] /\ \A r \in Requests : f[r] \in Handling \cup {NoRequest, Ended}
    BY <1>1, <1>5
  <2> HIDE DEF f
  <2>2. f \in [Requests -> Handling \cup {NoRequest, Ended}]  BY <2>1
  <2> QED  BY <2>2 DEF f
<1>7. Running' = Running
  <2>1. \A r \in Requests : handler[r] \in Handling => handler[r].at \notin Done
    BY DEF Handling, Places, Done
  <2> QED  BY <1>2, <1>4, <2>1 DEF Running
<1>8. HttpTyped'  BY <1>3, <1>6, <1>7 DEF HttpInv, HttpTyped
<1>9. ASSUME NEW r \in Requests PROVE OfRequest(r)'
  <2>1. OfRequest(r)  BY DEF HttpInv
  <2> QED  BY <1>2, <1>3, <1>4, <2>1 DEF OfRequest, Authorized, Bucket
<1> QED  BY <1>8, <1>9 DEF HttpInv

LEMMA AsideKeeps ==
    ASSUME HttpInv, UNCHANGED <<concurrent, handler, charged>>
    PROVE  HttpInv'
BY DEF HttpInv, HttpTyped, OfRequest, Running, Authorized, Bucket

\* The counter of concurrent requests is the number of handlers under way, and a
\* handler behind authentication and the rate limit has passed both.
THEOREM HttpInvariant == HttpSpec => []HttpInv
<1>1. HttpInit => HttpInv
  <2> SUFFICES ASSUME HttpInit PROVE HttpInv  OBVIOUS
  <2>1. Running = {}  BY DEF HttpInit, Running, NoRequest, Done
  <2>2. \A r \in Requests : handler[r] = NoRequest /\ NoRequest \notin Handling /\ NoRequest.at = "none"
    BY DEF HttpInit, NoRequest, Handling, Places
  <2>3. HttpTyped  BY <2>1, FS_EmptySet, HttpAssumption DEF HttpInit, HttpTyped
  <2> QED  BY <2>2, <2>3 DEF HttpInv, OfRequest, HttpInit, Vetted
<1>2. HttpInv /\ [HttpNext]_httpVars => HttpInv'
  <2> SUFFICES ASSUME HttpInv, [HttpNext]_httpVars PROVE HttpInv'  OBVIOUS
  <2>1. ASSUME NEW r \in Requests, Timeout(r) PROVE HttpInv'  BY <2>1, AsideKeeps DEF Timeout
  <2>2. CASE Stale  BY <2>2, AsideKeeps DEF Stale
  <2>3. CASE UNCHANGED httpVars  BY <2>3, AsideKeeps DEF httpVars
  <2> QED  BY <2>1, <2>2, <2>3, ArriveKeeps, RequestKeeps, ProbedKeeps DEF HttpNext
<1> QED  BY <1>1, <1>2, PTL DEF HttpSpec

\* handleRequest() admits no more than the ceiling, leaks no slot on any way out,
\* and lets nobody past that is not authorized and charged.
THEOREM AdmissionTheorem == HttpSpec => []AdmissionHolds
<1>1. HttpInv => AdmissionHolds
  <2> SUFFICES ASSUME HttpInv, NEW r \in Running
               PROVE  /\ handler[r].at \in {"route", "body", "service"} =>
                            Authorized(r) /\ (Strict => ~handler[r].reserved) /\ Bucket(r) \in charged[r]
                      /\ ~Authorized(r) => charged[r] \subseteq {"address"}
    BY DEF HttpInv, HttpTyped, AdmissionHolds
  <2>1. r \in Requests /\ handler[r] \in Handling  BY RunningHandles DEF HttpInv, Running
  <2> QED  BY <2>1 DEF HttpInv, OfRequest, Vetted
<1> QED  BY <1>1, HttpInvariant, PTL
-----------------------------------------------------------------------------
(* The tenant directory: one step ahead of its file, and no further.       *)
\* The directory that the file holds, or that an empty file stands for.
Stored == IF disk = None THEN EmptyDirectory ELSE disk

\* What a context carries is a directory that was in the file, and is the one
\* in the file when the versions agree; a mutation that has not been written
\* is one version ahead of the file, and its snapshot is the file.
ContextsAreOld ==
    \A c \in Callers : ctx[c] # NoContext =>
       /\ disk # None /\ ctx[c].version \in Nat /\ ctx[c].version <= disk.version
       /\ ctx[c].version = disk.version => ctx[c].minted = disk

OneStepAhead ==
    /\ dir # None /\ before = Stored
    /\ dir.version = before.version + 1

Stages == {"idle", "authorize", "check", "mutate", "persist", "reread", "audit"}

\* A change that waits for its turn is one the entity service makes.
CallsAreKnown ==
    /\ call \in [Callers -> [op : Ops \cup {None}, pc : Stages]]
    /\ \A c \in Callers : /\ call[c].pc \in {"authorize", "check", "mutate"} => call[c].op \in Ops
                          /\ call[c].pc = "mutate" => call[c].op.verb # "read"

DirectoriesLoad ==
    /\ disk \in Directories \cup {None} /\ (disk # None => FromSnapshot(disk))
    /\ dir \in Directories \cup {None} /\ (dir # None => FromSnapshot(dir))
    /\ usable = TRUE

TenantInv ==
    /\ DirectoriesLoad /\ CallsAreKnown
    /\ DOMAIN ctx = Callers /\ ContextsAreOld
    /\ queue = None /\ dir # None => dir = Stored
    /\ queue # None => OneStepAhead

LEMMA EmptyLoads == EmptyDirectory \in Directories /\ EmptyDirectory.version = 0 /\ FromSnapshot(EmptyDirectory)
BY TenantAssumption DEF EmptyDirectory, Directories, NoAgent, FromSnapshot

\* bump() touches the version only.
LEMMA BumpLoads ==
    ASSUME NEW d \in Directories, FromSnapshot(d)
    PROVE  /\ Bump(d) \in Directories /\ FromSnapshot(Bump(d))
           /\ Bump(d).version = d.version + 1
<1>1. Bump(d) \in Directories /\ Bump(d).version = d.version + 1  BY DEF Bump, Directories
<1>2. /\ Bump(d).users = d.users /\ Bump(d).projects = d.projects /\ Bump(d).members = d.members
      /\ Bump(d).agents = d.agents /\ Bump(d).assoc = d.assoc
  BY DEF Bump, Directories
<1> QED  BY <1>1, <1>2 DEF FromSnapshot

LEMMA AppliedLoads ==
    ASSUME NEW d \in Directories, FromSnapshot(d), NEW op \in Ops, Accepts(d, op), op.verb # "read"
    PROVE  /\ Applied(d, op) \in Directories
           /\ FromSnapshot(Applied(d, op))
           /\ Applied(d, op).version = d.version + 1
<1> USE TenantAssumption
<1>0. op \in Operations  OBVIOUS
<1>1. CASE op.verb = "provision"
  <2>1. Applied(d, op) = [d EXCEPT !.version = 1] /\ d.version = 0
    BY <1>1 DEF Applied, CreateOrganization, Accepts
  <2> QED  BY <2>1 DEF Directories, FromSnapshot
<1>2. CASE op.verb = "grant"
  <2> DEFINE e == [d EXCEPT !.members = @ \cup {<<op.project, op.user>>}]
  <2>1. Applied(d, op) = Bump(e)  BY <1>2 DEF Applied, GrantProjectMembership
  <2>2. op.project \in d.projects /\ op.user \in d.users  BY <1>2 DEF Accepts
  <2>3. e \in Directories /\ FromSnapshot(e) /\ e.version = d.version
    BY <2>2 DEF Directories, FromSnapshot
  <2> QED  BY <2>1, <2>3, BumpLoads
<1>3. CASE op.verb = "revoke"
  <2> DEFINE e == [d EXCEPT !.members = @ \ {<<op.project, op.user>>}]
  <2>1. Applied(d, op) = Bump(e)  BY <1>3 DEF Applied, RevokeProjectMembership
  <2>3. e \in Directories /\ FromSnapshot(e) /\ e.version = d.version
    BY DEF Directories, FromSnapshot
  <2> QED  BY <2>1, <2>3, BumpLoads
<1>4. CASE op.verb = "put" /\ op.kind = "user"
  <2> DEFINE e == [d EXCEPT !.users = @ \cup {op.user}]
  <2>1. Applied(d, op) = Bump(e)  BY <1>4 DEF Applied, UpsertUser
  <2>2. op.user \in Users  BY <1>0, <1>4 DEF Operations
  <2>3. e \in Directories /\ FromSnapshot(e) /\ e.version = d.version
    BY <2>2 DEF Directories, FromSnapshot
  <2> QED  BY <2>1, <2>3, BumpLoads
<1>5. CASE op.verb = "put" /\ op.kind = "project"
  <2> DEFINE e == [d EXCEPT !.projects = @ \cup {op.project}]
  <2>1. Applied(d, op) = Bump(e)  BY <1>5 DEF Applied, UpsertProject
  <2>2. op.project \in Projects  BY <1>0, <1>5 DEF Operations
  <2>3. e \in Directories /\ FromSnapshot(e) /\ e.version = d.version
    BY <2>2 DEF Directories, FromSnapshot
  <2> QED  BY <2>1, <2>3, BumpLoads
<1>6. CASE op.verb = "put" /\ op.kind = "agent"
  <2> DEFINE g == [user |-> op.user, project |-> op.project, exists |-> TRUE]
             ag == [d.agents EXCEPT ![op.agent] = g]
             as == [d.assoc EXCEPT ![op.agent] = op.project]
             e == [d EXCEPT !.agents[op.agent] = g, !.assoc[op.agent] = op.project]
  <2>1. Applied(d, op) = Bump(e)  BY <1>6 DEF Applied, UpsertAgent
  <2>2. /\ op.agent \in Agents /\ op.user \in d.users \cup {None} /\ op.project \in d.projects \cup {None}
        /\ op.user \in Users \cup {None} /\ op.project \in Projects \cup {None}
    BY <1>0, <1>6 DEF Operations, Accepts
  <2>3. /\ ag \in [Agents -> [user : Users \cup {None}, project : Projects \cup {None}, exists : BOOLEAN]]
        /\ as \in [Agents -> Projects \cup {None}]
        /\ \A a \in Agents : /\ ag[a].exists => /\ ag[a].user \in d.users \cup {None}
                                                /\ ag[a].project \in d.projects \cup {None}
                             /\ as[a] = ag[a].project
    BY <2>2 DEF Directories, FromSnapshot, NoAgent
  <2>4. /\ e \in Directories /\ e.version = d.version /\ e.agents = ag /\ e.assoc = as
        /\ e.users = d.users /\ e.projects = d.projects /\ e.members = d.members
    BY <2>2, <2>3 DEF Directories
  <2> HIDE DEF e, ag, as
  <2>5. FromSnapshot(e)  BY <2>3, <2>4 DEF FromSnapshot
  <2> QED  BY <2>1, <2>4, <2>5, BumpLoads
<1>7. CASE op.verb = "delete" /\ op.kind = "agent"
  <2> DEFINE ag == [d.agents EXCEPT ![op.agent] = NoAgent]
             as == [d.assoc EXCEPT ![op.agent] = None]
             e == [d EXCEPT !.agents[op.agent] = NoAgent, !.assoc[op.agent] = None]
  <2>1. Applied(d, op) = Bump(e)  BY <1>7 DEF Applied, RemoveAgent
  <2>2. op.agent \in Agents  BY <1>0, <1>7 DEF Operations
  <2>3. /\ ag \in [Agents -> [user : Users \cup {None}, project : Projects \cup {None}, exists : BOOLEAN]]
        /\ as \in [Agents -> Projects \cup {None}]
        /\ \A a \in Agents : /\ ag[a].exists => /\ ag[a].user \in d.users \cup {None}
                                                /\ ag[a].project \in d.projects \cup {None}
                             /\ as[a] = ag[a].project
    BY <2>2 DEF Directories, FromSnapshot, NoAgent
  <2>4. /\ e \in Directories /\ e.version = d.version /\ e.agents = ag /\ e.assoc = as
        /\ e.users = d.users /\ e.projects = d.projects /\ e.members = d.members
    BY <2>2, <2>3 DEF Directories
  <2> HIDE DEF e, ag, as
  <2>5. FromSnapshot(e)  BY <2>3, <2>4 DEF FromSnapshot
  <2> QED  BY <2>1, <2>4, <2>5, BumpLoads
<1>8. CASE op.verb = "delete" /\ op.kind = "user"
  <2> DEFINE gone == {a \in Agents : d.agents[a].user = op.user}
             us == d.users \ {op.user}
             ms == {m \in d.members : m[2] # op.user}
             ag == [a \in Agents |-> IF a \in gone THEN NoAgent ELSE d.agents[a]]
             as == [a \in Agents |-> IF a \in gone THEN None ELSE d.assoc[a]]
             e == [d EXCEPT !.users = us, !.members = ms, !.agents = ag, !.assoc = as]
  <2>1. Applied(d, op) = Bump(e)  BY <1>8 DEF Applied, RemoveUser
  <2>2. us \subseteq Users /\ ms \subseteq Projects \X Users /\ ms \subseteq d.projects \X us
    BY DEF Directories, FromSnapshot
  <2>3. /\ ag \in [Agents -> [user : Users \cup {None}, project : Projects \cup {None}, exists : BOOLEAN]]
        /\ as \in [Agents -> Projects \cup {None}]
    BY DEF Directories, NoAgent
  <2>4. \A a \in Agents : /\ ag[a].exists => /\ ag[a].user \in us \cup {None}
                                             /\ ag[a].project \in d.projects \cup {None}
                          /\ as[a] = ag[a].project
    BY DEF FromSnapshot, NoAgent
  <2> HIDE DEF us, ms, ag, as
  <2>5. /\ e \in Directories /\ e.version = d.version /\ e.users = us /\ e.members = ms
        /\ e.agents = ag /\ e.assoc = as /\ e.projects = d.projects
    BY <2>2, <2>3 DEF Directories
  <2> HIDE DEF e
  <2>6. FromSnapshot(e)  BY <2>2, <2>4, <2>5 DEF FromSnapshot
  <2> QED  BY <2>1, <2>5, <2>6, BumpLoads
<1>9. CASE op.verb = "delete" /\ op.kind = "project"
  <2> DEFINE ps == d.projects \ {op.project}
             ms == {m \in d.members : m[1] # op.project}
             as == [a \in Agents |-> IF d.assoc[a] = op.project THEN None ELSE d.assoc[a]]
             ag == [a \in Agents |-> IF d.agents[a].project = op.project
                                     THEN [d.agents[a] EXCEPT !.project = None] ELSE d.agents[a]]
             e == [d EXCEPT !.projects = ps, !.members = ms, !.assoc = as, !.agents = ag]
  <2>1. Applied(d, op) = Bump(e)  BY <1>9 DEF Applied, RemoveProject
  <2>2. ps \subseteq Projects /\ ms \subseteq Projects \X Users /\ ms \subseteq ps \X d.users
    BY DEF Directories, FromSnapshot
  <2>3. /\ ag \in [Agents -> [user : Users \cup {None}, project : Projects \cup {None}, exists : BOOLEAN]]
        /\ as \in [Agents -> Projects \cup {None}]
    BY DEF Directories
  <2>4. \A a \in Agents : /\ ag[a].exists => /\ ag[a].user \in d.users \cup {None}
                                             /\ ag[a].project \in ps \cup {None}
                          /\ as[a] = ag[a].project
    BY DEF FromSnapshot, Directories
  <2> HIDE DEF ps, ms, ag, as
  <2>5. /\ e \in Directories /\ e.version = d.version /\ e.projects = ps /\ e.members = ms
        /\ e.agents = ag /\ e.assoc = as /\ e.users = d.users
    BY <2>2, <2>3 DEF Directories
  <2> HIDE DEF e
  <2>6. FromSnapshot(e)  BY <2>2, <2>4, <2>5 DEF FromSnapshot
  <2> QED  BY <2>1, <2>5, <2>6, BumpLoads
<1> QED  BY <1>0, <1>1, <1>2, <1>3, <1>4, <1>5, <1>6, <1>7, <1>8, <1>9 DEF Operations

LEMMA StoredLoads ==
    ASSUME TenantInv
    PROVE  Stored \in Directories /\ FromSnapshot(Stored)
BY EmptyLoads DEF TenantInv, DirectoriesLoad, Stored

\* Once the change is in the file, the contexts are older than the file.
LEMMA WrittenIsNewer ==
    ASSUME TenantInv, queue # None, disk' = dir, ctx' = ctx
    PROVE  ContextsAreOld' /\ Stored' = dir /\ dir \in Directories /\ FromSnapshot(dir)
<1>1. dir \in Directories /\ FromSnapshot(dir) /\ dir # None
  BY DEF TenantInv, OneStepAhead, DirectoriesLoad
<1>2. disk # None => dir.version > disk.version /\ disk.version \in Nat /\ dir.version \in Nat
  BY <1>1 DEF TenantInv, OneStepAhead, DirectoriesLoad, Stored, Directories
<1>3. ContextsAreOld'
  <2> SUFFICES ASSUME NEW c \in Callers, ctx[c] # NoContext
               PROVE  ctx[c].version \in Nat /\ ctx[c].version < dir.version /\ dir.version \in Nat
    BY <1>1 DEF ContextsAreOld
  <2>1. disk # None /\ ctx[c].version \in Nat /\ ctx[c].version <= disk.version
    BY DEF TenantInv, ContextsAreOld
  <2> QED  BY <1>2, <2>1
<1> QED  BY <1>1, <1>3 DEF Stored

\* Steps that move one call and leave the directory alone.
LEMMA CallStepKeeps ==
    ASSUME TenantInv, NEW c \in Callers,
           \/ Authorize(c) \/ Check(c) \/ Reread(c) \/ Audit(c) \/ \E op \in Ops : Call(c, op)
    PROVE  TenantInv'
<1>1. UNCHANGED <<disk, dir, usable, queue, before, ctx>>
  BY DEF Authorize, Check, Reread, Audit, Call
<1>2. CallsAreKnown'
  <2> USE DEF TenantInv, CallsAreKnown, Stages
  <2>0. NoCall \in [op : Ops \cup {None}, pc : Stages] /\ NoCall.pc = "idle"  BY DEF NoCall, Stages
  <2>1. CASE Authorize(c)  BY <2>0, <2>1 DEF Authorize, Return, MoveTo
  <2>2. CASE Check(c)  BY <2>0, <2>2 DEF Check, Return, MoveTo
  <2>3. CASE Reread(c)  BY <2>0, <2>3 DEF Reread, Return, MoveTo
  <2>4. CASE Audit(c)  BY <2>0, <2>4 DEF Audit, Return
  <2>5. ASSUME NEW op \in Ops, Call(c, op) PROVE CallsAreKnown'
    BY <2>5 DEF Call
  <2> QED  BY <2>1, <2>2, <2>3, <2>4, <2>5
<1> QED  BY <1>1, <1>2 DEF TenantInv, DirectoriesLoad, ContextsAreOld, OneStepAhead, Stored

LEMMA MutateKeeps ==
    ASSUME TenantInv, NEW c \in Callers, Mutate(c)
    PROVE  TenantInv'
<1>0. /\ queue = None /\ dir # None /\ call[c].pc = "mutate" /\ UNCHANGED <<disk, usable, ctx>>
      /\ dir \in Directories /\ FromSnapshot(dir) /\ dir = Stored
      /\ call[c].op \in Ops /\ call[c].op.verb # "read"
  BY DEF Mutate, Ready, TenantInv, DirectoriesLoad, CallsAreKnown
<1>1. CallsAreKnown'
  <2>1. Return(c) \/ MoveTo(c, "persist")  BY DEF Mutate
  <2>2. NoCall \in [op : Ops \cup {None}, pc : Stages] /\ NoCall.pc = "idle"  BY DEF NoCall, Stages
  <2> QED  BY <2>1, <2>2 DEF TenantInv, CallsAreKnown, Return, MoveTo, Stages
<1>2. CASE ~Accepts(dir, call[c].op)
  <2>1. UNCHANGED <<dir, queue, before>>  BY <1>2 DEF Mutate
  <2> QED  BY <1>0, <1>1, <2>1 DEF TenantInv, DirectoriesLoad, ContextsAreOld, OneStepAhead, Stored
<1>3. CASE Accepts(dir, call[c].op)
  <2>1. before' = dir /\ dir' = Applied(dir, call[c].op) /\ queue' = c  BY <1>3 DEF Mutate
  <2>2. dir' \in Directories /\ FromSnapshot(dir') /\ dir'.version = dir.version + 1
    BY <1>0, <1>3, <2>1, AppliedLoads
  <2>3. dir' # None /\ c # None  BY <2>2, TenantAssumption
  <2> QED
    BY <1>0, <1>1, <2>1, <2>2, <2>3
       DEF TenantInv, DirectoriesLoad, ContextsAreOld, OneStepAhead, Stored, FromSnapshot
<1> QED  BY <1>2, <1>3

LEMMA PersistKeeps ==
    ASSUME TenantInv, NEW c \in Callers, Persist(c) \/ PersistFails(c)
    PROVE  TenantInv'
<1>0. queue # None /\ queue' = None /\ UNCHANGED <<usable, ctx>>
  BY TenantAssumption DEF Persist, PersistFails
<1>1. CallsAreKnown'
  <2>1. Return(c) \/ MoveTo(c, "reread") \/ MoveTo(c, "audit")  BY DEF Persist, PersistFails
  <2>2. NoCall \in [op : Ops \cup {None}, pc : Stages] /\ NoCall.pc = "idle"  BY DEF NoCall, Stages
  <2> QED  BY <2>1, <2>2 DEF TenantInv, CallsAreKnown, Return, MoveTo, Stages
<1>2. CASE Persist(c)
  <2>1. disk' = dir /\ dir' = dir  BY <1>2 DEF Persist
  <2> QED  BY <1>0, <1>1, <2>1, WrittenIsNewer DEF TenantInv, DirectoriesLoad
<1>3. CASE PersistFails(c)
  <2>1. dir' = Stored /\ disk' = disk  BY <1>0, <1>3 DEF PersistFails, Restored, TenantInv, OneStepAhead
  <2> QED
    BY <1>0, <1>1, <2>1, StoredLoads DEF TenantInv, DirectoriesLoad, ContextsAreOld, Stored, FromSnapshot
<1> QED  BY <1>2, <1>3

LEMMA ProcessKeeps ==
    ASSUME TenantInv, Load \/ Crash \/ UNCHANGED tenantVars
    PROVE  TenantInv'
<1>1. CASE Load
  <2>1. queue = None /\ UNCHANGED <<disk, queue, before, ctx, call>>  BY <1>1 DEF Load
  <2>2. usable' = TRUE /\ dir' = Stored
    BY <1>1 DEF Load, TenantInv, DirectoriesLoad, Stored
  <2> QED
    BY <2>1, <2>2, StoredLoads
       DEF TenantInv, DirectoriesLoad, ContextsAreOld, CallsAreKnown, Stored, FromSnapshot
<1>2. CASE Crash
  <2>1. /\ dir' = None /\ usable' = TRUE /\ queue' = None /\ ctx' = ctx
        /\ call' = [c \in Callers |-> NoCall]
        /\ disk' = disk \/ (queue # None /\ disk' = dir)
    BY <1>2 DEF Crash
  <2>2. CallsAreKnown'
    <3>1. NoCall \in [op : Ops \cup {None}, pc : Stages] /\ NoCall.pc = "idle"  BY DEF NoCall, Stages
    <3> QED  BY <2>1, <3>1 DEF CallsAreKnown
  <2>3. CASE disk' = disk
    BY <2>1, <2>2, <2>3 DEF TenantInv, DirectoriesLoad, ContextsAreOld
  <2>4. CASE queue # None /\ disk' = dir
    BY <2>1, <2>2, <2>4, WrittenIsNewer DEF TenantInv, DirectoriesLoad
  <2> QED  BY <2>1, <2>3, <2>4
<1>3. CASE UNCHANGED tenantVars
  BY <1>3 DEF tenantVars, TenantInv, DirectoriesLoad, ContextsAreOld, CallsAreKnown, OneStepAhead, Stored
<1> QED  BY <1>1, <1>2, <1>3

LEMMA MintKeeps ==
    ASSUME TenantInv, NEW c \in Callers, NEW p \in Principals, Mint(c, p)
    PROVE  TenantInv'
<1> DEFINE x == [principal |-> p, version |-> dir.version, minted |-> dir]
<1>1. /\ queue = None /\ dir # None /\ dir.version > 0 /\ dir = Stored /\ dir \in Directories
      /\ ctx' = [ctx EXCEPT ![c] = x]
      /\ UNCHANGED <<disk, dir, usable, queue, before, call>>
  BY DEF Mint, Ready, TenantInv, DirectoriesLoad
<1>2. disk # None /\ disk = dir /\ dir.version \in Nat
  BY <1>1, EmptyLoads DEF Stored, Directories
<1>3. ContextsAreOld' /\ DOMAIN ctx' = Callers
  BY <1>1, <1>2 DEF TenantInv, ContextsAreOld
<1> QED  BY <1>1, <1>3 DEF TenantInv, DirectoriesLoad, CallsAreKnown, OneStepAhead, Stored

\* The directory in memory is the one in the file, or one step ahead of it while
\* its write is under way, through failed writes, restores and crashes.
THEOREM TenantDirectoryInvariant == TenantSpec => []TenantInv
<1>1. TenantInit => TenantInv
  <2> SUFFICES ASSUME TenantInit PROVE TenantInv  OBVIOUS
  <2>1. NoCall \in [op : Ops \cup {None}, pc : Stages] /\ NoCall.pc = "idle"  BY DEF NoCall, Stages
  <2> QED  BY <2>1 DEF TenantInit, TenantInv, DirectoriesLoad, ContextsAreOld, CallsAreKnown
<1>2. TenantInv /\ [TenantNext]_tenantVars => TenantInv'
  BY CallStepKeeps, MutateKeeps, PersistKeeps, ProcessKeeps, MintKeeps DEF TenantNext, Step
<1> QED  BY <1>1, <1>2, PTL DEF TenantSpec

\* A context that verifyContext() accepts was minted from the directory as it
\* stands, and whatever the directory has written can be loaded again.
THEOREM TenantsHoldTheorem == TenantSpec => []TenantsHold
<1>1. TenantInv => TenantsHold
  <2> SUFFICES ASSUME TenantInv PROVE TenantsHold  OBVIOUS
  <2>1. DirectoryLoads  BY DEF TenantInv, DirectoriesLoad, DirectoryLoads
  <2>2. ASSUME dir # None, NEW c \in Callers, ctx[c] # NoContext, VerifyContext(dir, ctx[c])
        PROVE  ctx[c].minted = dir
    <3>1. dir.version = ctx[c].version  BY <2>2 DEF VerifyContext
    <3>2. disk # None /\ ctx[c].version \in Nat /\ ctx[c].version <= disk.version
          /\ (ctx[c].version = disk.version => ctx[c].minted = disk)
      BY <2>2 DEF TenantInv, ContextsAreOld
    <3>3. disk.version \in Nat  BY <3>2 DEF TenantInv, DirectoriesLoad, Directories
    <3>4. queue = None
      BY <3>1, <3>2, <3>3 DEF TenantInv, OneStepAhead, Stored
    <3> QED  BY <2>2, <3>1, <3>2, <3>4 DEF TenantInv, Stored
  <2> QED  BY <2>1, <2>2 DEF TenantsHold, VerifiedIsCurrent
<1> QED  BY <1>1, TenantDirectoryInvariant, PTL
-----------------------------------------------------------------------------
(* The V6 policy: the evaluators agree, and writers own what they write.   *)
\* A context that was minted, and a call that has fetched a row of its organization.
Minted == [principal : {g.principal : g \in Grants}, operation : {g.operation : g \in Grants},
           authExpiresAt : Nat, resolvedAt : Nat, deadlineAt : Nat \cup {Absent}]
Guarded == [direct : Directs, id : Ids, now : Nat, row : GuardedRows \cup {Absent}]

GuardTyped ==
    /\ guardClock \in Nat
    /\ rows \in [Ids -> GuardedRows \cup {Absent}]
    /\ guardCtx \in [Clients -> Minted \cup {Absent}]
    /\ guardCall \in [Clients -> Guarded \cup {Absent}]

\* A call is made in a context; what it has fetched is of that organization and,
\* if it is to be deleted, was not on hold.
CallsAreMinted ==
    \A c \in Clients : guardCall[c] # Absent =>
       /\ guardCtx[c] # Absent
       /\ guardCall[c].row # Absent =>
             /\ guardCall[c].row.org = guardCtx[c].principal.org
             /\ guardCall[c].direct = "delete" => ~guardCall[c].row.legalHold

GuardInv == GuardTyped /\ CallsAreMinted /\ WriterOwnsRow

\* A decision is a denial exactly when a check fails or the layers deny.
LEMMA DecisionDenies ==
    ASSUME NEW checks, NEW layers, \E i \in DOMAIN checks : checks[i][1]
    PROVE  Decision(checks, layers).effect = "deny"
BY DEF Decision

LEMMA DecisionAllows ==
    ASSUME NEW checks, NEW layers, \A i \in DOMAIN checks : ~checks[i][1]
    PROVE  Decision(checks, layers).effect = IF layers = {} THEN "allow" ELSE ResolveLayers(layers).effect
BY DEF Decision

Unlayered(p, m, operation, now) ==
    \/ OtherTenant(p, m) \/ OtherProject(p, m) \/ Capability(operation) \notin p.caps
    \/ NoEgress(p, operation) \/ Expired(m, now) \/ m.sensitivity > Clearance(p)
    \/ (m.legalHold /\ operation = "delete") \/ m.trust = "unverified"

LEMMA SixDecides ==
    ASSUME NEW p, NEW m, NEW operation, NEW layers, NEW now
    PROVE  EvaluateV6Policy(p, m, operation, layers, now).effect =
              IF Unlayered(p, m, operation, now) THEN "deny"
              ELSE IF layers = {} THEN "allow" ELSE ResolveLayers(layers).effect
<1> DEFINE D == layers # {} /\ ResolveLayers(layers).effect = "deny"
           A1 == OtherTenant(p, m)
           A2 == OtherProject(p, m)
           A4 == Capability(operation) \notin p.caps
           A5 == NoEgress(p, operation)
           A6 == Expired(m, now)
           A7 == m.sensitivity > Clearance(p)
           A8 == m.legalHold /\ operation = "delete"
           A9 == m.trust = "unverified"
           why == IF D THEN ResolveLayers(layers).reason ELSE Absent
           checks == << <<A1, "tenant_mismatch">>, <<A2, "project_mismatch">>, <<D, why>>,
                        <<A4, "capability_missing">>, <<A5, "provider_not_permitted">>, <<A6, "expired">>,
                        <<A7, "sensitivity_denied">>, <<A8, "legal_hold">>, <<A9, "trust_restricted">> >>
<1>1. EvaluateV6Policy(p, m, operation, layers, now) = Decision(checks, layers)
  BY DEF EvaluateV6Policy
<1>2. Unlayered(p, m, operation, now) <=> A1 \/ A2 \/ A4 \/ A5 \/ A6 \/ A7 \/ A8 \/ A9
  BY DEF Unlayered
<1>3. (\E i \in DOMAIN checks : checks[i][1]) <=> A1 \/ A2 \/ D \/ A4 \/ A5 \/ A6 \/ A7 \/ A8 \/ A9
  <2> HIDE DEF A1, A2, D, A4, A5, A6, A7, A8, A9, why
  <2>1. DOMAIN checks = 1 .. 9  OBVIOUS
  <2>2. \A i \in 1 .. 9 : i \in {1, 2, 3, 4, 5, 6, 7, 8, 9}  OBVIOUS
  <2>3. /\ checks[1][1] = A1 /\ checks[2][1] = A2 /\ checks[3][1] = D /\ checks[4][1] = A4
        /\ checks[5][1] = A5 /\ checks[6][1] = A6 /\ checks[7][1] = A7 /\ checks[8][1] = A8
        /\ checks[9][1] = A9
    OBVIOUS
  <2> HIDE DEF checks
  <2> QED  BY <2>1, <2>2, <2>3
<1> HIDE DEF checks, A1, A2, A4, A5, A6, A7, A8, A9, why
<1> QED  BY <1>1, <1>2, <1>3, DecisionDenies, DecisionAllows DEF D

LEMMA SingleDecides ==
    ASSUME NEW p, NEW m, NEW operation, NEW layers, NEW now
    PROVE  EvaluatePolicy(p, m, operation, layers, now).effect =
              IF Unlayered(p, m, operation, now) THEN "deny"
              ELSE IF layers = {} THEN "allow" ELSE ResolveLayers(layers).effect
<1> DEFINE A1 == OtherTenant(p, m)
           A2 == OtherProject(p, m)
           A3 == Capability(operation) \notin p.caps
           A4 == NoEgress(p, operation)
           A5 == m.sensitivity > Clearance(p)
           A6 == Expired(m, now)
           A7 == m.legalHold /\ operation = "delete"
           A8 == m.trust = "unverified"
           checks == << <<A1, "tenant_mismatch">>, <<A2, "project_mismatch">>,
                        <<A3, "capability_missing">>, <<A4, "provider_not_permitted">>,
                        <<A5, "sensitivity_denied">>, <<A6, "expired">>,
                        <<A7, "legal_hold">>, <<A8, "trust_restricted">> >>
<1>1. EvaluatePolicy(p, m, operation, layers, now) = Decision(checks, layers)
  BY DEF EvaluatePolicy
<1>2. Unlayered(p, m, operation, now) <=> A1 \/ A2 \/ A3 \/ A4 \/ A5 \/ A6 \/ A7 \/ A8
  BY DEF Unlayered
<1>3. (\E i \in DOMAIN checks : checks[i][1]) <=> A1 \/ A2 \/ A3 \/ A4 \/ A5 \/ A6 \/ A7 \/ A8
  <2> HIDE DEF A1, A2, A3, A4, A5, A6, A7, A8
  <2>1. DOMAIN checks = 1 .. 8  OBVIOUS
  <2>2. \A i \in 1 .. 8 : i \in {1, 2, 3, 4, 5, 6, 7, 8}  OBVIOUS
  <2>3. /\ checks[1][1] = A1 /\ checks[2][1] = A2 /\ checks[3][1] = A3 /\ checks[4][1] = A4
        /\ checks[5][1] = A5 /\ checks[6][1] = A6 /\ checks[7][1] = A7 /\ checks[8][1] = A8
    OBVIOUS
  <2> HIDE DEF checks
  <2> QED  BY <2>1, <2>2, <2>3
<1> HIDE DEF checks, A1, A2, A3, A4, A5, A6, A7, A8
<1> QED  BY <1>1, <1>2, <1>3, DecisionDenies, DecisionAllows

\* evaluateV6Policy() and evaluatePolicy() ask in different orders, one with the
\* layers in the middle; their effect is the same, on any row and any layers.
THEOREM EvaluatorsAgree ==
    ASSUME NEW p, NEW m, NEW operation, NEW layers, NEW now
    PROVE  EvaluateV6Policy(p, m, operation, layers, now).effect
              = EvaluatePolicy(p, m, operation, layers, now).effect
BY SixDecides, SingleDecides

\* buildV6Predicate() and guardCandidateSet() see the same rows, but for a principal
\* without a project and for held rows outside context_read; and a direct read of
\* what they see is permitted to who may read, unless it is unverified.
THEOREM RetrievalWithinPolicy ==
    ASSUME NEW m \in GuardedRows, NEW g \in Grants, NEW now \in Nat
    PROVE  /\ \A operation :
                 /\ g.principal.project # Absent \/ m.project = Absent
                 /\ ExcludesHeld(operation) \/ ~m.legalHold
                 => (Admitted(g.principal, m, operation, now) <=> Candidate(g.principal, m, now))
           /\ Admitted(g.principal, m, "context_read", now)
              /\ "tenant:read" \in g.principal.caps /\ m.trust # "unverified" =>
                    EvaluateV6Policy(g.principal, m, "context_read", {}, now).effect = "allow"
<1> DEFINE p == g.principal
<1>1. Clearance(p) \in Nat /\ m.sensitivity \in Nat
  BY GuardAssumption DEF Clearance, GuardedRows
<1> HIDE DEF p
<1>2. m.sensitivity \in Reachable(p) <=> m.sensitivity <= Clearance(p)
  BY <1>1 DEF Reachable
<1>3. ASSUME NEW operation, p.project # Absent \/ m.project = Absent,
             ExcludesHeld(operation) \/ ~m.legalHold
      PROVE  Admitted(p, m, operation, now) <=> Candidate(p, m, now)
  BY <1>2, <1>3 DEF Admitted, Candidate
<1>4. ASSUME Admitted(p, m, "context_read", now), "tenant:read" \in p.caps, m.trust # "unverified"
      PROVE  ~Unlayered(p, m, "context_read", now)
  <2>1. /\ m.org = p.org /\ m.project = p.project /\ m.sensitivity <= Clearance(p)
        /\ ~Expired(m, now) /\ ~m.legalHold
    BY <1>2, <1>4 DEF Admitted, ExcludesHeld
  <2> QED  BY <1>1, <1>4, <2>1 DEF Unlayered, OtherTenant, OtherProject, NoEgress, Capability
<1> QED  BY <1>3, <1>4, SixDecides DEF p

LEMMA AgreeFromInv == GuardInv => DecisionsAgree
<1> SUFFICES ASSUME GuardInv PROVE DecisionsAgree  OBVIOUS
<1>0. SUFFICES ASSUME NEW c \in Clients, NEW id \in Ids, guardCtx[c] # Absent, rows[id] # Absent
             PROVE  LET p == guardCtx[c].principal
                        m == rows[id]
                    IN  /\ \A operation \in PolicyOperations, layers \in Layerings :
                              EvaluateV6Policy(p, m, operation, layers, guardClock).effect
                                 = EvaluatePolicy(p, m, operation, layers, guardClock).effect
                        /\ \A operation \in {Absent, "context_read", "read"} :
                              /\ p.project # Absent \/ m.project = Absent
                              /\ ExcludesHeld(operation) \/ ~m.legalHold
                              => (Admitted(p, m, operation, guardClock) <=> Candidate(p, m, guardClock))
                        /\ Admitted(p, m, "context_read", guardClock)
                           /\ "tenant:read" \in p.caps /\ m.trust # "unverified" =>
                                 EvaluateV6Policy(p, m, "context_read", {}, guardClock).effect = "allow"
  BY DEF DecisionsAgree
<1>1. rows[id] \in GuardedRows /\ guardClock \in Nat  BY <1>0 DEF GuardInv, GuardTyped
<1>2. PICK g \in Grants : guardCtx[c].principal = g.principal
  BY <1>0 DEF GuardInv, GuardTyped, Minted
<1> QED  BY <1>1, <1>2, EvaluatorsAgree, RetrievalWithinPolicy

LEMMA ContextKeeps ==
    ASSUME GuardInv, NEW c \in Clients, NEW g \in Grants, CreateRequestContext(c, g)
    PROVE  GuardInv'
<1>0. guardCtx[c] = Absent /\ guardCall[c] = Absent /\ guardClock \in Nat
  BY DEF GuardInv, GuardTyped, CallsAreMinted, CreateRequestContext
<1>1. PICK resolved \in {0, guardClock} :
         guardCtx' = [guardCtx EXCEPT ![c] = [principal |-> g.principal, operation |-> g.operation,
                                     authExpiresAt |-> guardClock + g.lifetime, resolvedAt |-> resolved,
                                     deadlineAt |-> IF g.deadline = Absent THEN Absent
                                                    ELSE guardClock + g.deadline]]
  BY DEF CreateRequestContext
<1>2. [principal |-> g.principal, operation |-> g.operation,
       authExpiresAt |-> guardClock + g.lifetime, resolvedAt |-> resolved,
       deadlineAt |-> IF g.deadline = Absent THEN Absent ELSE guardClock + g.deadline] \in Minted
  BY <1>0, GuardAssumption DEF Minted
<1>3. guardCtx' \in [Clients -> Minted \cup {Absent}] /\ \A d \in Clients \ {c} : guardCtx'[d] = guardCtx[d]
  BY <1>1, <1>2 DEF GuardInv, GuardTyped
<1>4. UNCHANGED <<rows, guardClock, guardCall>>  BY DEF CreateRequestContext
<1> QED  BY <1>0, <1>3, <1>4 DEF GuardInv, GuardTyped, CallsAreMinted, WriterOwnsRow

LEMMA GuardKeeps ==
    ASSUME GuardInv, NEW c \in Clients, NEW direct \in Directs, NEW id \in Ids, Guard(c, direct, id)
    PROVE  GuardInv'
<1>1. /\ guardCtx[c] # Absent /\ UNCHANGED <<rows, guardClock, guardCtx>>
      /\ guardCall' = [guardCall EXCEPT ![c] = [direct |-> direct, id |-> id, now |-> guardClock, row |-> Absent]]
  BY DEF Guard
<1>2. [direct |-> direct, id |-> id, now |-> guardClock, row |-> Absent] \in Guarded
  BY DEF Guarded, GuardInv, GuardTyped
<1> QED  BY <1>1, <1>2 DEF GuardInv, GuardTyped, CallsAreMinted, WriterOwnsRow

\* A call that goes on to write has fetched a row of its own organization.
LEMMA FetchKeeps ==
    ASSUME GuardInv, NEW c \in Clients, Fetched(c)
    PROVE  GuardInv'
<1> DEFINE m == rows[guardCall[c].id]
           goes == m # Absent /\ guardCall[c].direct \in Writing /\ Permitted(c, m)
<1>1. /\ guardCall[c] # Absent /\ UNCHANGED <<rows, guardClock, guardCtx>>
      /\ guardCall' = [guardCall EXCEPT ![c] = IF goes THEN [@ EXCEPT !.row = m] ELSE Absent]
  BY DEF Fetched
<1>2. guardCall[c] \in Guarded /\ m \in GuardedRows \cup {Absent} /\ guardCtx[c] # Absent
  BY <1>1 DEF GuardInv, GuardTyped, CallsAreMinted, Guarded
<1>3. goes => /\ m.org = guardCtx[c].principal.org
              /\ guardCall[c].direct = "delete" => ~m.legalHold
  <2> SUFFICES ASSUME goes
               PROVE  /\ m.org = guardCtx[c].principal.org
                      /\ guardCall[c].direct = "delete" => ~m.legalHold
    OBVIOUS
  <2> DEFINE p == guardCtx[c].principal
             operation == OperationClass(guardCall[c].direct)
  <2>1. EvaluateV6Policy(p, m, operation, {}, guardCall[c].now).effect = "allow"  BY DEF Permitted
  <2>2. guardCall[c].direct = "delete" => operation = "delete"  BY DEF OperationClass
  <2> HIDE DEF m, p, operation
  <2>3. ~Unlayered(p, m, operation, guardCall[c].now)  BY <2>1, SixDecides
  <2> QED  BY <2>2, <2>3 DEF Unlayered, OtherTenant, p
<1> HIDE DEF m, goes
<1>4. [guardCall[c] EXCEPT !.row = m] \in Guarded /\ [guardCall[c] EXCEPT !.row = m].row = m
      /\ [guardCall[c] EXCEPT !.row = m].direct = guardCall[c].direct
  BY <1>2 DEF Guarded
<1> DEFINE n == [guardCall[c] EXCEPT !.row = m]
<1>5. guardCall' = [guardCall EXCEPT ![c] = IF goes THEN n ELSE Absent]
  BY <1>1, <1>2 DEF GuardInv, GuardTyped
<1>6. n \in Guarded /\ n.row = m /\ n.direct = guardCall[c].direct  BY <1>4
<1> HIDE DEF n
<1> QED  BY <1>1, <1>2, <1>3, <1>5, <1>6 DEF GuardInv, GuardTyped, CallsAreMinted, WriterOwnsRow

\* A patched row is a row; it is in its writer's organization unless the patch
\* names one, and it keeps a hold unless the patch names that.
LEMMA PatchKeeps ==
    ASSUME NEW m \in GuardedRows, NEW direct, NEW u \in PatchesOf(direct), NEW org \in Organizations
    PROVE  LET n == Patched(m, u, org) IN
           /\ n \in GuardedRows /\ n.by = org
           /\ n.org = m.org \/ "org" \in n.named
           /\ n.legalHold = m.legalHold \/ "legalHold" \in n.named
           /\ "id" \in n.named <=> "id" \in DOMAIN u
<1> DEFINE n == Patched(m, u, org)
<1>1. IsPatch(u)
  BY GuardAssumption DEF PatchesOf, NoPatch, IsPatch
<1>2. /\ m.org \in Organizations /\ m.project \in RowProjects /\ m.sensitivity \in Nat
      /\ m.trust \in TRUST_LEVELS /\ m.legalHold \in BOOLEAN /\ m.expiresAt \in Nat \cup {Absent}
  BY DEF GuardedRows
<1> DEFINE o == Field(m, u, "org")
           j == Field(m, u, "project")
           s == Field(m, u, "sensitivity")
           t == Field(m, u, "trust")
           l == Field(m, u, "legalHold")
           e == Field(m, u, "expiresAt")
           k == DOMAIN u \cap Accounted
<1>3. /\ o \in Organizations /\ j \in RowProjects /\ s \in Nat
      /\ t \in TRUST_LEVELS /\ l \in BOOLEAN /\ e \in Nat \cup {Absent}
  BY <1>1, <1>2 DEF IsPatch, Field
<1>4. /\ o = m.org \/ "org" \in k
      /\ l = m.legalHold \/ "legalHold" \in k
      /\ "id" \in k <=> "id" \in DOMAIN u
  BY DEF Field, Accounted
<1>5. k \in SUBSET Accounted  OBVIOUS
<1>6. n = [org |-> o, by |-> org, named |-> k, project |-> j, sensitivity |-> s, trust |-> t,
           legalHold |-> l, expiresAt |-> e]
  BY DEF Patched
<1> HIDE DEF n, o, j, s, t, l, e, k
<1>7. n \in GuardedRows  BY <1>3, <1>5, <1>6 DEF GuardedRows
<1> QED  BY <1>4, <1>6, <1>7 DEF n

\* What a write leaves: nothing under the id, or a row patched from the fetched one.
LEMMA WriteLeaves ==
    ASSUME GuardInv, NEW c \in Clients, Write(c)
    PROVE  /\ guardCall[c] # Absent /\ guardCall[c].row # Absent /\ UNCHANGED <<guardClock, guardCtx>>
           /\ guardCall' = [guardCall EXCEPT ![c] = Absent]
           /\ guardCall[c].row \in GuardedRows
           /\ guardCall[c].row.org = guardCtx[c].principal.org
           /\ \/ /\ rows' = [rows EXCEPT ![guardCall[c].id] = Absent]
                 /\ ~guardCall[c].row.legalHold
              \/ \E n \in GuardedRows, id \in Ids :
                    /\ rows' = [rows EXCEPT ![id] = n]
                    /\ n.by = guardCtx[c].principal.org
                    /\ n.org = n.by \/ "org" \in n.named
                    /\ n.legalHold = guardCall[c].row.legalHold \/ "legalHold" \in n.named
                    /\ id = guardCall[c].id \/ "id" \in n.named
<1>1. guardCall[c] # Absent /\ guardCall[c].row # Absent /\ UNCHANGED <<guardClock, guardCtx>>
      /\ guardCall' = [guardCall EXCEPT ![c] = Absent]
  BY DEF Write
<1>2. /\ guardCall[c].row \in GuardedRows /\ guardCtx[c] \in Minted /\ guardCall[c].id \in Ids
      /\ guardCall[c].row.org = guardCtx[c].principal.org
      /\ guardCall[c].direct = "delete" => ~guardCall[c].row.legalHold
  BY <1>1 DEF GuardInv, GuardTyped, CallsAreMinted, Guarded
<1>3. CASE guardCall[c].direct = "delete"
  BY <1>1, <1>2, <1>3 DEF Write
<1>4. CASE guardCall[c].direct # "delete"
  <2> DEFINE org == guardCtx[c].principal.org
             m == guardCall[c].row
             at(u) == IF "id" \in DOMAIN u THEN u["id"] ELSE guardCall[c].id
  <2>1. PICK u \in PatchesOf(guardCall[c].direct) : rows' = [rows EXCEPT ![at(u)] = Patched(m, u, org)]
    BY <1>4 DEF Write
  <2>2. org \in Organizations  BY <1>2 DEF Minted, Organizations
  <2> DEFINE n == Patched(m, u, org)
  <2>3. /\ n \in GuardedRows /\ n.by = org
        /\ n.org = m.org \/ "org" \in n.named
        /\ n.legalHold = m.legalHold \/ "legalHold" \in n.named
        /\ "id" \in n.named <=> "id" \in DOMAIN u
    BY <1>2, <2>2, PatchKeeps
  <2>4. at(u) \in Ids /\ (at(u) = guardCall[c].id \/ "id" \in n.named)
    <3>1. IsPatch(u)  BY GuardAssumption DEF PatchesOf, NoPatch, IsPatch
    <3> QED  BY <1>2, <2>3, <3>1 DEF IsPatch
  <2>5. rows' = [rows EXCEPT ![at(u)] = n]  BY <2>1
  <2>6. m.org = org  BY <1>2
  <2> HIDE DEF n, at, m, org
  <2>7. /\ n.by = org /\ (n.org = n.by \/ "org" \in n.named)  BY <2>3, <2>6
  <2> QED  BY <1>1, <1>2, <2>3, <2>4, <2>5, <2>7 DEF m, org
<1> QED  BY <1>3, <1>4

LEMMA WriteKeeps ==
    ASSUME GuardInv, NEW c \in Clients, Write(c)
    PROVE  GuardInv'
<1>1. \E n \in GuardedRows \cup {Absent}, id \in Ids :
         /\ rows' = [rows EXCEPT ![id] = n]
         /\ n # Absent => n.by = n.org \/ "org" \in n.named
  <2>1. guardCall[c].id \in Ids  BY WriteLeaves DEF GuardInv, GuardTyped, Guarded
  <2> QED  BY <2>1, WriteLeaves
<1>2. rows' \in [Ids -> GuardedRows \cup {Absent}] /\ WriterOwnsRow'
  BY <1>1 DEF GuardInv, GuardTyped, WriterOwnsRow
<1> QED  BY <1>2, WriteLeaves DEF GuardInv, GuardTyped, CallsAreMinted

LEMMA StoreKeeps ==
    ASSUME GuardInv, NEW c \in Clients, NEW m \in Rows, Store(c, m)
    PROVE  GuardInv'
<1> DEFINE p == guardCtx[c].principal
           n == [m EXCEPT !.by = guardCtx[c].principal.org, !.named = Accounted]
<1>1. /\ EvaluateV6Policy(p, m, "write", {}, guardClock).effect = "allow"
      /\ rows' = [rows EXCEPT !["pending"] = n] /\ UNCHANGED <<guardClock, guardCtx, guardCall>>
  BY DEF Store
<1>2. m \in GuardedRows  BY GuardAssumption
<1>3. m.org = p.org
  <2> HIDE DEF p
  <2>1. ~Unlayered(p, m, "write", guardClock)  BY <1>1, SixDecides
  <2> QED  BY <2>1 DEF Unlayered, OtherTenant
<1>4. n \in GuardedRows /\ n.by = n.org  BY <1>2, <1>3 DEF GuardedRows
<1> HIDE DEF n, p
<1> QED  BY <1>1, <1>4 DEF GuardInv, GuardTyped, CallsAreMinted, WriterOwnsRow

LEMMA HoldKeeps ==
    ASSUME GuardInv, NEW id \in Ids, SetHold(id)
    PROVE  GuardInv'
<1> DEFINE n == [rows[id] EXCEPT !.legalHold = ~rows[id].legalHold]
<1>1. rows[id] \in GuardedRows /\ (rows[id].by = rows[id].org \/ "org" \in rows[id].named)
  BY DEF SetHold, GuardInv, GuardTyped, WriterOwnsRow
<1>2. rows' = [rows EXCEPT ![id] = n] /\ UNCHANGED <<guardClock, guardCtx, guardCall>>
  BY DEF SetHold, GuardInv, GuardTyped
<1>3. n \in GuardedRows /\ (n.by = n.org \/ "org" \in n.named)  BY <1>1 DEF GuardedRows
<1> HIDE DEF n
<1> QED  BY <1>2, <1>3 DEF GuardInv, GuardTyped, CallsAreMinted, WriterOwnsRow

\* A call runs in a context that was minted, and what it has fetched for a write is
\* of the organization of that context, whatever became of the row since.
THEOREM GuardInvariant == GuardSpec => []GuardInv
<1>1. GuardInit => GuardInv
  BY GuardAssumption DEF GuardInit, GuardInv, GuardTyped, CallsAreMinted, WriterOwnsRow
<1>2. GuardInv /\ [GuardNext]_guardVars => GuardInv'
  <2> SUFFICES ASSUME GuardInv, [GuardNext]_guardVars PROVE GuardInv'  OBVIOUS
  <2>1. ASSUME NEW c \in Clients, EndRequest(c) PROVE GuardInv'
    BY <2>1 DEF EndRequest, GuardInv, GuardTyped, CallsAreMinted, WriterOwnsRow
  <2>2. CASE GuardTick
    BY <2>2 DEF GuardTick, GuardInv, GuardTyped, CallsAreMinted, WriterOwnsRow
  <2>3. CASE UNCHANGED guardVars
    BY <2>3 DEF guardVars, GuardInv, GuardTyped, CallsAreMinted, WriterOwnsRow
  <2> QED  BY <2>1, <2>2, <2>3, ContextKeeps, GuardKeeps, FetchKeeps, WriteKeeps, StoreKeeps, HoldKeeps
           DEF GuardNext
<1> QED  BY <1>1, <1>2, PTL DEF GuardSpec

\* What ends a hold, step by step: a write whose caller had fetched no hold, or that
\* names it, or that puts a row under an id of its own choice; or the operator.
HoldEnds(id) ==
    OnHold(rows[id]) /\ ~OnHold(rows'[id]) =>
       \/ guardCall' = guardCall /\ rows'[id] = [rows[id] EXCEPT !.legalHold = FALSE]
       \/ rows'[id] # Absent /\ rows'[id].named \cap {"id", "legalHold"} # {}
       \/ \E c \in Clients : /\ guardCall[c] # Absent /\ guardCall[c].row # Absent
                            /\ guardCall[c].id = id /\ ~guardCall[c].row.legalHold
                            /\ guardCall'[c] = Absent

LEMMA HoldStep ==
    ASSUME GuardInv, [GuardNext]_guardVars, NEW id \in Ids
    PROVE  HoldEnds(id)
<1>0. rows \in [Ids -> GuardedRows \cup {Absent}]  BY DEF GuardInv, GuardTyped
<1>1. CASE UNCHANGED rows  BY <1>1 DEF HoldEnds
<1>2. ASSUME NEW c \in Clients, NEW m \in Rows, Store(c, m) PROVE HoldEnds(id)
  <2> DEFINE n == [m EXCEPT !.by = guardCtx[c].principal.org, !.named = Accounted]
  <2>1. rows' = [rows EXCEPT !["pending"] = n]  BY <1>2 DEF Store
  <2>2. "id" \in n.named  BY GuardAssumption DEF Accounted, GuardedRows
  <2>5. n \in GuardedRows
    <3>1. m \in GuardedRows  BY GuardAssumption
    <3>2. guardCtx[c] \in Minted  BY <1>2 DEF Store, GuardInv, GuardTyped
    <3>3. guardCtx[c].principal.org \in Organizations  BY <3>2 DEF Minted, Organizations
    <3> QED  BY <3>1, <3>3 DEF GuardedRows, Accounted
  <2> HIDE DEF n
  <2>3. CASE id = "pending"
    <3>1. rows'[id] = n  BY <1>0, <2>1, <2>3
    <3>2. n # Absent  BY <2>5, GuardAssumption
    <3> QED  BY <3>1, <3>2, <2>2 DEF HoldEnds
  <2>4. CASE id # "pending"  BY <1>0, <2>1, <2>4 DEF HoldEnds
  <2> QED  BY <2>3, <2>4
<1>3. ASSUME NEW c \in Clients, Write(c) PROVE HoldEnds(id)
  <2>0. guardCall \in [Clients -> Guarded \cup {Absent}]  BY DEF GuardInv, GuardTyped
  <2>1. CASE rows' = [rows EXCEPT ![guardCall[c].id] = Absent] /\ ~guardCall[c].row.legalHold
    BY <1>0, <1>3, <2>0, <2>1, WriteLeaves DEF HoldEnds
  <2>2. ASSUME NEW n \in GuardedRows, NEW k \in Ids, rows' = [rows EXCEPT ![k] = n],
               n.legalHold = guardCall[c].row.legalHold \/ "legalHold" \in n.named,
               k = guardCall[c].id \/ "id" \in n.named
        PROVE  HoldEnds(id)
    <3>1. CASE id # k  BY <1>0, <2>2, <3>1 DEF HoldEnds
    <3>2. CASE id = k
      <4>1. rows'[id] = n  BY <1>0, <2>2, <3>2
      <4>2. CASE ~OnHold(n)
        <5>1. n # Absent /\ ~n.legalHold  BY <4>2, GuardAssumption DEF OnHold
        <5>2. CASE n.named \cap {"id", "legalHold"} # {}
          BY <4>1, <5>1, <5>2 DEF HoldEnds
        <5>3. CASE n.named \cap {"id", "legalHold"} = {}
          <6>1. guardCall[c].id = id /\ ~guardCall[c].row.legalHold  BY <2>2, <3>2, <5>1, <5>3
          <6>2. guardCall[c] # Absent /\ guardCall[c].row # Absent /\ guardCall'[c] = Absent
            BY <1>3, <2>0, WriteLeaves
          <6> QED  BY <6>1, <6>2 DEF HoldEnds
        <5> QED  BY <5>2, <5>3
      <4>3. CASE OnHold(n)  BY <4>1, <4>3 DEF HoldEnds, OnHold
      <4> QED  BY <4>2, <4>3
    <3> QED  BY <3>1, <3>2
  <2> QED  BY <1>3, <2>1, <2>2, WriteLeaves
<1>4. ASSUME NEW k \in Ids, SetHold(k) PROVE HoldEnds(id)
  <2> DEFINE n == [rows[k] EXCEPT !.legalHold = ~rows[k].legalHold]
  <2>1. rows' = [rows EXCEPT ![k] = n] /\ guardCall' = guardCall  BY <1>0, <1>4 DEF SetHold
  <2>2. CASE id # k  BY <1>0, <2>1, <2>2 DEF HoldEnds
  <2>3. CASE id = k
    <3>1. rows'[id] = [rows[id] EXCEPT !.legalHold = ~rows[id].legalHold]  BY <1>0, <2>1, <2>3
    <3>2. ASSUME OnHold(rows[id]) PROVE rows'[id] = [rows[id] EXCEPT !.legalHold = FALSE]
      <4>1. rows[id].legalHold = TRUE  BY <1>0, <3>2 DEF OnHold, GuardedRows
      <4> QED  BY <3>1, <4>1
    <3> QED  BY <2>1, <3>2 DEF HoldEnds
  <2> QED  BY <2>2, <2>3
<1> QED
  BY <1>1, <1>2, <1>3, <1>4 DEF GuardNext, guardVars, CreateRequestContext, Guard, Fetched, EndRequest, GuardTick

\* A row is in its writer's organization unless the writer's patch named another;
\* the evaluators permit the same, and so do the two sides of a retrieval; and a
\* hold that was there when a call decided is not lost to that call.
THEOREM PolicyHoldsTheorem == GuardSpec => PolicyHolds
<1>1. GuardInv => WriterOwnsRow /\ DecisionsAgree  BY AgreeFromInv DEF GuardInv
<1>2. GuardInv /\ [GuardNext]_guardVars => [\A id \in Ids : HoldEnds(id)]_guardVars
  BY HoldStep
<1>3. GuardSpec => [][\A id \in Ids : HoldEnds(id)]_guardVars
  BY <1>2, GuardInvariant, PTL DEF GuardSpec
<1>4. (\A id \in Ids : HoldEnds(id)) <=>
      \A id \in Ids : OnHold(rows[id]) /\ ~OnHold(rows'[id]) =>
          \/ guardCall' = guardCall /\ rows'[id] = [rows[id] EXCEPT !.legalHold = FALSE]
          \/ rows'[id] # Absent /\ rows'[id].named \cap {"id", "legalHold"} # {}
          \/ \E c \in Clients : /\ guardCall[c] # Absent /\ guardCall[c].row # Absent
                               /\ guardCall[c].id = id /\ ~guardCall[c].row.legalHold
                               /\ guardCall'[c] = Absent
  BY DEF HoldEnds
<1>5. GuardSpec => HoldsEndByName  BY <1>3, <1>4, PTL DEF HoldsEndByName
<1> QED  BY <1>1, <1>5, GuardInvariant, PTL DEF PolicyHolds
-----------------------------------------------------------------------------
(* The V6 lifecycle: what was deleted was due.                             *)
\* Records of the lifecycle keep their shape, and the clock is a number.
LifecycleInv == /\ rec \in [Records -> LifecycleRecord] /\ recClock \in Nat
                /\ DestructionWasDue

LEMMA TouchedIsRecord ==
    ASSUME NEW r \in LifecycleRecord
    PROVE  /\ Touched(r) \in LifecycleRecord
           /\ Touched(r).expiresAt = r.expiresAt /\ Touched(r).legalHold = r.legalHold
           /\ Touched(r).archived = r.archived /\ Touched(r).deleted = r.deleted
           /\ Touched(r).supersededBy = r.supersededBy
BY DEF Touched, LifecycleRecord

\* What one record becomes settles the invariant.
LEMMA OneRecord ==
    ASSUME LifecycleInv, NEW i \in Records, NEW r \in LifecycleRecord,
           rec' = [rec EXCEPT ![i] = r], recClock' = recClock,
           r.deleted => /\ r.expiresAt # NoTime /\ r.expiresAt <= recClock
                        /\ ~r.legalHold /\ ~r.archived /\ r.supersededBy = NoOne
    PROVE  LifecycleInv'
BY DEF LifecycleInv, DestructionWasDue

\* An action on a record that is open to it: what it deletes is due.
LEMMA ActKeeps ==
    ASSUME LifecycleInv, NEW i \in Records, Act(i)
    PROVE  LifecycleInv'
<1> USE LifecycleAssumption
<1> DEFINE t == Touched(rec[i])
<1>1. recClock' = recClock /\ recClock \in Nat  BY DEF Act, LifecycleInv
<1>2. /\ rec[i] \in LifecycleRecord
      /\ t \in LifecycleRecord
      /\ t.expiresAt = rec[i].expiresAt /\ t.legalHold = rec[i].legalHold
      /\ t.archived = rec[i].archived /\ t.deleted = rec[i].deleted
      /\ t.supersededBy = rec[i].supersededBy
  <2>1. rec[i] \in LifecycleRecord  BY DEF LifecycleInv
  <2> QED  BY <2>1, TouchedIsRecord
<1>3. \/ Delete(i) \/ Archive(i) \/ Expire(i)
      \/ \E other \in Records : Supersede(i, other)
      \/ \E d \in Durations : Renew(i, d)
  BY DEF Act
<1>4. CASE Delete(i)
  <2> DEFINE r == [t EXCEPT !.deleted = TRUE]
  <2>1. rec' = [rec EXCEPT ![i] = r] /\ OpenTo(rec[i], "delete") /\ Due(rec[i])
    BY <1>4 DEF Delete
  <2>2. /\ rec[i].expiresAt # NoTime /\ rec[i].expiresAt <= recClock /\ ~rec[i].legalHold
        /\ ~rec[i].archived /\ rec[i].supersededBy = NoOne
    BY <1>1, <1>2, <2>1 DEF OpenTo, Due, ExpirationState, LifecycleRecord
  <2> HIDE DEF t
  <2>3. /\ r \in LifecycleRecord
        /\ r.expiresAt # NoTime /\ r.expiresAt <= recClock
        /\ ~r.legalHold /\ ~r.archived /\ r.supersededBy = NoOne
    BY <1>2, <2>2 DEF LifecycleRecord
  <2> QED  BY <1>1, <2>1, <2>3, OneRecord
<1>5. CASE Archive(i)
  <2> DEFINE r == [t EXCEPT !.archived = TRUE]
  <2>1. rec' = [rec EXCEPT ![i] = r] /\ ~rec[i].deleted  BY <1>5 DEF Archive, OpenTo
  <2> HIDE DEF t
  <2>2. r \in LifecycleRecord /\ ~r.deleted  BY <1>2, <2>1 DEF LifecycleRecord
  <2> QED  BY <1>1, <2>1, <2>2, OneRecord
<1>6. CASE Expire(i)
  <2> DEFINE r == [t EXCEPT !.archived = FALSE]
  <2>1. rec' = [rec EXCEPT ![i] = r] /\ ~rec[i].deleted  BY <1>6 DEF Expire, OpenTo
  <2> HIDE DEF t
  <2>2. r \in LifecycleRecord /\ ~r.deleted  BY <1>2, <2>1 DEF LifecycleRecord
  <2> QED  BY <1>1, <2>1, <2>2, OneRecord
<1>7. ASSUME NEW other \in Records, Supersede(i, other)
      PROVE  LifecycleInv'
  <2> DEFINE r == [t EXCEPT !.supersededBy = other]
  <2>1. rec' = [rec EXCEPT ![i] = r] /\ ~rec[i].deleted  BY <1>7 DEF Supersede, OpenTo
  <2> HIDE DEF t
  <2>2. r \in LifecycleRecord /\ ~r.deleted  BY <1>2, <2>1 DEF LifecycleRecord
  <2> QED  BY <1>1, <2>1, <2>2, OneRecord
<1>8. ASSUME NEW d \in Durations, Renew(i, d)
      PROVE  LifecycleInv'
  <2> DEFINE n == rec[i].renewals + 1
             r == [t EXCEPT !.expiresAt = recClock + d, !.renewals = n]
  <2>1. rec' = [rec EXCEPT ![i] = r] /\ ~rec[i].deleted  BY <1>8 DEF Renew, OpenTo
  <2>2. recClock + d \in Nat /\ n \in Nat
    <3>1. recClock \in Nat /\ d \in Nat  BY <1>1
    <3>2. rec[i].renewals \in Nat  BY <1>2 DEF LifecycleRecord
    <3> QED  BY <3>1, <3>2
  <2> HIDE DEF t, n
  <2>3. r \in LifecycleRecord /\ ~r.deleted  BY <1>2, <2>1, <2>2 DEF LifecycleRecord
  <2> QED  BY <1>1, <2>1, <2>3, OneRecord
<1> QED  BY <1>3, <1>4, <1>5, <1>6, <1>7, <1>8

\* A pass of the job deletes what is due and open, and nothing else.
LEMMA JobKeeps ==
    ASSUME LifecycleInv, NEW org, NEW limit, RunLifecycleJob(org, limit)
    PROVE  LifecycleInv'
<1> USE LifecycleAssumption
<1>1. recClock' = recClock /\ recClock \in Nat  BY DEF RunLifecycleJob, LifecycleInv
<1> DEFINE gone == {i \in Processed(org, limit) : ~rec[i].legalHold /\ Due(rec[i])}
<1>2. rec' = [i \in Records |-> IF i \in gone THEN [Touched(rec[i]) EXCEPT !.deleted = TRUE] ELSE rec[i]]
  BY DEF RunLifecycleJob
<1>3. ASSUME NEW i \in Records
      PROVE  /\ rec'[i] \in LifecycleRecord
             /\ rec'[i].deleted => /\ rec'[i].expiresAt # NoTime /\ rec'[i].expiresAt <= recClock'
                                   /\ ~rec'[i].legalHold /\ ~rec'[i].archived /\ rec'[i].supersededBy = NoOne
  <2>1. rec[i] \in LifecycleRecord  BY DEF LifecycleInv
  <2>2. CASE i \notin gone
    <3>1. rec'[i] = rec[i]  BY <1>2, <2>2
    <3> QED  BY <1>1, <2>1, <3>1 DEF LifecycleInv, DestructionWasDue
  <2>3. CASE i \in gone
    <3> DEFINE t == Touched(rec[i])
    <3>1. rec'[i] = [t EXCEPT !.deleted = TRUE]  BY <1>2, <2>3
    <3>2. /\ t \in LifecycleRecord
          /\ t.expiresAt = rec[i].expiresAt /\ t.legalHold = rec[i].legalHold
          /\ t.archived = rec[i].archived /\ t.supersededBy = rec[i].supersededBy
      BY <2>1, TouchedIsRecord
    <3>3. /\ rec[i].expiresAt # NoTime /\ rec[i].expiresAt <= recClock /\ ~rec[i].legalHold
          /\ ~rec[i].archived /\ rec[i].supersededBy = NoOne
      BY <1>1, <2>1, <2>3 DEF Due, ExpirationState, LifecycleRecord
    <3> HIDE DEF t
    <3> QED  BY <1>1, <3>1, <3>2, <3>3 DEF LifecycleRecord
  <2> QED  BY <2>2, <2>3
<1>4. rec' \in [Records -> LifecycleRecord]
  <2> DEFINE f == rec'
  <2>1. f = [i \in Records |-> f[i]]  BY <1>2
  <2>2. \A i \in Records : f[i] \in LifecycleRecord  BY <1>3
  <2> HIDE DEF f
  <2>3. f \in [Records -> LifecycleRecord]  BY <2>1, <2>2
  <2> QED  BY <2>3 DEF f
<1> QED  BY <1>1, <1>3, <1>4 DEF LifecycleInv, DestructionWasDue

\* The operator's hold is for a record that is still there, and time passes.
LEMMA OthersKeep ==
    ASSUME LifecycleInv, (\E i \in Records : HoldRecord(i)) \/ RecTick \/ UNCHANGED lifecycleVars
    PROVE  LifecycleInv'
<1> USE LifecycleAssumption
<1>1. ASSUME NEW i \in Records, HoldRecord(i) PROVE LifecycleInv'
  <2> DEFINE r == [rec[i] EXCEPT !.legalHold = ~rec[i].legalHold]
  <2>1. rec' = [rec EXCEPT ![i] = r] /\ recClock' = recClock /\ ~rec[i].deleted
    BY <1>1 DEF HoldRecord
  <2>2. rec[i] \in LifecycleRecord  BY DEF LifecycleInv
  <2>3. r \in LifecycleRecord /\ ~r.deleted  BY <2>1, <2>2 DEF LifecycleRecord
  <2> QED  BY <2>1, <2>3, OneRecord
<1>2. CASE RecTick
  <2>1. recClock \in Nat /\ recClock' = recClock + 1 /\ rec' = rec  BY <1>2 DEF RecTick, LifecycleInv
  <2>2. \A i \in Records : rec[i].expiresAt \in Nat \cup {NoTime}  BY DEF LifecycleInv, LifecycleRecord
  <2> QED  BY <2>1, <2>2 DEF LifecycleInv, DestructionWasDue
<1>3. CASE UNCHANGED lifecycleVars
  BY <1>3 DEF lifecycleVars, LifecycleInv, DestructionWasDue
<1> QED  BY <1>1, <1>2, <1>3

\* Every record keeps its shape, and one that was deleted had expired, unheld,
\* unarchived and not superseded.
THEOREM LifecycleTyped == LifecycleSpec => []LifecycleInv
<1>1. LifecycleInit => LifecycleInv
  <2> SUFFICES ASSUME LifecycleInit PROVE LifecycleInv  OBVIOUS
  <2>1. PICK at \in [Records -> Expiries] :
           rec = [i \in Records |-> [expiresAt |-> at[i], legalHold |-> FALSE, archived |-> FALSE,
                                     deleted |-> FALSE, supersededBy |-> NoOne,
                                     renewals |-> 0, version |-> 0]]
    BY DEF LifecycleInit
  <2>2. \A i \in Records : at[i] \in Nat \cup {NoTime}  BY LifecycleAssumption
  <2>3. rec \in [Records -> LifecycleRecord] /\ \A i \in Records : ~rec[i].deleted
    BY <2>1, <2>2 DEF LifecycleRecord
  <2> QED  BY <2>3 DEF LifecycleInit, LifecycleInv, DestructionWasDue
<1>2. LifecycleInv /\ [LifecycleNext]_lifecycleVars => LifecycleInv'
  BY ActKeeps, JobKeeps, OthersKeep DEF LifecycleNext
<1> QED  BY <1>1, <1>2, PTL DEF LifecycleSpec

\* Nothing was destroyed that was not due, and the two ways in which the code asks
\* for the state of a record give the same answer.
THEOREM LifecycleIsSoundTheorem == LifecycleSpec => []LifecycleIsSound
<1>1. LifecycleInv => LifecycleIsSound
  <2> SUFFICES ASSUME LifecycleInv, NEW i \in Records
               PROVE  IncludeInRetrieval(rec[i], recClock, FALSE)
                         <=> LifecycleStateOf(rec[i], recClock) = "active"
    BY DEF LifecycleInv, LifecycleIsSound, StatesAgree
  <2>1. rec[i] \in LifecycleRecord /\ recClock \in Nat  BY DEF LifecycleInv
  <2> QED
    BY <2>1, LifecycleAssumption
       DEF LifecycleRecord, IncludeInRetrieval, LifecycleStateOf, ExpirationState
<1> QED  BY <1>1, LifecycleTyped, PTL
-----------------------------------------------------------------------------
(* The audit log: what a walk has not seen is still ahead of it.           *)
Entries == [org : Orgs, at : Times, n : Nat]
Walks == [org : Orgs, cursor : Nat, done : BOOLEAN, there : SUBSET Nat, seen : SUBSET Nat,
          first : Nat, last : Nat]

\* Events are numbered as they were appended, and the oldest are the ones dropped.
AuditTyped ==
    /\ dropped \in Nat /\ appended \in Nat /\ events \in Seq(Entries)
    /\ Len(events) <= MaxEvents /\ appended = dropped + Len(events)
    /\ \A i \in 1 .. Len(events) : events[i].n = dropped + i - 1
    /\ walk \in Walks \cup {NoWalk}

\* While nothing was dropped since a walk began, what it has not seen of that
\* time is still in the list, at or behind its cursor.
NothingBehind ==
    walk # NoWalk /\ walk.first = dropped =>
       \A n \in walk.there \ walk.seen :
          \E i \in Scoped(walk.org) : events[i].n = n /\ Offset(walk.org, i) >= walk.cursor

AuditInv ==
    /\ AuditTyped /\ NothingBehind /\ WalkIsComplete
    /\ walk # NoWalk => walk.first <= walk.last /\ walk.last <= dropped

\* Events of one organization, newest first.
Newer(org, i) == {k \in Scoped(org) : \/ events[k].at > events[i].at
                                      \/ events[k].at = events[i].at /\ k < i}

LEMMA ScopedFinite ==
    ASSUME AuditTyped, NEW org
    PROVE  /\ IsFiniteSet(Scoped(org)) /\ Cardinality(Scoped(org)) \in Nat
           /\ \A i \in Scoped(org) : i \in Nat /\ events[i].at \in Int
<1>1. Len(events) \in Nat /\ IsFiniteSet(1 .. Len(events))  BY FS_Interval DEF AuditTyped
<1>2. IsFiniteSet(Scoped(org))  BY <1>1, FS_Subset DEF Scoped
<1>3. Cardinality(Scoped(org)) \in Nat  BY <1>2, FS_CardinalityType
<1>4. ASSUME NEW i \in Scoped(org) PROVE i \in Nat /\ events[i].at \in Int
  <2>1. i \in 1 .. Len(events)  BY DEF Scoped
  <2>2. events[i] \in Entries  BY <2>1 DEF AuditTyped
  <2>3. events[i].at \in Times  BY <2>2 DEF Entries
  <2>4. Times \subseteq Nat  BY AuditAssumption
  <2>5. i \in Nat  BY <1>1, <2>1
  <2>6. events[i].at \in Nat  BY <2>3, <2>4
  <2> QED  BY <2>5, <2>6
<1> QED  BY <1>2, <1>3, <1>4

LEMMA OffsetWithin ==
    ASSUME AuditTyped, NEW org, NEW i \in Scoped(org)
    PROVE  /\ Offset(org, i) = Cardinality(Newer(org, i)) /\ IsFiniteSet(Newer(org, i))
           /\ Offset(org, i) \in Nat /\ Offset(org, i) < Cardinality(Scoped(org))
<1>1. Newer(org, i) \subseteq Scoped(org) /\ i \notin Newer(org, i)
  BY ScopedFinite DEF Newer
<1>2. Newer(org, i) # Scoped(org)  BY <1>1
<1>3. /\ IsFiniteSet(Newer(org, i)) /\ Cardinality(Newer(org, i)) \in Nat
      /\ Cardinality(Newer(org, i)) <= Cardinality(Scoped(org))
      /\ Cardinality(Newer(org, i)) # Cardinality(Scoped(org))
  BY <1>1, <1>2, ScopedFinite, FS_Subset, FS_CardinalityType
<1> QED  BY <1>3, ScopedFinite DEF Offset, Newer

LEMMA OffsetsDiffer ==
    ASSUME AuditTyped, NEW org, NEW i \in Scoped(org), NEW j \in Scoped(org), i # j
    PROVE  Offset(org, i) # Offset(org, j)
<1>1. ASSUME NEW x \in Scoped(org), NEW y \in Scoped(org), x \in Newer(org, y)
      PROVE  Offset(org, x) # Offset(org, y)
  <2>1. Newer(org, x) \subseteq Newer(org, y) /\ x \notin Newer(org, x)
    BY <1>1, ScopedFinite DEF Newer
  <2>2. Newer(org, x) # Newer(org, y)  BY <1>1, <2>1
  <2>3. Cardinality(Newer(org, x)) # Cardinality(Newer(org, y))
    BY <2>1, <2>2, OffsetWithin, FS_Subset
  <2> QED  BY <2>3, OffsetWithin
<1>2. i \in Newer(org, j) \/ j \in Newer(org, i)  BY ScopedFinite DEF Newer
<1> QED  BY <1>1, <1>2

\* A page is no longer than its limit.
LEMMA PageBounded ==
    ASSUME AuditTyped, NEW org, NEW start \in Nat, NEW limit \in Nat
    PROVE  Cardinality(Page(org, start, limit)) \in Nat /\ Cardinality(Page(org, start, limit)) <= limit
<1> DEFINE P == Page(org, start, limit)
           R == start .. start + limit - 1
           f == [i \in P |-> Offset(org, i)]
<1>1. P \subseteq Scoped(org) /\ \A i \in P : Offset(org, i) \in R
  BY OffsetWithin DEF Page
<1>2. f \in Injection(P, R)
  <2>1. f \in [P -> R]  BY <1>1
  <2>2. \A i, j \in P : f[i] = f[j] => i = j  BY <1>1, OffsetsDiffer
  <2> QED  BY <2>1, <2>2 DEF Injection, IsInjective
<1>3. IsFiniteSet(P) /\ Cardinality(P) \in Nat
  BY <1>1, ScopedFinite, FS_Subset, FS_CardinalityType
<1>4. IsFiniteSet(R) /\ Cardinality(R) = limit
  <2>1. start \in Int /\ start + limit - 1 \in Int  OBVIOUS
  <2>2. IsFiniteSet(R) /\ Cardinality(R) = IF start > start + limit - 1 THEN 0 ELSE start + limit - 1 - start + 1
    BY <2>1, FS_Interval
  <2> QED  BY <2>2
<1>5. Cardinality(P) <= Cardinality(R)  BY <1>2, <1>3, <1>4, FS_Injection
<1> QED  BY <1>3, <1>4, <1>5

LEMMA BeginKeeps ==
    ASSUME AuditInv, NEW org \in Orgs, Begin(org)
    PROVE  AuditInv'
<1> DEFINE w == [org |-> org, cursor |-> 0, done |-> FALSE,
                 there |-> {events[i].n : i \in Scoped(org)}, seen |-> {},
                 first |-> dropped, last |-> dropped]
<1>1. walk' = w /\ UNCHANGED <<events, dropped, appended>>  BY DEF Begin
<1>2. {events[i].n : i \in Scoped(org)} \subseteq Nat
  BY DEF AuditInv, AuditTyped, Entries, Scoped
<1>3. w \in Walks  BY <1>2 DEF Walks, AuditInv, AuditTyped
<1>4. AuditTyped'  BY <1>1, <1>3 DEF AuditInv, AuditTyped
<1>5. NothingBehind'
  <2> SUFFICES ASSUME NEW i \in Scoped(org) PROVE Offset(org, i) >= 0
    BY <1>1 DEF NothingBehind, Scoped, Offset
  <2> QED  BY OffsetWithin DEF AuditInv
<1> QED  BY <1>1, <1>4, <1>5 DEF AuditInv, AuditTyped, WalkIsComplete

\* Nothing that a walk has not seen falls between two of its pages.
LEMMA QueryKeeps ==
    ASSUME AuditInv, NEW limit \in Pages, Query(limit)
    PROVE  AuditInv'
<1> DEFINE total == Cardinality(Scoped(walk.org))
           page  == Page(walk.org, walk.cursor, limit)
           next  == walk.cursor + Cardinality(page)
           seen  == walk.seen \cup {events[i].n : i \in page}
           w == [org |-> walk.org, cursor |-> next, done |-> next >= total, there |-> walk.there,
                 seen |-> seen, first |-> walk.first, last |-> dropped]
<1>1. walk # NoWalk /\ walk \in Walks /\ UNCHANGED <<events, dropped, appended>> /\ limit \in Nat
  BY AuditAssumption DEF Query, AuditInv, AuditTyped
<1>2. AuditTyped /\ walk.cursor \in Nat /\ walk.first <= dropped /\ dropped \in Nat
  <2>1. AuditTyped  BY DEF AuditInv
  <2>2. dropped \in Nat  BY DEF AuditInv, AuditTyped
  <2>3. walk.cursor \in Nat /\ walk.first \in Nat /\ walk.last \in Nat  BY <1>1 DEF Walks
  <2>4. walk.first <= walk.last /\ walk.last <= dropped  BY <1>1 DEF AuditInv
  <2> QED  BY <2>1, <2>2, <2>3, <2>4
<1>3. CASE walk' = NoWalk
  BY <1>1, <1>3 DEF AuditInv, AuditTyped, NothingBehind, WalkIsComplete
<1>4. CASE walk' # NoWalk
  <2>1. walk' = w
    <3>1. walk' = [walk EXCEPT !.seen = @ \cup {events[i].n : i \in page}, !.cursor = next,
                               !.done = next >= total, !.last = dropped]
      BY <1>4 DEF Query
    <3>2. walk' = [walk EXCEPT !.seen = seen, !.cursor = next, !.done = next >= total, !.last = dropped]
      BY <3>1
    <3> HIDE DEF page, next, total, seen
    <3> QED  BY <1>1, <3>2 DEF Walks
  <2>2. Cardinality(page) \in Nat /\ Cardinality(page) <= limit
    BY <1>1, <1>2, PageBounded
  <2>3. page \subseteq Scoped(walk.org)  BY DEF Page
  <2>4. seen \subseteq Nat
    <3>1. walk.seen \subseteq Nat  BY <1>1 DEF Walks
    <3>2. \A i \in page : i \in 1 .. Len(events)  BY <2>3 DEF Scoped
    <3>3. \A i \in 1 .. Len(events) : events[i].n \in Nat  BY <1>2 DEF AuditTyped, Entries
    <3> HIDE DEF page
    <3> QED  BY <3>1, <3>2, <3>3
  <2>5. w \in Walks  BY <1>1, <1>2, <2>2, <2>4 DEF Walks
  <2>6. AuditTyped'  BY <1>1, <2>1, <2>5 DEF AuditInv, AuditTyped
  <2>7. ASSUME walk.first = dropped, NEW n \in walk.there \ seen
        PROVE  \E i \in Scoped(walk.org) : /\ events[i].n = n
                                           /\ Offset(walk.org, i) >= next /\ Offset(walk.org, i) < total
    <3>1. PICK i \in Scoped(walk.org) : events[i].n = n /\ Offset(walk.org, i) >= walk.cursor
      BY <1>1, <2>7 DEF AuditInv, NothingBehind
    <3>2. i \notin page  BY <2>7, <3>1
    <3>3. Offset(walk.org, i) \in Nat /\ Offset(walk.org, i) < total  BY <1>2, OffsetWithin
    <3>4. Offset(walk.org, i) >= walk.cursor + limit  BY <1>1, <1>2, <3>1, <3>2, <3>3 DEF Page
    <3> QED  BY <1>1, <1>2, <2>2, <3>1, <3>3, <3>4
  <2>8. NothingBehind'
    <3>1. walk'.first = walk.first /\ walk'.there = walk.there /\ walk'.seen = seen
          /\ walk'.org = walk.org /\ walk'.cursor = next
      BY <2>1
    <3>2. Scoped(walk.org)' = Scoped(walk.org)  BY <1>1, <3>1 DEF Scoped
    <3>3. \A i : Offset(walk.org, i)' = Offset(walk.org, i)  BY <1>1, <3>1, <3>2 DEF Offset
    <3> HIDE DEF w, seen, next, total
    <3> SUFFICES ASSUME walk.first = dropped, NEW n \in walk.there \ seen
                 PROVE  \E i \in Scoped(walk.org)' : events'[i].n = n /\ Offset(walk.org, i)' >= next
      BY <1>1, <3>1 DEF NothingBehind
    <3> QED  BY <1>1, <2>7, <3>2, <3>3
  <2>9. WalkIsComplete'
    <3>1. walk'.first = walk.first /\ walk'.there = walk.there /\ walk'.seen = seen
          /\ walk'.done = (next >= total) /\ walk'.last = dropped
      BY <2>1
    <3>2. next \in Nat /\ total \in Nat  BY <1>2, <2>2, ScopedFinite
    <3>3. next >= total /\ walk.first = dropped => walk.there \subseteq seen
      <4> SUFFICES ASSUME next >= total, walk.first = dropped, NEW n \in walk.there, n \notin seen
                   PROVE  FALSE
        OBVIOUS
      <4>1. PICK i \in Scoped(walk.org) : Offset(walk.org, i) >= next /\ Offset(walk.org, i) < total
        BY <2>7
      <4>2. Offset(walk.org, i) \in Nat  BY <1>2, OffsetWithin
      <4> HIDE DEF next, total
      <4> QED  BY <3>2, <4>1, <4>2
    <3> HIDE DEF w, seen, next, total
    <3> QED  BY <3>1, <3>3 DEF WalkIsComplete
  <2> QED  BY <1>1, <1>2, <2>1, <2>6, <2>8, <2>9 DEF AuditInv
<1> QED  BY <1>3, <1>4

\* What is appended leaves an event where it was or moves it back.
LEMMA RecordKeeps ==
    ASSUME AuditInv, NEW org \in Orgs, NEW at \in Times, Record(org, at)
    PROVE  AuditInv'
<1> DEFINE e == [org |-> org, at |-> at, n |-> appended]
           s == Append(events, e)
<1>1. /\ appended' = appended + 1 /\ events' = Kept(s) /\ dropped' = dropped + DroppedBy(s) /\ walk' = walk
      /\ events \in Seq(Entries) /\ dropped \in Nat /\ appended \in Nat /\ Len(events) \in Nat
      /\ MaxEvents \in Nat /\ MaxEvents > 0
      /\ Len(events) <= MaxEvents /\ appended = dropped + Len(events)
      /\ \A i \in 1 .. Len(events) : events[i].n = dropped + i - 1
  BY AuditAssumption DEF Record, AuditInv, AuditTyped
<1>2. /\ e \in Entries /\ e.n = appended
      /\ s \in Seq(Entries) /\ Len(s) = Len(events) + 1
      /\ \A i \in 1 .. Len(events) : s[i] = events[i] /\ s[Len(events) + 1] = e
  <2>1. e \in Entries /\ e.n = appended  BY <1>1 DEF Entries
  <2> HIDE DEF e
  <2> QED  BY <1>1, <2>1
<1> HIDE DEF e
<1>3. s[Len(events) + 1] = e  BY <1>1
<1>4. \A i \in 1 .. Len(s) : s[i].n = dropped + i - 1
  <2> SUFFICES ASSUME NEW i \in 1 .. Len(s) PROVE s[i].n = dropped + i - 1  OBVIOUS
  <2>1. CASE i = Len(events) + 1  BY <1>1, <1>2, <1>3, <2>1
  <2>2. CASE i \in 1 .. Len(events)  BY <1>1, <1>2, <2>2
  <2> QED  BY <1>1, <1>2, <2>1, <2>2
<1> HIDE DEF s
<1>5. CASE Len(s) > MaxEvents
  <2>1. events' = SubSeq(s, Len(s) - MaxEvents + 1, Len(s)) /\ Len(s) = MaxEvents + 1
    <3>1. Len(s) = MaxEvents + 1  BY <1>1, <1>2, <1>5
    <3> QED  BY <1>1, <1>5, <3>1 DEF Kept
  <2>2. events' = SubSeq(s, 2, MaxEvents + 1)  BY <1>1, <2>1
  <2>3. events' \in Seq(Entries) /\ Len(events') = MaxEvents
    BY <1>1, <1>2, <2>1, <2>2
  <2>4. \A i \in 1 .. MaxEvents : events'[i] = s[i + 1]
    BY <1>1, <1>2, <2>1, <2>2
  <2>5. dropped' = dropped + 1  BY <1>1, <2>1, <2>3 DEF DroppedBy
  <2>6. \A i \in 1 .. MaxEvents : events'[i].n = dropped' + i - 1
    <3> SUFFICES ASSUME NEW i \in 1 .. MaxEvents PROVE events'[i].n = dropped' + i - 1  OBVIOUS
    <3>1. i + 1 \in 1 .. Len(s) /\ i \in Nat  BY <1>1, <2>1
    <3>2. s[i + 1].n = dropped + (i + 1) - 1 /\ events'[i] = s[i + 1]  BY <1>4, <2>4, <3>1
    <3>3. dropped \in Nat  BY <1>1
    <3>4. dropped + (i + 1) - 1 = dropped' + i - 1  BY <2>5, <3>1, <3>3
    <3> QED  BY <3>2, <3>4
  <2>7. AuditTyped'
    <3>1. dropped' \in Nat /\ appended' \in Nat /\ Len(events') <= MaxEvents
          /\ appended' = dropped' + Len(events')
      <4>1. dropped \in Nat /\ appended \in Nat /\ MaxEvents \in Nat /\ Len(events) + 1 = MaxEvents + 1
            /\ appended = dropped + Len(events) /\ appended' = appended + 1 /\ Len(events) \in Nat
        BY <1>1, <1>2, <2>1
      <4> QED  BY <2>3, <2>5, <4>1
    <3>2. walk' \in Walks \cup {NoWalk}  BY <1>1 DEF AuditInv, AuditTyped
    <3>3. \A i \in 1 .. Len(events') : events'[i].n = dropped' + i - 1  BY <2>3, <2>6
    <3> QED  BY <2>3, <3>1, <3>2, <3>3 DEF AuditTyped
  <2>8. walk # NoWalk => walk.first \in Nat /\ walk.last \in Nat /\ walk.last <= dropped /\ walk.first <= walk.last
    BY DEF AuditInv, AuditTyped, Walks
  <2> QED  BY <1>1, <2>5, <2>7, <2>8 DEF AuditInv, NothingBehind, WalkIsComplete
<1>6. CASE Len(s) <= MaxEvents
  <2>1. events' = s /\ dropped' = dropped
    BY <1>1, <1>2, <1>6 DEF Kept, DroppedBy
  <2>2. AuditTyped'
    <3>1. dropped' \in Nat /\ appended' \in Nat /\ Len(events') <= MaxEvents
          /\ appended' = dropped' + Len(events') /\ events' \in Seq(Entries)
      <4>1. dropped' \in Nat /\ appended' = appended + 1 /\ appended = dropped + Len(events)
            /\ dropped \in Nat /\ appended \in Nat /\ Len(events) \in Nat
        BY <1>1, <2>1
      <4>2. Len(events') = Len(events) + 1 /\ events' \in Seq(Entries) /\ Len(events') <= MaxEvents
        BY <1>2, <1>6, <2>1
      <4> QED  BY <2>1, <4>1, <4>2
    <3>2. walk' \in Walks \cup {NoWalk}  BY <1>1 DEF AuditInv, AuditTyped
    <3>3. \A i \in 1 .. Len(events') : events'[i].n = dropped' + i - 1  BY <1>4, <2>1
    <3> QED  BY <3>1, <3>2, <3>3 DEF AuditTyped
  <2>3. ASSUME NEW o, NEW i \in Scoped(o)
        PROVE  i \in Scoped(o)' /\ events'[i] = events[i] /\ Offset(o, i) \in Nat
               /\ Offset(o, i)' \in Nat /\ Offset(o, i)' >= Offset(o, i)
    <3>1. i \in 1 .. Len(events) /\ events'[i] = events[i] /\ i \in Scoped(o)'
      <4>1. i \in 1 .. Len(events) /\ events[i].org = o  BY DEF Scoped
      <4>2. i \in 1 .. Len(s) /\ events'[i] = events[i]  BY <1>1, <1>2, <2>1, <4>1
      <4> QED  BY <2>1, <4>1, <4>2 DEF Scoped
    <3>2. /\ Offset(o, i) = Cardinality(Newer(o, i)) /\ Offset(o, i) \in Nat
          /\ Offset(o, i)' = Cardinality(Newer(o, i)') /\ IsFiniteSet(Newer(o, i)') /\ Offset(o, i)' \in Nat
      <4>1. AuditTyped  BY DEF AuditInv
      <4>2. Offset(o, i) = Cardinality(Newer(o, i)) /\ Offset(o, i) \in Nat  BY <4>1, OffsetWithin
      <4>3. IsFiniteSet(Scoped(o)')
        <5>0. Len(s) \in Int /\ 1 \in Int  BY <1>1, <1>2
        <5>1. IsFiniteSet(1 .. Len(s))  BY <5>0, FS_Interval
        <5>2. Scoped(o)' \subseteq 1 .. Len(s)  BY <2>1 DEF Scoped
        <5> QED  BY <5>1, <5>2, FS_Subset
      <4>4. Newer(o, i)' \subseteq Scoped(o)'  BY DEF Newer
      <4>5. IsFiniteSet(Newer(o, i)') /\ Cardinality(Newer(o, i)') \in Nat
        BY <4>3, <4>4, FS_Subset, FS_CardinalityType
      <4>6. Offset(o, i)' = Cardinality(Newer(o, i)')  BY DEF Offset, Newer
      <4> QED  BY <4>2, <4>5, <4>6
    <3>3. Newer(o, i) \subseteq Newer(o, i)'
      <4> SUFFICES ASSUME NEW k \in Newer(o, i) PROVE k \in Newer(o, i)'  OBVIOUS
      <4>1. k \in 1 .. Len(events) /\ events[k].org = o  BY DEF Newer, Scoped
      <4>2. k \in 1 .. Len(s) /\ events'[k] = events[k]  BY <1>1, <1>2, <2>1, <4>1
      <4>3. k \in Scoped(o)'  BY <2>1, <4>1, <4>2 DEF Scoped
      <4> QED  BY <3>1, <4>2, <4>3 DEF Newer
    <3>4. Cardinality(Newer(o, i)) <= Cardinality(Newer(o, i)')  BY <3>2, <3>3, FS_Subset
    <3>5. Cardinality(Newer(o, i)) \in Nat /\ Cardinality(Newer(o, i)') \in Nat  BY <3>2
    <3> QED  BY <3>1, <3>2, <3>4, <3>5
  <2>4. NothingBehind'
    <3> SUFFICES ASSUME walk # NoWalk, walk.first = dropped, NEW n \in walk.there \ walk.seen
                 PROVE  \E i \in Scoped(walk.org)' : /\ events'[i].n = n
                                                     /\ Offset(walk.org, i)' >= walk.cursor
      BY <1>1, <2>1 DEF NothingBehind
    <3>1. PICK i \in Scoped(walk.org) : events[i].n = n /\ Offset(walk.org, i) >= walk.cursor
      BY DEF AuditInv, NothingBehind
    <3>2. walk.cursor \in Nat /\ walk' = walk  BY <1>1 DEF AuditInv, AuditTyped, Walks
    <3>3. /\ i \in Scoped(walk.org)' /\ events'[i] = events[i] /\ Offset(walk.org, i) \in Nat
          /\ Offset(walk.org, i)' \in Nat /\ Offset(walk.org, i)' >= Offset(walk.org, i)
      <4>1. PICK o \in Orgs : walk.org = o  BY DEF AuditInv, AuditTyped, Walks
      <4>2. i \in Scoped(o)  BY <4>1
      <4>3. /\ i \in Scoped(o)' /\ events'[i] = events[i] /\ Offset(o, i) \in Nat
            /\ Offset(o, i)' \in Nat /\ Offset(o, i)' >= Offset(o, i)
        BY <2>3, <4>2
      <4>4. walk'.org = o  BY <3>2, <4>1
      <4>5. /\ Scoped(walk.org)' = Scoped(o)' /\ Offset(walk.org, i)' = Offset(o, i)'
            /\ Offset(walk.org, i) = Offset(o, i)
        BY <4>1, <4>4 DEF Scoped, Offset
      <4> QED  BY <4>3, <4>5
    <3> QED  BY <3>1, <3>2, <3>3
  <2> QED  BY <1>1, <2>1, <2>2, <2>4 DEF AuditInv, WalkIsComplete
<1>7. Len(s) \in Nat /\ MaxEvents \in Nat  BY <1>1, <1>2
<1> QED  BY <1>5, <1>6, <1>7

\* Events are numbered in the order of the list, and while none was dropped since
\* a walk began, what it has not seen is not behind its cursor.
THEOREM AuditInvariant == AuditSpec => []AuditInv
<1>1. AuditInit => AuditInv
  BY AuditAssumption DEF AuditInit, AuditInv, AuditTyped, NothingBehind, WalkIsComplete
<1>2. AuditInv /\ [AuditNext]_auditVars => AuditInv'
  <2>1. ASSUME AuditInv, UNCHANGED auditVars PROVE AuditInv'
    <3>1. UNCHANGED <<events, dropped, appended, walk>>  BY <2>1 DEF auditVars
    <3>2. Scoped(walk.org)' = Scoped(walk.org)  BY <3>1 DEF Scoped
    <3>3. \A i : Offset(walk.org, i)' = Offset(walk.org, i)  BY <3>1, <3>2 DEF Offset
    <3>4. NothingBehind'  BY <2>1, <3>1, <3>2, <3>3 DEF AuditInv, NothingBehind
    <3> QED  BY <2>1, <3>1, <3>4 DEF AuditInv, AuditTyped, WalkIsComplete
  <2> QED  BY <2>1, BeginKeeps, QueryKeeps, RecordKeeps DEF AuditNext
<1> QED  BY <1>1, <1>2, PTL DEF AuditSpec

\* A walk of query() whose pages report the same number of dropped events has
\* returned every event that was there when it began.
THEOREM WalkIsCompleteTheorem == AuditSpec => []WalkIsComplete
<1>1. AuditInv => WalkIsComplete  BY DEF AuditInv
<1> QED  BY <1>1, AuditInvariant, PTL
=============================================================================
