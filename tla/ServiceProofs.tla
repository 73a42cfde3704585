---------------------------- MODULE ServiceProofs ----------------------------
(***************************************************************************)
(* Theorems about the memory service and what surrounds it: its vectors    *)
(* (MemoryService), its agents and snapshots (AgentMemories), the pages of *)
(* its list (Paging), the SDK that calls it (SdkBatch), the providers it   *)
(* calls (ProviderFetch), the webhooks it sends (Webhooks) and what its    *)
(* searches return (Retrieval), each for every value of its constants.     *)
(***************************************************************************)
EXTENDS MemoryService, AgentMemories, Paging, SdkBatch, ProviderFetch, Webhooks,
        Retrieval, SequenceTheorems, FiniteSetTheorems, TLAPS

-----------------------------------------------------------------------------
(* The vectors of the memory service.                                      *)

\* Memories whose vector is of what they say, or missing.
Said == Texts \cup {NoText}
Memories == [ver : Nat, text : Texts, vec : Said, arch : BOOLEAN, keep : Keeps, aged : BOOLEAN, contra : BOOLEAN]
Faithful == {m \in Memories : m.vec \in {NoText, m.text}}
Stocks   == [Ids -> Faithful \cup {NoMem}]
Held     == [id : Ids, m : Faithful]

\* What a call knows between two awaits.
Storing    == {j \in [op : {"store"}, text : Texts, vec : Said] : j.vec \in {NoText, j.text}}
Digesting  == [op : {"digest"}, items : SUBSET Texts, seen : SUBSET Texts, active : SUBSET Held,
               archived : SUBSET Held, text : Said, vec : Said]
Deciding   == {j \in Digesting : j.text \in Texts}
Minting    == {j \in Deciding : j.vec \in {NoText, j.text}}
Updating   == [op : {"update"}, id : Ids, copy : Faithful, patch : Patches, guarded : BOOLEAN]
Listing    == [op : {"maintain", "decay"}, left : SUBSET Held]
Vectoring  == [op : {"maintain", "embed"}, left : SUBSET Held, id : Ids, copy : Faithful]
Jobs       == {NoJob} \cup Storing \cup Digesting \cup Updating \cup Listing \cup Vectoring

Stages == {"idle", "store", "update", "active", "archived", "item", "merge",
           "decay", "expire", "backfill", "flag", "vector"}
Fits(l) == CASE l = "idle"   -> {NoJob}
             [] l = "store"  -> Storing \cup Minting
             [] l = "update" -> Updating
             [] l \in {"active", "archived", "item"} -> Digesting
             [] l = "merge"  -> Deciding
             [] l \in {"decay", "expire", "backfill", "flag"} -> Listing
             [] l = "vector" -> Vectoring

\* The invariant of the calls: what a call has read, embedded or been answered
\* is as faithful as what is stored, because it may be written back.
CopiesAreFaithful ==
    /\ mem \in Stocks
    /\ pc \in [Calls -> Stages]
    /\ job \in [Calls -> Jobs]
    /\ \A c \in Calls : job[c] \in Fits(pc[c])
-----------------------------------------------------------------------------
LEMMA FitsAreJobs ==
    ASSUME NEW l \in Stages
    PROVE  Fits(l) \subseteq Jobs
  BY DEF Stages, Fits, Jobs, Minting, Deciding

\* A step of one call, which leaves the others where they are.
LEMMA CallMoves ==
    ASSUME CopiesAreFaithful, mem' \in Stocks,
           NEW c \in Calls, NEW l \in Stages, NEW j \in Fits(l),
           pc' = [pc EXCEPT ![c] = l], job' = [job EXCEPT ![c] = j]
    PROVE  CopiesAreFaithful'
<1>1. j \in Jobs
  BY FitsAreJobs
<1>2. pc' \in [Calls -> Stages] /\ job' \in [Calls -> Jobs]
  BY <1>1 DEF CopiesAreFaithful
<1>3. ASSUME NEW d \in Calls PROVE job'[d] \in Fits(pc'[d])
  <2>1. CASE d = c
    BY <2>1 DEF CopiesAreFaithful
  <2>2. CASE d # c
    <3>1. pc'[d] = pc[d] /\ job'[d] = job[d]
      BY <2>2 DEF CopiesAreFaithful
    <3> QED BY <3>1 DEF CopiesAreFaithful
  <2> QED BY <2>1, <2>2
<1>4. \A d \in Calls : Fits(pc[d])' = Fits(pc'[d])
  BY DEF Fits, Storing, Digesting, Deciding, Minting, Updating, Listing, Vectoring
<1> QED BY <1>2, <1>3 DEF CopiesAreFaithful

LEMMA CallGoesOn ==
    ASSUME CopiesAreFaithful, mem' \in Stocks,
           NEW c \in Calls, NEW j \in Fits(pc[c]),
           UNCHANGED pc, job' = [job EXCEPT ![c] = j]
    PROVE  CopiesAreFaithful'
<1>1. pc[c] \in Stages /\ pc' = [pc EXCEPT ![c] = pc[c]]
  BY DEF CopiesAreFaithful
<1> QED BY <1>1, CallMoves

LEMMA CallStays ==
    ASSUME CopiesAreFaithful, mem' \in Stocks, UNCHANGED <<pc, job>>
    PROVE  CopiesAreFaithful'
  BY DEF CopiesAreFaithful

LEMMA CallReturns ==
    ASSUME CopiesAreFaithful, mem' \in Stocks, NEW c \in Calls, Return(c)
    PROVE  CopiesAreFaithful'
<1>1. "idle" \in Stages /\ NoJob \in Fits("idle")
  BY DEF Stages, Fits
<1> QED BY <1>1, CallMoves DEF Return, Goto, Set
-----------------------------------------------------------------------------
(* What the backend is given.                                              *)

LEMMA LiveIsFaithful ==
    ASSUME CopiesAreFaithful, NEW id \in Live
    PROVE  id \in Ids /\ mem[id] \in Faithful
  BY DEF CopiesAreFaithful, Live, Stocks

LEMMA CopiesAreHeld ==
    ASSUME CopiesAreFaithful, NEW S \in SUBSET Live
    PROVE  Copies(S) \subseteq Held
<1>1. \A id \in S : id \in Ids /\ mem[id] \in Faithful
  BY LiveIsFaithful
<1> QED BY <1>1 DEF Copies, Held

LEMMA WriteIsFaithful ==
    ASSUME CopiesAreFaithful, NEW id \in Live, NEW m \in Faithful, Write(id, m)
    PROVE  mem' \in Stocks
<1>1. PICK aged \in {m.aged, m.aged /\ m.arch} :
        mem' = [mem EXCEPT ![id] = [m EXCEPT !.ver = mem[id].ver + 1, !.aged = aged]]
  BY DEF Write
<1>2. id \in Ids /\ mem[id] \in Faithful
  BY LiveIsFaithful
<1>3. mem[id].ver + 1 \in Nat
  BY <1>2 DEF Faithful, Memories
<1>4. aged \in BOOLEAN
  BY DEF Faithful, Memories
<1> DEFINE w == [m EXCEPT !.ver = mem[id].ver + 1, !.aged = aged]
<1>5. w \in Faithful
  <2>1. ASSUME NEW n \in Nat PROVE [m EXCEPT !.ver = n, !.aged = aged] \in Faithful
    BY <1>4 DEF Faithful, Memories
  <2> QED BY <1>3, <2>1
<1>6. mem' = [mem EXCEPT ![id] = w]
  BY <1>1
<1> HIDE DEF w
<1> QED BY <1>2, <1>5, <1>6 DEF CopiesAreFaithful, Stocks

LEMMA MarkIsFaithful ==
    ASSUME CopiesAreFaithful, NEW id \in Live, NEW b \in BOOLEAN,
           mem' = [mem EXCEPT ![id].arch = b, ![id].aged = FALSE]
    PROVE  mem' \in Stocks
<1>1. id \in Ids /\ mem[id] \in Faithful
  BY LiveIsFaithful
<1> DEFINE w == [mem[id] EXCEPT !.arch = b, !.aged = FALSE]
<1>2. w \in Faithful
  BY <1>1 DEF Faithful, Memories
<1>3. mem' = [mem EXCEPT ![id] = w]
  BY <1>1 DEF CopiesAreFaithful, Stocks
<1> HIDE DEF w
<1> QED BY <1>1, <1>2, <1>3 DEF CopiesAreFaithful, Stocks

LEMMA AgedIsFaithful ==
    ASSUME CopiesAreFaithful, NEW id \in Live, NEW b \in BOOLEAN, mem' = [mem EXCEPT ![id].aged = b]
    PROVE  mem' \in Stocks
<1>1. mem[id] \in Faithful
  BY LiveIsFaithful
<1> DEFINE w == [mem[id] EXCEPT !.aged = b]
<1>2. w \in Faithful
  BY <1>1 DEF Faithful, Memories
<1>3. mem' = [mem EXCEPT ![id] = w]
  BY DEF CopiesAreFaithful, Stocks
<1> HIDE DEF w
<1> QED BY <1>2, <1>3 DEF CopiesAreFaithful, Stocks

LEMMA ForgetIsFaithful ==
    ASSUME CopiesAreFaithful, NEW id, mem' = [mem EXCEPT ![id] = NoMem]
    PROVE  mem' \in Stocks
  BY DEF CopiesAreFaithful, Stocks

LEMMA EmbedsWhatItSays ==
    ASSUME NEW t \in Texts, NEW v \in MaybeEmbed(t)
    PROVE  v \in Said /\ v \in {NoText, t}
  BY DEF MaybeEmbed, Said
-----------------------------------------------------------------------------
(* One lemma per group of calls.                                           *)

LEMMA StoreKeeps ==
    ASSUME CopiesAreFaithful, NEW c \in Calls, Store(c) \/ StoreLands(c)
    PROVE  CopiesAreFaithful'
<1>1. CASE Store(c)
  <2>1. PICK t \in Texts : \E v \in MaybeEmbed(t) : Set(c, [op |-> "store", text |-> t, vec |-> v])
    BY <1>1 DEF Store
  <2>5. PICK v \in MaybeEmbed(t) : Set(c, [op |-> "store", text |-> t, vec |-> v])
    BY <2>1
  <2>2. [op |-> "store", text |-> t, vec |-> v] \in Fits("store")
    BY EmbedsWhatItSays DEF Fits, Storing
  <2>3. mem' \in Stocks /\ "store" \in Stages
    BY <1>1 DEF Store, CopiesAreFaithful, Stages
  <2> QED BY <1>1, <2>5, <2>2, <2>3, CallMoves DEF Store, Goto, Set
<1>2. CASE StoreLands(c)
  <2>1. PICK id \in Ids \ Live :
          /\ mem' = [mem EXCEPT ![id] = New(job[c].text, job[c].vec)]
          /\ IF job[c].op = "digest"
                THEN /\ Set(c, [job[c] EXCEPT !.seen = @ \cup {job[c].text},
                                              !.active = @ \cup {[id |-> id, m |-> mem'[id]]}])
                     /\ Goto(c, "item")
                ELSE Return(c)
    BY <1>2 DEF StoreLands
  <2>2. job[c] \in Storing \cup Minting
    BY <1>2 DEF StoreLands, CopiesAreFaithful, Fits
  <2> DEFINE n == New(job[c].text, job[c].vec)
  <2>3. n \in Faithful
    BY <2>2 DEF Storing, Minting, Deciding, Digesting, New, Faithful, Memories, Said, Keeps
  <2> HIDE DEF n
  <2>4. mem' = [mem EXCEPT ![id] = n]
    BY <2>1 DEF n
  <2>5. mem' \in Stocks /\ mem'[id] = n
    BY <2>3, <2>4 DEF CopiesAreFaithful, Stocks
  <2>6. CASE job[c].op = "digest"
    <3>1. job[c] \in Digesting /\ job[c].text \in Texts
      BY <2>2, <2>6 DEF Storing, Minting, Deciding
    <3> DEFINE h == [id |-> id, m |-> n]
    <3>2. h \in Held
      BY <2>3 DEF Held
    <3> HIDE DEF h
    <3> DEFINE j == [job[c] EXCEPT !.seen = @ \cup {job[c].text}, !.active = @ \cup {h}]
    <3>3. j \in Digesting
      BY <3>1, <3>2 DEF Digesting
    <3>4. j \in Fits("item") /\ "item" \in Stages
      BY <3>3 DEF Fits, Stages
    <3>5. job' = [job EXCEPT ![c] = j] /\ pc' = [pc EXCEPT ![c] = "item"]
      BY <2>1, <2>5, <2>6 DEF Set, Goto, h
    <3> HIDE DEF j
    <3> QED BY <2>5, <3>4, <3>5, CallMoves
  <2>7. CASE job[c].op # "digest"
    BY <2>1, <2>5, <2>7, CallReturns
  <2> QED BY <2>6, <2>7
<1> QED BY <1>1, <1>2

LEMMA PatchedIsFaithful ==
    ASSUME CopiesAreFaithful, NEW c \in Calls, pc[c] = "update"
    PROVE  Patched(job[c]) \subseteq Faithful
<1>0. job[c] \in Updating
  BY DEF CopiesAreFaithful, Fits
<1> DEFINE j == job[c]
           kept == IF j.patch.keep = NoText THEN j.copy ELSE [j.copy EXCEPT !.keep = j.patch.keep]
<1>1. j.copy \in Faithful /\ j.patch \in Patches
  BY <1>0 DEF Updating
<1>2. kept \in Faithful
  BY <1>1 DEF Faithful, Memories, Patches
<1> HIDE DEF kept
<1>3. ASSUME NEW v \in MaybeEmbed(j.patch.text), j.patch.text \notin {NoText, j.copy.text}
      PROVE  [kept EXCEPT !.text = j.patch.text, !.vec = v] \in Faithful
  <2>1. j.patch.text \in Texts
    BY <1>1, <1>3 DEF Patches
  <2>2. v \in Said /\ v \in {NoText, j.patch.text}
    BY <2>1, <1>3, EmbedsWhatItSays
  <2> QED BY <1>2, <2>1, <2>2 DEF Faithful, Memories
<1> QED BY <1>2, <1>3 DEF Patched, kept

LEMMA UpdateKeeps ==
    ASSUME CopiesAreFaithful, NEW c \in Calls, UpdateLands(c) \/ \E id \in Ids : Get(c, id)
    PROVE  CopiesAreFaithful'
<1>1. ASSUME NEW id \in Ids, Get(c, id) PROVE CopiesAreFaithful'
  <2>1. PICK p \in Patches, guarded \in BOOLEAN :
          Set(c, [op |-> "update", id |-> id, copy |-> mem[id], patch |-> p, guarded |-> guarded])
    BY <1>1 DEF Get
  <2>2. mem[id] \in Faithful
    BY <1>1, LiveIsFaithful DEF Get
  <2>3. [op |-> "update", id |-> id, copy |-> mem[id], patch |-> p, guarded |-> guarded] \in Fits("update")
    BY <2>2 DEF Fits, Updating
  <2>4. mem' \in Stocks /\ "update" \in Stages
    BY <1>1 DEF Get, CopiesAreFaithful, Stages
  <2> QED BY <1>1, <2>1, <2>3, <2>4, CallMoves DEF Get, Goto, Set
<1>2. CASE UpdateLands(c)
  <2>1. job[c] \in Updating
    BY <1>2 DEF UpdateLands, CopiesAreFaithful, Fits
  <2>2. Patched(job[c]) \subseteq Faithful
    BY <1>2, PatchedIsFaithful DEF UpdateLands
  <2>3. mem' \in Stocks
    <3>1. CASE Writable(job[c].id) /\ (job[c].guarded => mem[job[c].id].ver = job[c].copy.ver)
      <4>1. PICK m \in Patched(job[c]) : Write(job[c].id, m)
        BY <1>2, <3>1 DEF UpdateLands
      <4> QED BY <2>2, <3>1, <4>1, WriteIsFaithful DEF Writable
    <3>2. CASE ~(Writable(job[c].id) /\ (job[c].guarded => mem[job[c].id].ver = job[c].copy.ver))
      BY <1>2, <3>2 DEF UpdateLands, CopiesAreFaithful
    <3> QED BY <3>1, <3>2
  <2> QED BY <1>2, <2>3, CallReturns DEF UpdateLands
<1> QED BY <1>1, <1>2

LEMMA ShortCallsKeep ==
    ASSUME CopiesAreFaithful, NEW c \in Calls, NEW id \in Ids,
           Forget(c, id) \/ Archive(c, id) \/ Revive(c, id) \/ SearchTouches(c, id) \/ EmbedJob(c, id)
    PROVE  CopiesAreFaithful'
<1>1. CASE Forget(c, id)
  BY <1>1, ForgetIsFaithful, CallStays DEF Forget
<1>2. CASE Archive(c, id)
  BY <1>2, MarkIsFaithful, CallStays DEF Archive, Active
<1>3. CASE Revive(c, id)
  BY <1>3, MarkIsFaithful, CallStays DEF Revive, Archived
<1>4. CASE SearchTouches(c, id)
  BY <1>4, AgedIsFaithful, CallStays DEF SearchTouches, Active
<1>5. CASE EmbedJob(c, id)
  <2>1. mem[id] \in Faithful
    BY <1>5, LiveIsFaithful DEF EmbedJob
  <2>2. [op |-> "embed", left |-> {}, id |-> id, copy |-> mem[id]] \in Fits("vector")
    BY <2>1 DEF Fits, Vectoring
  <2>3. mem' \in Stocks /\ "vector" \in Stages
    BY <1>5 DEF EmbedJob, CopiesAreFaithful, Stages
  <2> QED BY <1>5, <2>2, <2>3, CallMoves DEF EmbedJob, Goto, Set
<1> QED BY <1>1, <1>2, <1>3, <1>4, <1>5

LEMMA DigestKeeps ==
    ASSUME CopiesAreFaithful, NEW c \in Calls,
           Digest(c) \/ DigestActive(c) \/ DigestArchived(c) \/ DigestEnds(c)
    PROVE  CopiesAreFaithful'
<1>1. CASE Digest(c)
  <2>1. PICK items \in SUBSET Texts :
          Set(c, [op |-> "digest", items |-> items, seen |-> {}, active |-> {}, archived |-> {},
                  text |-> NoText, vec |-> NoText])
    BY <1>1 DEF Digest
  <2>2. [op |-> "digest", items |-> items, seen |-> {}, active |-> {}, archived |-> {},
         text |-> NoText, vec |-> NoText] \in Fits("active")
    BY DEF Fits, Digesting, Said
  <2>3. mem' \in Stocks /\ "active" \in Stages
    BY <1>1 DEF Digest, CopiesAreFaithful, Stages
  <2> QED BY <1>1, <2>1, <2>2, <2>3, CallMoves DEF Digest, Goto, Set
<1>2. CASE DigestActive(c)
  <2>1. job[c] \in Digesting
    BY <1>2 DEF DigestActive, CopiesAreFaithful, Fits
  <2>2. Copies(Active) \subseteq Held
    BY CopiesAreHeld DEF Active
  <2>3. {mem[i].text : i \in Active} \subseteq Texts
    <3>1. \A i \in Active : mem[i] \in Faithful
      BY LiveIsFaithful DEF Active
    <3> QED BY <3>1 DEF Faithful, Memories
  <2> DEFINE j == [job[c] EXCEPT !.active = Copies(Active), !.seen = {mem[i].text : i \in Active}]
  <2>4. j \in Fits("archived")
    <3>1. ASSUME NEW S \in SUBSET Held, NEW T \in SUBSET Texts
          PROVE  [job[c] EXCEPT !.active = S, !.seen = T] \in Digesting
      BY <2>1 DEF Digesting
    <3>2. j \in Digesting
      BY <2>2, <2>3, <3>1
    <3> QED BY <3>2 DEF Fits
  <2>5. mem' \in Stocks /\ "archived" \in Stages
    BY <1>2 DEF DigestActive, CopiesAreFaithful, Stages
  <2> QED BY <1>2, <2>4, <2>5, CallMoves DEF DigestActive, Goto, Set
<1>3. CASE DigestArchived(c)
  <2>1. job[c] \in Digesting
    BY <1>3 DEF DigestArchived, CopiesAreFaithful, Fits
  <2>2. Copies(Archived) \subseteq Held
    BY CopiesAreHeld DEF Archived
  <2> DEFINE j == [job[c] EXCEPT !.archived = Copies(Archived)]
  <2>3. j \in Fits("item")
    <3>1. ASSUME NEW S \in SUBSET Held PROVE [job[c] EXCEPT !.archived = S] \in Digesting
      BY <2>1 DEF Digesting
    <3>2. j \in Digesting
      BY <2>2, <3>1
    <3> QED BY <3>2 DEF Fits
  <2>4. mem' \in Stocks /\ "item" \in Stages
    BY <1>3 DEF DigestArchived, CopiesAreFaithful, Stages
  <2> QED BY <1>3, <2>3, <2>4, CallMoves DEF DigestArchived, Goto, Set
<1>4. CASE DigestEnds(c)
  <2>1. mem' \in Stocks /\ Return(c)
    BY <1>4 DEF DigestEnds, CopiesAreFaithful
  <2> QED BY <2>1, CallReturns
<1> QED BY <1>1, <1>2, <1>3, <1>4

LEMMA DigestItemKeeps ==
    ASSUME CopiesAreFaithful, NEW c \in Calls, DigestItem(c)
    PROVE  CopiesAreFaithful'
<1> DEFINE j == job[c]
<1>1. j \in Digesting /\ pc[c] = "item"
  BY DEF DigestItem, CopiesAreFaithful, Fits
<1>2. PICK t \in j.items :
        LET rest == [j EXCEPT !.items = @ \ {t}, !.text = t]
            twin == {x \in j.archived : x.m.text = t}
        IN \/ Set(c, rest) /\ UNCHANGED <<mem, pc>>
           \/ /\ \E x \in twin : /\ x.id \in Archived
                               /\ mem' = [mem EXCEPT ![x.id].arch = FALSE, ![x.id].aged = FALSE]
              /\ Set(c, [rest EXCEPT !.seen = @ \cup {t}])
              /\ UNCHANGED pc
           \/ Set(c, rest) /\ Goto(c, "merge") /\ UNCHANGED mem
  BY DEF DigestItem
<1>3. t \in Texts
  BY <1>1 DEF Digesting
<1> DEFINE rest == [j EXCEPT !.items = @ \ {t}, !.text = t]
<1>4. rest \in Deciding /\ [rest EXCEPT !.seen = @ \cup {t}] \in Digesting
  BY <1>1, <1>3 DEF Deciding, Digesting, Said
<1>5. mem \in Stocks /\ "item" \in Stages /\ "merge" \in Stages
  BY DEF CopiesAreFaithful, Stages
<1>6. rest \in Fits("merge") /\ rest \in Fits(pc[c]) /\ [rest EXCEPT !.seen = @ \cup {t}] \in Fits(pc[c])
  BY <1>1, <1>4 DEF Fits, Deciding
<1> HIDE DEF rest, j
<1>7. CASE Set(c, rest) /\ UNCHANGED <<mem, pc>>
  BY <1>5, <1>6, <1>7, CallGoesOn DEF Set
<1>8. CASE Set(c, rest) /\ Goto(c, "merge") /\ UNCHANGED mem
  BY <1>5, <1>6, <1>8, CallMoves DEF Set, Goto
<1>9. ASSUME NEW x \in j.archived, x.id \in Archived,
             mem' = [mem EXCEPT ![x.id].arch = FALSE, ![x.id].aged = FALSE],
             Set(c, [rest EXCEPT !.seen = @ \cup {t}]), UNCHANGED pc
      PROVE  CopiesAreFaithful'
  <2>1. mem' \in Stocks
    BY <1>9, MarkIsFaithful DEF Archived
  <2> QED BY <1>6, <1>9, <2>1, CallGoesOn DEF Set
<1> QED BY <1>2, <1>7, <1>8, <1>9 DEF rest

LEMMA DigestMergeKeeps ==
    ASSUME CopiesAreFaithful, NEW c \in Calls, DigestMerge(c)
    PROVE  CopiesAreFaithful'
<1> DEFINE j == job[c]
<1>1. j \in Deciding /\ pc[c] = "merge"
  BY DEF DigestMerge, CopiesAreFaithful, Fits
<1>2. j \in Digesting /\ j.text \in Texts /\ mem \in Stocks
      /\ "item" \in Stages /\ "store" \in Stages
  BY <1>1 DEF Deciding, CopiesAreFaithful, Stages
<1>3. CASE /\ \E v \in MaybeEmbed(j.text) : Set(c, [j EXCEPT !.vec = v])
           /\ Goto(c, "store") /\ UNCHANGED mem
  <2>1. PICK v \in MaybeEmbed(j.text) : Set(c, [j EXCEPT !.vec = v])
    BY <1>3
  <2>2. v \in Said /\ v \in {NoText, j.text}
    BY <1>2, EmbedsWhatItSays
  <2>3. [j EXCEPT !.vec = v] \in Minting
    BY <1>1, <2>2 DEF Minting, Deciding, Digesting
  <2>4. [j EXCEPT !.vec = v] \in Fits("store")
    BY <2>3 DEF Fits
  <2> QED BY <1>2, <1>3, <2>1, <2>4, CallMoves DEF Set, Goto
<1>4. CASE Goto(c, "item") /\ UNCHANGED <<mem, job>>
  <2>1. j \in Fits("item") /\ job' = [job EXCEPT ![c] = j]
    BY <1>2, <1>4 DEF Fits, CopiesAreFaithful
  <2> QED BY <1>2, <1>4, <2>1, CallMoves DEF Goto
<1>5. ASSUME NEW x \in j.active \cup j.archived, NEW t \in Texts, NEW v \in MaybeEmbed(t),
             IF Writable(x.id)
                THEN /\ Write(x.id, [x.m EXCEPT !.text = t, !.vec = v])
                     /\ Set(c, [j EXCEPT !.seen = (@ \ {x.m.text}) \cup {t}])
                ELSE Set(c, [j EXCEPT !.items = {}]) /\ UNCHANGED mem,
             Goto(c, "item")
      PROVE  CopiesAreFaithful'
  <2>1. x \in Held
    BY <1>2 DEF Digesting
  <2>2. v \in Said /\ v \in {NoText, t}
    BY EmbedsWhatItSays
  <2>3. [x.m EXCEPT !.text = t, !.vec = v] \in Faithful
    BY <2>1, <2>2 DEF Held, Faithful, Memories
  <2>4. [j EXCEPT !.seen = (@ \ {x.m.text}) \cup {t}] \in Fits("item")
    BY <1>2 DEF Fits, Digesting
  <2>5. [j EXCEPT !.items = {}] \in Fits("item")
    BY <1>2 DEF Fits, Digesting
  <2> HIDE DEF j
  <2>6. CASE Writable(x.id)
    <3>1. mem' \in Stocks
      BY <1>5, <2>3, <2>6, WriteIsFaithful DEF Writable
    <3> QED BY <1>2, <1>5, <2>4, <2>6, <3>1, CallMoves DEF Set, Goto
  <2>7. CASE ~Writable(x.id)
    BY <1>2, <1>5, <2>5, <2>7, CallMoves DEF Set, Goto
  <2> QED BY <2>6, <2>7
<1> QED BY <1>3, <1>4, <1>5 DEF DigestMerge

\* The lists that maintain() makes, and works through.
LEMMA ListKeeps ==
    ASSUME CopiesAreFaithful, NEW c \in Calls, NEW op \in {"maintain", "decay"}, NEW S \in SUBSET Live,
           NEW T \in SUBSET Copies(S), NEW l \in {"decay", "expire", "backfill", "flag"},
           Set(c, [op |-> op, left |-> T]), Goto(c, l), UNCHANGED mem
    PROVE  CopiesAreFaithful'
<1>1. Copies(S) \subseteq Held
  BY CopiesAreHeld
<1>2. [op |-> op, left |-> T] \in Fits(l)
  BY <1>1 DEF Fits, Listing
<1>3. mem' \in Stocks /\ l \in Stages
  BY DEF CopiesAreFaithful, Stages
<1> QED BY <1>2, <1>3, CallMoves DEF Set, Goto

LEMMA IsListing ==
    ASSUME CopiesAreFaithful, NEW c \in Calls, pc[c] \in {"decay", "expire", "backfill", "flag"}
    PROVE  /\ job[c] \in Listing
           /\ \A x \in job[c].left : x \in Held /\ [job[c] EXCEPT !.left = @ \ {x}] \in Fits(pc[c])
           /\ \A T : [job[c] EXCEPT !.left = T] = [op |-> job[c].op, left |-> T]
<1>1. job[c] \in Listing
  BY DEF CopiesAreFaithful, Fits
<1>2. ASSUME NEW x \in job[c].left
      PROVE  x \in Held /\ [job[c] EXCEPT !.left = @ \ {x}] \in Fits(pc[c])
  BY <1>1 DEF Listing, Fits
<1>3. \A T : [job[c] EXCEPT !.left = T] = [op |-> job[c].op, left |-> T]
  BY <1>1 DEF Listing
<1> QED BY <1>1, <1>2, <1>3

LEMMA ListsKeep ==
    ASSUME CopiesAreFaithful, NEW c \in Calls,
           Maintain(c) \/ DecayList(c) \/ Backfill(c) \/ Contradictions(c)
    PROVE  CopiesAreFaithful'
<1>1. CASE Maintain(c)
  <2>1. PICK op \in {"maintain", "decay"} :
          Set(c, [op |-> op, left |-> Copies({i \in Active : mem[i].aged /\ mem[i].keep # "pinned"})])
    BY <1>1 DEF Maintain
  <2>2. {i \in Active : mem[i].aged /\ mem[i].keep # "pinned"} \subseteq Live
    BY DEF Active
  <2> QED BY <1>1, <2>1, <2>2, ListKeeps DEF Maintain
<1>2. CASE DecayList(c)
  <2>1. job[c].op \in {"maintain", "decay"} /\ Expirable \subseteq Live
    BY <1>2, IsListing DEF DecayList, Listing, Expirable, Archived
  <2>2. Set(c, [op |-> job[c].op, left |-> Copies(Expirable)])
    BY <1>2, IsListing DEF DecayList
  <2> QED BY <1>2, <2>1, <2>2, ListKeeps DEF DecayList
<1>3. CASE Backfill(c)
  <2> DEFINE missing == {i \in Active : mem[i].vec = NoText}
             T == IF Embeddings THEN Copies(missing) ELSE {}
  <2>1. job[c].op = "maintain" /\ missing \subseteq Live
    BY <1>3 DEF Backfill, Active
  <2>2. Set(c, [op |-> "maintain", left |-> T])
    BY <1>3, <2>1, IsListing DEF Backfill
  <2>3. T \subseteq Copies(missing)
    OBVIOUS
  <2> HIDE DEF T, missing
  <2> QED BY <1>3, <2>1, <2>2, <2>3, ListKeeps DEF Backfill
<1>4. CASE Contradictions(c)
  <2>1. PICK S \in SUBSET {i \in Active : ~mem[i].contra} : Set(c, [job[c] EXCEPT !.left = Copies(S)])
    BY <1>4 DEF Contradictions
  <2>2. job[c].op \in {"maintain", "decay"} /\ S \subseteq Live
    BY <1>4, IsListing DEF Contradictions, Listing, Active
  <2>3. Set(c, [op |-> job[c].op, left |-> Copies(S)])
    BY <1>4, <2>1, IsListing DEF Contradictions
  <2> QED BY <1>4, <2>2, <2>3, ListKeeps DEF Contradictions
<1> QED BY <1>1, <1>2, <1>3, <1>4

LEMMA DecayKeeps ==
    ASSUME CopiesAreFaithful, NEW c \in Calls,
           DecayArchive(c) \/ DecayForget(c) \/ DecayEnds(c)
    PROVE  CopiesAreFaithful'
<1>0. mem \in Stocks
  BY DEF CopiesAreFaithful
<1>1. CASE DecayArchive(c)
  <2>1. PICK x \in job[c].left :
          /\ Set(c, [job[c] EXCEPT !.left = @ \ {x}])
          /\ mem' = IF x.id \in Active THEN [mem EXCEPT ![x.id].arch = TRUE, ![x.id].aged = FALSE] ELSE mem
    BY <1>1 DEF DecayArchive
  <2>2. mem' \in Stocks
    BY <1>0, <2>1, MarkIsFaithful DEF Active
  <2> QED BY <1>1, <2>1, <2>2, IsListing, CallGoesOn DEF DecayArchive, Set
<1>2. CASE DecayForget(c)
  <2>1. PICK x \in job[c].left :
          Set(c, [job[c] EXCEPT !.left = @ \ {x}]) /\ mem' = [mem EXCEPT ![x.id] = NoMem]
    BY <1>2 DEF DecayForget
  <2>2. mem' \in Stocks
    BY <2>1, ForgetIsFaithful
  <2> QED BY <1>2, <2>1, <2>2, IsListing, CallGoesOn DEF DecayForget, Set
<1>3. CASE DecayEnds(c)
  BY <1>0, <1>3, CallReturns DEF DecayEnds
<1> QED BY <1>1, <1>2, <1>3

\* The vector is that of the copy, which goes back with it.
LEMMA VectorsKeep ==
    ASSUME CopiesAreFaithful, NEW c \in Calls, BackfillOne(c) \/ VectorLands(c)
    PROVE  CopiesAreFaithful'
<1>0. mem \in Stocks /\ "vector" \in Stages /\ "backfill" \in Stages
  BY DEF CopiesAreFaithful, Stages
<1>1. CASE BackfillOne(c)
  <2>1. PICK x \in job[c].left :
          Set(c, [op |-> "maintain", left |-> job[c].left \ {x}, id |-> x.id, copy |-> x.m])
    BY <1>1 DEF BackfillOne
  <2>2. job[c] \in Listing /\ x \in Held
    BY <1>1, IsListing DEF BackfillOne
  <2>3. [op |-> "maintain", left |-> job[c].left \ {x}, id |-> x.id, copy |-> x.m] \in Fits("vector")
    BY <2>2 DEF Fits, Vectoring, Listing, Held
  <2> QED BY <1>0, <1>1, <2>1, <2>3, CallMoves DEF BackfillOne, Goto, Set
<1>2. CASE VectorLands(c)
  <2>1. job[c] \in Vectoring
    BY <1>2 DEF VectorLands, CopiesAreFaithful, Fits
  <2>2. VectorOf(job[c].copy, job[c].id) \in Faithful
    BY <2>1 DEF Vectoring, VectorOf, Faithful, Memories, Said
  <2>3. mem' \in Stocks
    <3>1. CASE job[c].id \in Live /\ Write(job[c].id, VectorOf(job[c].copy, job[c].id))
      BY <2>2, <3>1, WriteIsFaithful
    <3>2. CASE UNCHANGED mem
      BY <1>0, <3>2
    <3> QED BY <1>2, <3>1, <3>2 DEF VectorLands
  <2>4. CASE job[c].op = "embed"
    BY <1>2, <2>3, <2>4, CallReturns DEF VectorLands
  <2>5. CASE job[c].op # "embed"
    <3>1. [op |-> "maintain", left |-> job[c].left] \in Fits("backfill")
      BY <2>1 DEF Fits, Listing, Vectoring
    <3> QED BY <1>0, <1>2, <2>3, <2>5, <3>1, CallMoves DEF VectorLands, Goto, Set
  <2> QED BY <2>4, <2>5
<1> QED BY <1>1, <1>2

LEMMA FlagKeeps ==
    ASSUME CopiesAreFaithful, NEW c \in Calls, Flag(c)
    PROVE  CopiesAreFaithful'
<1>0. mem \in Stocks /\ pc[c] = "flag"
  BY DEF CopiesAreFaithful, Flag
<1>1. CASE job[c].left = {}
  BY <1>0, <1>1, CallReturns DEF Flag
<1>2. CASE job[c].left # {}
  <2>1. PICK x \in job[c].left :
          /\ Set(c, [job[c] EXCEPT !.left = @ \ {x}])
          /\ IF Writable(x.id) THEN Write(x.id, [x.m EXCEPT !.contra = TRUE]) ELSE UNCHANGED mem
          /\ UNCHANGED pc
    BY <1>2 DEF Flag
  <2>2. x \in Held
    BY <1>0, IsListing
  <2>3. [x.m EXCEPT !.contra = TRUE] \in Faithful
    BY <2>2 DEF Held, Faithful, Memories
  <2>4. mem' \in Stocks
    BY <1>0, <2>1, <2>3, WriteIsFaithful DEF Writable
  <2> QED BY <1>0, <2>1, <2>4, IsListing, CallGoesOn DEF Set
<1> QED BY <1>1, <1>2
-----------------------------------------------------------------------------
\* Whatever calls of the service read, await and write back in any order, all
\* that is stored and all that they hold is a memory with a vector of its own
\* text, or with none.
THEOREM MemoryInvariant == Spec => []CopiesAreFaithful
<1>1. Init => CopiesAreFaithful
  BY DEF Init, CopiesAreFaithful, Stocks, Stages, Jobs, Fits
<1>2. CopiesAreFaithful /\ [Next]_vars => CopiesAreFaithful'
  <2> SUFFICES ASSUME CopiesAreFaithful, [Next]_vars PROVE CopiesAreFaithful'
    OBVIOUS
  <2>1. ASSUME NEW c \in Calls,
               \/ Store(c) \/ StoreLands(c) \/ UpdateLands(c)
               \/ \E id \in Ids : \/ Get(c, id) \/ Forget(c, id) \/ Archive(c, id) \/ Revive(c, id)
                                  \/ SearchTouches(c, id) \/ EmbedJob(c, id)
        PROVE  CopiesAreFaithful'
    BY <2>1, StoreKeeps, UpdateKeeps, ShortCallsKeep
  <2>2. ASSUME NEW c \in Calls,
               \/ Digest(c) \/ DigestActive(c) \/ DigestArchived(c) \/ DigestItem(c)
               \/ DigestMerge(c) \/ DigestEnds(c)
        PROVE  CopiesAreFaithful'
    BY <2>2, DigestKeeps, DigestItemKeeps, DigestMergeKeeps
  <2>3. ASSUME NEW c \in Calls,
               \/ Maintain(c) \/ DecayArchive(c) \/ DecayList(c) \/ DecayForget(c) \/ DecayEnds(c)
               \/ Backfill(c) \/ BackfillOne(c) \/ VectorLands(c) \/ Contradictions(c) \/ Flag(c)
        PROVE  CopiesAreFaithful'
    BY <2>3, ListsKeep, DecayKeeps, VectorsKeep, FlagKeeps
  <2>4. ASSUME NEW id \in Ids, Age(id) PROVE CopiesAreFaithful'
    BY <2>4, AgedIsFaithful, CallStays DEF Age
  <2>5. CASE UNCHANGED vars
    BY <2>5, CallStays DEF vars, CopiesAreFaithful
  <2> QED BY <2>1, <2>2, <2>3, <2>4, <2>5 DEF Next, Step
<1> QED BY <1>1, <1>2, PTL DEF Spec

\* Semantic search compares what the memories say: no order in which updates,
\* digests, embedding jobs and maintenance write leaves a vector of another text
\* beside a content (update(), embedMemoryJob(), maintain()).
THEOREM VectorMatchesTextTheorem == Spec => []VectorMatchesText
<1>1. CopiesAreFaithful => VectorMatchesText
  BY LiveIsFaithful DEF VectorMatchesText, Faithful
<1> QED BY <1>1, MemoryInvariant, PTL

-----------------------------------------------------------------------------
(* The digests.                                                            *)

\* From its first read on, the digest that holds the lock has among its active
\* copies what every unarchived memory of a digest says.
Knowing == {"archived", "item", "merge", "store"}
Deposits == {"merge", "store"}     \* where the item may still be stored
DigestStages == Knowing \cup {"active"}

Knows(c) == /\ pc[c] \in Knowing =>
                  \A i \in origin : ~mem[i].arch => mem[i].text \in TextsOf(job[c].active)
            /\ pc[c] \in Deposits => job[c].text \notin TextsOf(job[c].active)

DigestInv ==
    /\ origin \subseteq Live
    /\ \A c, d \in digesting : c = d
    /\ \A c \in Calls : job[c].op = "digest" <=> c \in digesting
    /\ \A c \in digesting \cap Calls : Knows(c)
    /\ DigestsDoNotRepeat

\* Nothing that counts as stored by a digest says another thing than before,
\* or has come back from the archive.
Quiet == \A i \in origin' : /\ i \in origin /\ i \in Live'
                            /\ mem'[i].text = mem[i].text
                            /\ ~mem'[i].arch => ~mem[i].arch

LEMMA DigestOps ==
    ASSUME CopiesAreFaithful, NEW c \in Calls
    PROVE  /\ job[c].op = "digest" => pc[c] \in DigestStages /\ job[c] \in Digesting
           /\ pc[c] \in {"active", "archived", "item", "merge"} => job[c].op = "digest"
<1>1. pc[c] \in Stages /\ job[c] \in Fits(pc[c])
  BY DEF CopiesAreFaithful
<1>2. job[c].op = "digest" => pc[c] \in DigestStages
  <2>1. CASE pc[c] = "idle"
    BY <1>1, <2>1 DEF Fits, NoJob
  <2>2. CASE pc[c] = "update"
    BY <1>1, <2>2 DEF Fits, Updating
  <2>3. CASE pc[c] = "vector"
    BY <1>1, <2>3 DEF Fits, Vectoring
  <2>4. CASE pc[c] \in {"decay", "expire", "backfill", "flag"}
    BY <1>1, <2>4 DEF Fits, Listing
  <2> QED BY <1>1, <2>1, <2>2, <2>3, <2>4 DEF Stages, DigestStages, Knowing
<1>3. pc[c] \in {"active", "archived", "item", "merge"} => job[c] \in Digesting
  BY <1>1 DEF Fits, Deciding
<1>4. pc[c] = "store" /\ job[c].op = "digest" => job[c] \in Digesting
  BY <1>1 DEF Fits, Storing, Minting, Deciding
<1>5. job[c] \in Digesting => job[c].op = "digest"
  BY DEF Digesting
<1> QED BY <1>2, <1>3, <1>4, <1>5 DEF DigestStages, Knowing

LEMMA QuietIsSound ==
    ASSUME DigestInv, Quiet
    PROVE  (origin \subseteq Live)' /\ DigestsDoNotRepeat'
<1>1. \A i \in origin' : i \in origin /\ i \in Live' /\ mem'[i].text = mem[i].text /\ (~mem'[i].arch => ~mem[i].arch)
  BY DEF Quiet
<1> QED BY <1>1 DEF DigestInv, DigestsDoNotRepeat

\* A step of a call that is no digest.
LEMMA OtherCallsKeep ==
    ASSUME DigestInv, Quiet, UNCHANGED digesting, NEW c \in Calls,
           job[c].op # "digest", job'[c].op # "digest",
           \A d \in Calls \ {c} : job'[d] = job[d] /\ pc'[d] = pc[d]
    PROVE  DigestInv'
<1>1. \A d \in Calls : job'[d].op = "digest" <=> d \in digesting'
  BY DEF DigestInv
<1>2. ASSUME NEW d \in digesting' \cap Calls PROVE Knows(d)'
  <2>1. d \in digesting /\ Knows(d) /\ d # c
    BY <1>2 DEF DigestInv
  <2>2. job'[d] = job[d] /\ pc'[d] = pc[d]
    BY <1>2, <2>1
  <2> QED BY <2>1, <2>2 DEF Knows, Quiet, TextsOf
<1>3. \A e, d \in digesting' : e = d
  BY DEF DigestInv
<1> QED BY <1>1, <1>2, <1>3, QuietIsSound DEF DigestInv

\* A step of the digest, under the lock.
LEMMA DigestGoesOn ==
    ASSUME DigestInv, Quiet, UNCHANGED digesting, NEW c \in Calls,
           job[c].op = "digest", job'[c].op = "digest", Knows(c)',
           \A d \in Calls \ {c} : job'[d] = job[d] /\ pc'[d] = pc[d]
    PROVE  DigestInv'
<1>1. \A d \in Calls : job'[d].op = "digest" <=> d \in digesting'
  BY DEF DigestInv
<1>2. \A d \in digesting : d = c
  BY DEF DigestInv
<1>3. \A d \in digesting' \cap Calls : Knows(d)'
  BY <1>2
<1>4. \A e, d \in digesting' : e = d
  BY DEF DigestInv
<1> QED BY <1>1, <1>3, <1>4, QuietIsSound DEF DigestInv

LEMMA OthersStay ==
    ASSUME CopiesAreFaithful, NEW c \in Calls, NEW l, NEW j,
           Set(c, j), Goto(c, l) \/ (UNCHANGED pc /\ l = pc[c])
    PROVE  /\ \A d \in Calls \ {c} : job'[d] = job[d] /\ pc'[d] = pc[d]
           /\ job'[c] = j /\ pc'[c] = l
  BY DEF CopiesAreFaithful, Set, Goto
-----------------------------------------------------------------------------
(* What the steps do to the memories that a digest has stored.             *)

LEMMA SameIsQuiet ==
    ASSUME DigestInv, UNCHANGED <<mem, origin>>
    PROVE  Quiet
  BY DEF DigestInv, Quiet, Live

LEMMA WriteIsQuiet ==
    ASSUME CopiesAreFaithful, DigestInv, NEW id \in Live, NEW m \in Faithful, Write(id, m)
    PROVE  Quiet
<1>1. PICK aged \in {m.aged, m.aged /\ m.arch} :
        mem' = [mem EXCEPT ![id] = [m EXCEPT !.ver = mem[id].ver + 1, !.aged = aged]]
  BY DEF Write
<1> DEFINE w == [m EXCEPT !.ver = mem[id].ver + 1, !.aged = aged]
<1>2. w.text = m.text /\ w.arch = m.arch
  BY DEF Faithful, Memories
<1>3. w # NoMem
  BY <1>2 DEF Faithful, Memories, NoMem
<1>4. mem' = [mem EXCEPT ![id] = w] /\ id \in Ids
  BY <1>1 DEF Live
<1> HIDE DEF w
<1>5. mem'[id] = w /\ \A i \in Ids \ {id} : mem'[i] = mem[i]
  BY <1>4 DEF CopiesAreFaithful, Stocks
<1>6. origin' \subseteq origin /\ (id \in origin' => w.text = mem[id].text /\ w.arch = mem[id].arch)
  BY <1>2 DEF Write
<1> QED BY <1>3, <1>5, <1>6 DEF Quiet, DigestInv, Live

LEMMA MarkIsQuiet ==
    ASSUME CopiesAreFaithful, DigestInv, NEW id \in Live, NEW b \in BOOLEAN,
           mem' = [mem EXCEPT ![id].arch = b, ![id].aged = FALSE],
           origin' = origin \ {id} \/ (b = TRUE /\ origin' = origin)
    PROVE  Quiet
<1> DEFINE w == [mem[id] EXCEPT !.arch = b, !.aged = FALSE]
<1>1. id \in Ids /\ mem[id] \in Faithful
  BY LiveIsFaithful
<1>2. w.text = mem[id].text /\ w.arch = b /\ w # NoMem
  BY <1>1 DEF Faithful, Memories, NoMem
<1>3. mem' = [mem EXCEPT ![id] = w]
  BY <1>1 DEF CopiesAreFaithful, Stocks
<1> HIDE DEF w
<1>4. mem'[id] = w /\ \A i \in Ids \ {id} : mem'[i] = mem[i]
  BY <1>1, <1>3 DEF CopiesAreFaithful, Stocks
<1> QED BY <1>2, <1>4 DEF Quiet, DigestInv, Live

LEMMA AgedIsQuiet ==
    ASSUME CopiesAreFaithful, DigestInv, NEW id \in Live, NEW b \in BOOLEAN,
           mem' = [mem EXCEPT ![id].aged = b], UNCHANGED origin
    PROVE  Quiet
<1> DEFINE w == [mem[id] EXCEPT !.aged = b]
<1>1. id \in Ids /\ mem[id] \in Faithful
  BY LiveIsFaithful
<1>2. w.text = mem[id].text /\ w.arch = mem[id].arch /\ w # NoMem
  BY <1>1 DEF Faithful, Memories, NoMem
<1>3. mem' = [mem EXCEPT ![id] = w]
  BY <1>1 DEF CopiesAreFaithful, Stocks
<1> HIDE DEF w
<1>4. mem'[id] = w /\ \A i \in Ids \ {id} : mem'[i] = mem[i]
  BY <1>1, <1>3 DEF CopiesAreFaithful, Stocks
<1> QED BY <1>2, <1>4 DEF Quiet, DigestInv, Live

LEMMA ForgetIsQuiet ==
    ASSUME CopiesAreFaithful, DigestInv, NEW id,
           mem' = [mem EXCEPT ![id] = NoMem], origin' = origin \ {id}
    PROVE  Quiet
<1>1. \A i \in Ids \ {id} : mem'[i] = mem[i]
  BY DEF CopiesAreFaithful, Stocks
<1> QED BY <1>1 DEF Quiet, DigestInv, Live
-----------------------------------------------------------------------------
(* The digest's own steps.                                                 *)

LEMMA DigestStarts ==
    ASSUME CopiesAreFaithful, DigestInv, NEW c \in Calls, Digest(c)
    PROVE  DigestInv'
<1>1. PICK items \in SUBSET Texts :
        Set(c, [op |-> "digest", items |-> items, seen |-> {}, active |-> {}, archived |-> {},
                text |-> NoText, vec |-> NoText])
  BY DEF Digest
<1> DEFINE j == [op |-> "digest", items |-> items, seen |-> {}, active |-> {}, archived |-> {},
                 text |-> NoText, vec |-> NoText]
<1>2. job'[c] = j /\ pc'[c] = "active" /\ \A d \in Calls \ {c} : job'[d] = job[d] /\ pc'[d] = pc[d]
  BY <1>1, OthersStay DEF Digest
<1>3. digesting = {} /\ digesting' = {c}
  BY DEF Digest, Free
<1>4. j.op = "digest"
  OBVIOUS
<1> HIDE DEF j
<1>5. Quiet
  BY SameIsQuiet DEF Digest
<1>6. \A d \in Calls : job'[d].op = "digest" <=> d \in digesting'
  BY <1>2, <1>3, <1>4 DEF DigestInv
<1>7. Knows(c)'
  BY <1>2 DEF Knows, Knowing, Deposits
<1> QED BY <1>3, <1>5, <1>6, <1>7, QuietIsSound DEF DigestInv

LEMMA DigestReads ==
    ASSUME CopiesAreFaithful, DigestInv, NEW c \in Calls, DigestActive(c) \/ DigestArchived(c)
    PROVE  DigestInv'
<1>0. job[c].op = "digest" /\ job[c] \in Digesting /\ Quiet
  BY DigestOps, SameIsQuiet DEF DigestActive, DigestArchived
<1>1. CASE DigestActive(c)
  <2> DEFINE A == Copies(Active)
             T == {mem[i].text : i \in Active}
             j == [job[c] EXCEPT !.active = A, !.seen = T]
  <2>1. Set(c, j) /\ Goto(c, "archived")
    BY <1>1 DEF DigestActive
  <2>2. j.op = "digest" /\ j.active = A
    BY <1>0 DEF Digesting
  <2>3. ASSUME NEW i \in origin, ~mem[i].arch PROVE mem[i].text \in TextsOf(A)
    <3>1. i \in Active
      BY <2>3 DEF DigestInv, Active
    <3>2. [id |-> i, m |-> mem[i]] \in A
      BY <3>1 DEF Copies
    <3> QED BY <3>2 DEF TextsOf
  <2> HIDE DEF j, A
  <2>4. job'[c] = j /\ pc'[c] = "archived" /\ \A d \in Calls \ {c} : job'[d] = job[d] /\ pc'[d] = pc[d]
    BY <2>1, OthersStay
  <2>5. \A i \in origin' : ~mem'[i].arch => mem'[i].text \in TextsOf(A)
    BY <1>1, <2>3 DEF DigestActive
  <2>6. TextsOf(job'[c].active) = TextsOf(A)
    BY <2>2, <2>4
  <2>7. Knows(c)'
    BY <2>4, <2>5, <2>6 DEF Knows, Deposits, TextsOf
  <2> QED BY <1>0, <1>1, <2>2, <2>4, <2>7, DigestGoesOn DEF DigestActive
<1>2. CASE DigestArchived(c)
  <2> DEFINE j == [job[c] EXCEPT !.archived = Copies(Archived)]
  <2>1. Set(c, j) /\ Goto(c, "item") /\ pc[c] = "archived"
    BY <1>2 DEF DigestArchived
  <2>2. j.op = "digest" /\ j.active = job[c].active
    BY <1>0 DEF Digesting
  <2> HIDE DEF j
  <2>3. job'[c] = j /\ pc'[c] = "item" /\ \A d \in Calls \ {c} : job'[d] = job[d] /\ pc'[d] = pc[d]
    BY <2>1, OthersStay
  <2>4. Knows(c) /\ UNCHANGED <<mem, origin>>
    BY <1>0, <1>2 DEF DigestInv, DigestArchived
  <2>5. Knows(c)'
    BY <2>1, <2>2, <2>3, <2>4 DEF Knows, Knowing, Deposits, TextsOf
  <2> QED BY <1>0, <1>2, <2>2, <2>3, <2>5, DigestGoesOn DEF DigestArchived
<1> QED BY <1>1, <1>2

LEMMA DigestSorts ==
    ASSUME CopiesAreFaithful, DigestInv, NEW c \in Calls, DigestItem(c)
    PROVE  DigestInv'
<1> DEFINE j == job[c]
<1>1. j \in Digesting /\ j.op = "digest" /\ pc[c] = "item"
  BY DigestOps DEF DigestItem, DigestStages, Knowing
<1>2. PICK t \in j.items :
        LET rest == [j EXCEPT !.items = @ \ {t}, !.text = t]
            twin == {x \in j.archived : x.m.text = t}
        IN \/ Set(c, rest) /\ UNCHANGED <<mem, pc, origin>>
           \/ /\ \E x \in twin : /\ x.id \in Archived
                               /\ mem' = [mem EXCEPT ![x.id].arch = FALSE, ![x.id].aged = FALSE]
                               /\ origin' = origin \ {x.id}
              /\ Set(c, [rest EXCEPT !.seen = @ \cup {t}])
              /\ UNCHANGED pc
           \/ /\ Set(c, rest)
              /\ IF t \in TextsOf(j.active) THEN UNCHANGED pc ELSE Goto(c, "merge")
              /\ UNCHANGED <<mem, origin>>
  BY DEF DigestItem
<1> DEFINE rest == [j EXCEPT !.items = @ \ {t}, !.text = t]
           more == [rest EXCEPT !.seen = @ \cup {t}]
<1>3. /\ rest.op = "digest" /\ rest.active = j.active /\ rest.text = t
      /\ more.op = "digest" /\ more.active = j.active
  BY <1>1 DEF Digesting
<1>4. Knows(c)
  BY <1>1 DEF DigestInv
<1>5. UNCHANGED digesting
  BY DEF DigestItem
<1> HIDE DEF rest, more
\* What the digest knows goes on, whichever memories are left of the origin.
<1>6. ASSUME Quiet, NEW k, Set(c, k), k.op = "digest", k.active = j.active,
             \/ UNCHANGED pc
             \/ Goto(c, "merge") /\ k.text \notin TextsOf(j.active)
      PROVE  DigestInv'
  <2>1. PICK l : l = pc'[c]
    OBVIOUS
  <2>2. l = "item" \/ (l = "merge" /\ k.text \notin TextsOf(j.active))
    BY <1>1, <1>6, <2>1 DEF Goto, CopiesAreFaithful
  <2>3. job'[c] = k /\ \A d \in Calls \ {c} : job'[d] = job[d] /\ pc'[d] = pc[d]
    BY <1>6, OthersStay
  <2>4. TextsOf(job'[c].active) = TextsOf(j.active)
    BY <1>6, <2>3
  <2>5. \A i \in origin' : ~mem'[i].arch => mem'[i].text \in TextsOf(j.active)
    BY <1>1, <1>4, <1>6 DEF Quiet, Knows, Knowing
  <2>6. Knows(c)'
    BY <2>1, <2>2, <2>3, <2>4, <2>5 DEF Knows, Deposits, TextsOf
  <2> QED BY <1>1, <1>5, <1>6, <2>3, <2>6, DigestGoesOn
<1>7. CASE Set(c, rest) /\ UNCHANGED <<mem, pc, origin>>
  BY <1>3, <1>6, <1>7, SameIsQuiet
<1>8. ASSUME NEW x \in j.archived, x.id \in Archived,
             mem' = [mem EXCEPT ![x.id].arch = FALSE, ![x.id].aged = FALSE], origin' = origin \ {x.id},
             Set(c, more), UNCHANGED pc
      PROVE  DigestInv'
  <2>1. Quiet
    BY <1>8, MarkIsQuiet DEF Archived
  <2> QED BY <1>3, <1>6, <1>8, <2>1
<1>9. CASE /\ Set(c, rest)
           /\ IF t \in TextsOf(j.active) THEN UNCHANGED pc ELSE Goto(c, "merge")
           /\ UNCHANGED <<mem, origin>>
  BY <1>3, <1>6, <1>9, SameIsQuiet
<1> QED BY <1>2, <1>7, <1>8, <1>9 DEF rest, more

LEMMA DigestDecides ==
    ASSUME CopiesAreFaithful, DigestInv, NEW c \in Calls, DigestMerge(c)
    PROVE  DigestInv'
<1> DEFINE j == job[c]
<1>1. j \in Digesting /\ j.op = "digest" /\ pc[c] = "merge"
  BY DigestOps DEF DigestMerge, DigestStages, Knowing
<1>2. Knows(c)
  BY <1>1 DEF DigestInv
<1>3. UNCHANGED digesting
  BY DEF DigestMerge
<1>4. ASSUME Quiet, NEW k, Set(c, k), k.op = "digest", k.active = j.active,
             Goto(c, "item") \/ (Goto(c, "store") /\ k.text = j.text)
      PROVE  DigestInv'
  <2>1. PICK l : l = pc'[c]
    OBVIOUS
  <2>2. l = "item" \/ (l = "store" /\ k.text = j.text)
    BY <1>4, <2>1 DEF Goto, CopiesAreFaithful
  <2>3. job'[c] = k /\ \A d \in Calls \ {c} : job'[d] = job[d] /\ pc'[d] = pc[d]
    BY <1>4, OthersStay
  <2>4. TextsOf(job'[c].active) = TextsOf(j.active)
    BY <1>4, <2>3
  <2>5. \A i \in origin' : ~mem'[i].arch => mem'[i].text \in TextsOf(j.active)
    BY <1>1, <1>2, <1>4 DEF Quiet, Knows, Knowing
  <2>6. j.text \notin TextsOf(j.active)
    BY <1>1, <1>2 DEF Knows, Deposits
  <2>7. Knows(c)'
    BY <2>1, <2>2, <2>3, <2>4, <2>5, <2>6 DEF Knows, Deposits, TextsOf
  <2> QED BY <1>1, <1>3, <1>4, <2>3, <2>7, DigestGoesOn
<1>5. CASE /\ \E v \in MaybeEmbed(j.text) : Set(c, [j EXCEPT !.vec = v])
           /\ Goto(c, "store") /\ UNCHANGED <<mem, origin>>
  <2>1. PICK v \in MaybeEmbed(j.text) : Set(c, [j EXCEPT !.vec = v])
    BY <1>5
  <2> DEFINE k == [j EXCEPT !.vec = v]
  <2>2. k.op = "digest" /\ k.active = j.active /\ k.text = j.text
    BY <1>1 DEF Digesting
  <2> HIDE DEF k
  <2>3. Set(c, k)
    BY <2>1 DEF k
  <2> QED BY <1>4, <1>5, <2>2, <2>3, SameIsQuiet
<1>6. CASE Goto(c, "item") /\ UNCHANGED <<mem, job, origin>>
  <2>1. Set(c, j)
    BY <1>6 DEF Set, CopiesAreFaithful
  <2> QED BY <1>1, <1>4, <1>6, <2>1, SameIsQuiet
<1>7. ASSUME NEW x \in j.active \cup j.archived, NEW t \in Texts, NEW v \in MaybeEmbed(t),
             IF Writable(x.id)
                THEN /\ Write(x.id, [x.m EXCEPT !.text = t, !.vec = v])
                     /\ Set(c, [j EXCEPT !.seen = (@ \ {x.m.text}) \cup {t}])
                ELSE Set(c, [j EXCEPT !.items = {}]) /\ UNCHANGED <<mem, origin>>,
             Goto(c, "item")
      PROVE  DigestInv'
  <2>1. [x.m EXCEPT !.text = t, !.vec = v] \in Faithful
    <3>1. x \in Held
      BY <1>1 DEF Digesting
    <3>2. v \in Said /\ v \in {NoText, t}
      BY EmbedsWhatItSays
    <3> QED BY <3>1, <3>2 DEF Held, Faithful, Memories
  <2> DEFINE indexed == [j EXCEPT !.seen = (@ \ {x.m.text}) \cup {t}]
             rejected == [j EXCEPT !.items = {}]
  <2>2. indexed.op = "digest" /\ indexed.active = j.active /\ rejected.op = "digest" /\ rejected.active = j.active
    BY <1>1 DEF Digesting
  <2> HIDE DEF indexed, rejected
  <2>3. CASE Writable(x.id)
    <3>1. Write(x.id, [x.m EXCEPT !.text = t, !.vec = v]) /\ Set(c, indexed)
      BY <1>7, <2>3 DEF indexed
    <3>2. Quiet
      BY <2>1, <2>3, <3>1, WriteIsQuiet DEF Writable
    <3> QED BY <1>4, <1>7, <2>2, <3>1, <3>2
  <2>4. CASE ~Writable(x.id)
    <3>1. Set(c, rejected) /\ UNCHANGED <<mem, origin>>
      BY <1>7, <2>4 DEF rejected
    <3> QED BY <1>4, <1>7, <2>2, <3>1, SameIsQuiet
  <2> QED BY <2>3, <2>4
<1> QED BY <1>5, <1>6, <1>7 DEF DigestMerge

\* The text is none of what an unarchived memory of a digest says.
LEMMA DigestStores ==
    ASSUME CopiesAreFaithful, DigestInv, NEW c \in Calls, StoreLands(c), job[c].op = "digest"
    PROVE  DigestInv'
<1> DEFINE j == job[c]
           n == New(j.text, j.vec)
<1>1. PICK id \in Ids \ Live :
        /\ mem' = [mem EXCEPT ![id] = n]
        /\ origin' = origin \cup {id}
        /\ Set(c, [j EXCEPT !.seen = @ \cup {j.text}, !.active = @ \cup {[id |-> id, m |-> mem'[id]]}])
        /\ Goto(c, "item")
  BY DEF StoreLands
<1>2. j \in Digesting /\ pc[c] = "store" /\ Knows(c)
  BY DigestOps DEF StoreLands, DigestInv
<1>3. n.text = j.text /\ n.arch = FALSE /\ n # NoMem
  BY DEF New, NoMem
<1> HIDE DEF n
<1>4. mem'[id] = n /\ \A i \in Ids \ {id} : mem'[i] = mem[i]
  BY <1>1 DEF CopiesAreFaithful, Stocks
<1>5. id \notin origin /\ origin \subseteq Live /\ Live \subseteq Ids
  BY DEF DigestInv, Live
<1>6. \A i \in origin : mem'[i] = mem[i] /\ i \in Live'
  BY <1>4, <1>5 DEF Live
<1> DEFINE h == [id |-> id, m |-> n]
           k == [j EXCEPT !.seen = @ \cup {j.text}, !.active = @ \cup {h}]
<1>7. h.m = n
  OBVIOUS
<1> HIDE DEF h
<1>8. k.op = "digest" /\ k.active = j.active \cup {h}
  BY <1>2 DEF Digesting
<1>9. Set(c, k)
  BY <1>1, <1>4 DEF h
<1> HIDE DEF k
<1>10. job'[c] = k /\ pc'[c] = "item" /\ \A d \in Calls \ {c} : job'[d] = job[d] /\ pc'[d] = pc[d]
  BY <1>1, <1>9, OthersStay
<1>11. \A i \in origin : ~mem[i].arch => mem[i].text \in TextsOf(j.active) /\ mem[i].text # j.text
  BY <1>2 DEF Knows, Knowing, Deposits
<1>12. (origin \subseteq Live)'
  <2>1. id \in Live'
    BY <1>3, <1>4 DEF Live
  <2> QED BY <1>1, <1>6, <2>1
<1>13. DigestsDoNotRepeat'
  <2> SUFFICES ASSUME NEW i \in origin', NEW o \in origin', ~mem'[i].arch, ~mem'[o].arch,
                      mem'[i].text = mem'[o].text
               PROVE  i = o
    BY DEF DigestsDoNotRepeat
  <2>1. CASE i \in origin /\ o \in origin
    BY <1>6, <2>1 DEF DigestInv, DigestsDoNotRepeat
  <2>2. CASE i = id /\ o = id
    BY <2>2
  <2>3. CASE i = id /\ o \in origin
    BY <1>3, <1>4, <1>6, <1>11, <2>3
  <2>4. CASE i \in origin /\ o = id
    BY <1>3, <1>4, <1>6, <1>11, <2>4
  <2> QED BY <1>1, <2>1, <2>2, <2>3, <2>4
<1>14. Knows(c)'
  <2>1. TextsOf(k.active) = TextsOf(j.active) \cup {j.text}
    BY <1>3, <1>7, <1>8 DEF TextsOf
  <2>2. TextsOf(job'[c].active) = TextsOf(k.active)
    BY <1>10
  <2>3. \A i \in origin' : ~mem'[i].arch => mem'[i].text \in TextsOf(k.active)
    BY <1>1, <1>3, <1>4, <1>6, <1>11, <2>1
  <2> QED BY <1>10, <2>2, <2>3 DEF Knows, Deposits, TextsOf
<1>15. UNCHANGED digesting /\ \A d \in digesting : d = c
  BY DEF StoreLands, DigestInv
<1>16. \A d \in Calls : job'[d].op = "digest" <=> d \in digesting'
  BY <1>8, <1>10, <1>15 DEF DigestInv
<1>17. \A d \in digesting' \cap Calls : Knows(d)'
  BY <1>14, <1>15
<1>18. \A e, d \in digesting' : e = d
  BY <1>15
<1> QED BY <1>12, <1>13, <1>16, <1>17, <1>18 DEF DigestInv

LEMMA DigestIsOver ==
    ASSUME CopiesAreFaithful, DigestInv, NEW c \in Calls, DigestEnds(c)
    PROVE  DigestInv'
<1>1. Set(c, NoJob) /\ Goto(c, "idle") /\ digesting' = digesting \ {c} /\ pc[c] = "item"
  BY DEF DigestEnds, Return
<1>2. job'[c] = NoJob /\ \A d \in Calls \ {c} : job'[d] = job[d] /\ pc'[d] = pc[d]
  BY <1>1, OthersStay
<1>3. c \in digesting
  BY <1>1, DigestOps DEF DigestInv
<1>4. digesting' = {}
  BY <1>1, <1>3 DEF DigestInv
<1>5. NoJob.op # "digest"
  BY DEF NoJob
<1>6. \A d \in Calls : job'[d].op # "digest"
  BY <1>1, <1>2, <1>3, <1>5 DEF DigestInv
<1>7. Quiet
  BY SameIsQuiet DEF DigestEnds
<1> QED BY <1>4, <1>6, <1>7, QuietIsSound DEF DigestInv
-----------------------------------------------------------------------------
(* The other calls.                                                        *)

LEMMA StoresElsewhere ==
    ASSUME CopiesAreFaithful, DigestInv, NEW c \in Calls,
           Store(c) \/ (StoreLands(c) /\ job[c].op # "digest")
    PROVE  DigestInv'
<1>1. CASE Store(c)
  <2>1. PICK t \in Texts : \E v \in MaybeEmbed(t) : Set(c, [op |-> "store", text |-> t, vec |-> v])
    BY <1>1 DEF Store
  <2>2. PICK v \in MaybeEmbed(t) : Set(c, [op |-> "store", text |-> t, vec |-> v])
    BY <2>1
  <2> DEFINE j == [op |-> "store", text |-> t, vec |-> v]
  <2>3. j.op # "digest"
    OBVIOUS
  <2> HIDE DEF j
  <2>4. Set(c, j) /\ Goto(c, "store")
    BY <1>1, <2>2 DEF Store, j
  <2>5. job'[c] = j /\ \A d \in Calls \ {c} : job'[d] = job[d] /\ pc'[d] = pc[d]
    BY <2>4, OthersStay
  <2>6. job[c].op # "digest"
    BY <1>1, DigestOps DEF Store, Starts, DigestStages, Knowing
  <2>7. Quiet /\ UNCHANGED digesting
    BY <1>1, SameIsQuiet DEF Store
  <2> QED BY <2>3, <2>5, <2>6, <2>7, OtherCallsKeep
<1>2. CASE StoreLands(c) /\ job[c].op # "digest"
  <2>1. PICK id \in Ids \ Live :
          /\ mem' = [mem EXCEPT ![id] = New(job[c].text, job[c].vec)]
          /\ origin' = origin \ {id}
    BY <1>2 DEF StoreLands
  <2>2. Set(c, NoJob) /\ Goto(c, "idle") /\ UNCHANGED digesting
    BY <1>2 DEF StoreLands, Return
  <2>3. job'[c] = NoJob /\ \A d \in Calls \ {c} : job'[d] = job[d] /\ pc'[d] = pc[d]
    BY <2>2, OthersStay
  <2>4. NoJob.op # "digest"
    BY DEF NoJob
  <2>5. \A i \in Ids \ {id} : mem'[i] = mem[i]
    BY <2>1 DEF CopiesAreFaithful, Stocks
  <2>6. Quiet
    BY <2>1, <2>5 DEF Quiet, DigestInv, Live
  <2> QED BY <1>2, <2>2, <2>3, <2>4, <2>6, OtherCallsKeep
<1> QED BY <1>1, <1>2

\* A step from and to stages where no digest is.
LEMMA ElsewhereKeeps ==
    ASSUME CopiesAreFaithful, CopiesAreFaithful', DigestInv, Quiet, UNCHANGED digesting, NEW c \in Calls,
           NEW l, NEW j, Set(c, j), Goto(c, l) \/ (UNCHANGED pc /\ l = pc[c]),
           pc[c] \notin DigestStages, l \notin DigestStages
    PROVE  DigestInv'
<1>1. job'[c] = j /\ pc'[c] = l /\ \A d \in Calls \ {c} : job'[d] = job[d] /\ pc'[d] = pc[d]
  BY OthersStay
<1>2. job[c].op # "digest"
  BY DigestOps
<1>3. job'[c] \in Fits(l)' /\ l \in Stages
  BY <1>1 DEF CopiesAreFaithful
<1>4. CASE l = "idle"
  BY <1>1, <1>2, <1>3, <1>4, OtherCallsKeep DEF Fits, NoJob
<1>5. CASE l = "update"
  BY <1>1, <1>2, <1>3, <1>5, OtherCallsKeep DEF Fits, Updating
<1>6. CASE l = "vector"
  BY <1>1, <1>2, <1>3, <1>6, OtherCallsKeep DEF Fits, Vectoring
<1>7. CASE l \in {"decay", "expire", "backfill", "flag"}
  BY <1>1, <1>2, <1>3, <1>7, OtherCallsKeep DEF Fits, Listing
<1> QED BY <1>3, <1>4, <1>5, <1>6, <1>7 DEF Stages, DigestStages, Knowing

LEMMA MemoryOnlyKeeps ==
    ASSUME DigestInv, Quiet, UNCHANGED <<pc, job, digesting>>
    PROVE  DigestInv'
<1>1. \A d \in digesting' \cap Calls : Knows(d)'
  BY DEF DigestInv, Knows, Quiet, TextsOf
<1> QED BY <1>1, QuietIsSound DEF DigestInv

LEMMA ShortCallsElsewhere ==
    ASSUME CopiesAreFaithful, CopiesAreFaithful', DigestInv, NEW c \in Calls, NEW id \in Ids,
           Get(c, id) \/ Forget(c, id) \/ Archive(c, id) \/ Revive(c, id) \/ SearchTouches(c, id)
             \/ EmbedJob(c, id)
    PROVE  DigestInv'
<1>1. CASE Get(c, id)
  <2>1. PICK j : Set(c, j)
    BY <1>1 DEF Get
  <2>2. Quiet /\ pc[c] \notin DigestStages /\ "update" \notin DigestStages
    BY <1>1, SameIsQuiet DEF Get, Starts, DigestStages, Knowing
  <2> QED BY <1>1, <2>1, <2>2, ElsewhereKeeps DEF Get
<1>2. CASE Forget(c, id)
  BY <1>2, ForgetIsQuiet, MemoryOnlyKeeps DEF Forget
<1>3. CASE Archive(c, id)
  <2>1. Quiet
    BY <1>3, MarkIsQuiet DEF Archive, Active
  <2> QED BY <1>3, <2>1, MemoryOnlyKeeps DEF Archive
<1>4. CASE Revive(c, id)
  <2>1. Quiet
    BY <1>4, MarkIsQuiet DEF Revive, Archived
  <2> QED BY <1>4, <2>1, MemoryOnlyKeeps DEF Revive
<1>5. CASE SearchTouches(c, id)
  <2>1. Quiet
    BY <1>5, AgedIsQuiet DEF SearchTouches, Active
  <2> QED BY <1>5, <2>1, MemoryOnlyKeeps DEF SearchTouches
<1>6. CASE EmbedJob(c, id)
  <2>1. PICK j : Set(c, j)
    BY <1>6 DEF EmbedJob
  <2>2. Quiet /\ pc[c] \notin DigestStages /\ "vector" \notin DigestStages
    BY <1>6, SameIsQuiet DEF EmbedJob, Starts, DigestStages, Knowing
  <2> QED BY <1>6, <2>1, <2>2, ElsewhereKeeps DEF EmbedJob
<1> QED BY <1>1, <1>2, <1>3, <1>4, <1>5, <1>6

LEMMA WritesElsewhere ==
    ASSUME CopiesAreFaithful, CopiesAreFaithful', DigestInv, NEW c \in Calls,
           UpdateLands(c) \/ VectorLands(c) \/ Flag(c)
    PROVE  DigestInv'
<1>0. "idle" \notin DigestStages /\ "flag" \notin DigestStages /\ "update" \notin DigestStages
      /\ "vector" \notin DigestStages /\ "backfill" \notin DigestStages
  BY DEF DigestStages, Knowing
<1>1. CASE UpdateLands(c)
  <2>1. Quiet
    <3>1. Patched(job[c]) \subseteq Faithful
      BY <1>1, PatchedIsFaithful DEF UpdateLands
    <3> QED BY <1>1, <3>1, SameIsQuiet, WriteIsQuiet DEF UpdateLands, Writable
  <2> QED BY <1>0, <1>1, <2>1, ElsewhereKeeps DEF UpdateLands, Return
<1>2. CASE VectorLands(c)
  <2>1. VectorOf(job[c].copy, job[c].id) \in Faithful
    BY <1>2 DEF VectorLands, CopiesAreFaithful, Fits, Vectoring, VectorOf, Faithful, Memories, Said
  <2>2. Quiet
    BY <1>2, <2>1, SameIsQuiet, WriteIsQuiet DEF VectorLands
  <2>3. CASE job[c].op = "embed"
    BY <1>0, <1>2, <2>2, <2>3, ElsewhereKeeps DEF VectorLands, Return
  <2>4. CASE job[c].op # "embed"
    BY <1>0, <1>2, <2>2, <2>4, ElsewhereKeeps DEF VectorLands
  <2> QED BY <2>3, <2>4
<1>3. CASE Flag(c)
  <2>1. CASE job[c].left = {}
    <3>1. Quiet
      BY <1>3, <2>1, SameIsQuiet DEF Flag
    <3> QED BY <1>0, <1>3, <2>1, <3>1, ElsewhereKeeps DEF Flag, Return
  <2>2. CASE job[c].left # {}
    <3>1. PICK x \in job[c].left :
            /\ Set(c, [job[c] EXCEPT !.left = @ \ {x}])
            /\ IF Writable(x.id) THEN Write(x.id, [x.m EXCEPT !.contra = TRUE]) ELSE UNCHANGED <<mem, origin>>
            /\ UNCHANGED pc
      BY <1>3, <2>2 DEF Flag
    <3>2. x \in Held
      BY <1>3, IsListing DEF Flag
    <3>3. [x.m EXCEPT !.contra = TRUE] \in Faithful
      BY <3>2 DEF Held, Faithful, Memories
    <3>4. Quiet
      BY <3>1, <3>3, SameIsQuiet, WriteIsQuiet DEF Writable
    <3> QED BY <1>0, <1>3, <3>1, <3>4, ElsewhereKeeps DEF Flag
  <2> QED BY <2>1, <2>2
<1> QED BY <1>1, <1>2, <1>3

LEMMA MaintenanceElsewhere ==
    ASSUME CopiesAreFaithful, CopiesAreFaithful', DigestInv, NEW c \in Calls,
           \/ Maintain(c) \/ DecayArchive(c) \/ DecayList(c) \/ DecayForget(c) \/ DecayEnds(c)
           \/ Backfill(c) \/ BackfillOne(c) \/ Contradictions(c)
    PROVE  DigestInv'
<1>0. pc[c] \in {"idle", "decay", "expire", "backfill"}
  BY DEF Maintain, DecayArchive, DecayList, DecayForget, DecayEnds, Backfill, BackfillOne,
         Contradictions, Starts
<1>1. PICK l \in {"idle", "decay", "expire", "backfill", "vector", "flag"} :
        (\E j : Set(c, j)) /\ (Goto(c, l) \/ (UNCHANGED pc /\ l = pc[c]))
  BY <1>0 DEF Maintain, DecayArchive, DecayList, DecayForget, DecayEnds, Backfill, BackfillOne,
              Contradictions, Return
<1>2. pc[c] \notin DigestStages /\ l \notin DigestStages
  BY <1>0, <1>1 DEF DigestStages, Knowing
<1>3. Quiet
  <2>1. CASE DecayArchive(c)
    <3>1. PICK x \in job[c].left :
            mem' = IF x.id \in Active THEN [mem EXCEPT ![x.id].arch = TRUE, ![x.id].aged = FALSE] ELSE mem
      BY <2>1 DEF DecayArchive
    <3>2. UNCHANGED origin
      BY <2>1 DEF DecayArchive
    <3>3. CASE x.id \in Active
      BY <3>1, <3>2, <3>3, MarkIsQuiet DEF Active
    <3>4. CASE x.id \notin Active
      BY <3>1, <3>2, <3>4, SameIsQuiet
    <3> QED BY <3>3, <3>4
  <2>2. CASE DecayForget(c)
    BY <2>2, ForgetIsQuiet DEF DecayForget
  <2>3. CASE Maintain(c) \/ DecayList(c) \/ DecayEnds(c) \/ Backfill(c) \/ BackfillOne(c) \/ Contradictions(c)
    BY <2>3, SameIsQuiet DEF Maintain, DecayList, DecayEnds, Backfill, BackfillOne, Contradictions
  <2> QED BY <2>1, <2>2, <2>3
<1>4. UNCHANGED digesting
  BY DEF Maintain, DecayArchive, DecayList, DecayForget, DecayEnds, Backfill, BackfillOne, Contradictions
<1> QED BY <1>1, <1>2, <1>3, <1>4, ElsewhereKeeps
-----------------------------------------------------------------------------
\* What a digest stores, no other memory of a digest says: the lock lets one
\* digest at a time read what is active and add to it, and whatever else runs
\* meanwhile, a text that a digest has stored is among what it has read
\* (digest(), doDigest()).
THEOREM DigestsDoNotRepeatTheorem == Spec => []DigestsDoNotRepeat
<1>1. Init => DigestInv
  <2>1. NoJob.op # "digest"
    BY DEF NoJob
  <2> QED BY <2>1 DEF Init, DigestInv, DigestsDoNotRepeat
<1>2. CopiesAreFaithful /\ CopiesAreFaithful' /\ DigestInv /\ [Next]_vars => DigestInv'
  <2> SUFFICES ASSUME CopiesAreFaithful, CopiesAreFaithful', DigestInv, [Next]_vars PROVE DigestInv'
    OBVIOUS
  <2>1. ASSUME NEW c \in Calls, Store(c) \/ StoreLands(c) \/ UpdateLands(c) \/ VectorLands(c) \/ Flag(c)
        PROVE  DigestInv'
    BY <2>1, StoresElsewhere, DigestStores, WritesElsewhere
  <2>2. ASSUME NEW c \in Calls, NEW id \in Ids,
               \/ Get(c, id) \/ Forget(c, id) \/ Archive(c, id) \/ Revive(c, id)
               \/ SearchTouches(c, id) \/ EmbedJob(c, id)
        PROVE  DigestInv'
    BY <2>2, ShortCallsElsewhere
  <2>3. ASSUME NEW c \in Calls,
               \/ Digest(c) \/ DigestActive(c) \/ DigestArchived(c) \/ DigestItem(c)
               \/ DigestMerge(c) \/ DigestEnds(c)
        PROVE  DigestInv'
    BY <2>3, DigestStarts, DigestReads, DigestSorts, DigestDecides, DigestIsOver
  <2>4. ASSUME NEW c \in Calls,
               \/ Maintain(c) \/ DecayArchive(c) \/ DecayList(c) \/ DecayForget(c) \/ DecayEnds(c)
               \/ Backfill(c) \/ BackfillOne(c) \/ Contradictions(c)
        PROVE  DigestInv'
    BY <2>4, MaintenanceElsewhere
  <2>5. ASSUME NEW id \in Ids, Age(id) PROVE DigestInv'
    <3>1. Quiet
      BY <2>5, AgedIsQuiet DEF Age
    <3> QED BY <2>5, <3>1, MemoryOnlyKeeps DEF Age
  <2>6. CASE UNCHANGED vars
    BY <2>6, SameIsQuiet, MemoryOnlyKeeps DEF vars
  <2> QED BY <2>1, <2>2, <2>3, <2>4, <2>5, <2>6 DEF Next, Step
<1>3. DigestInv => DigestsDoNotRepeat
  BY DEF DigestInv
<1> QED BY <1>1, <1>2, <1>3, MemoryInvariant, PTL DEF Spec

-----------------------------------------------------------------------------
(* Agents and snapshots.                                                   *)

AgentMems == [scope : Scopes, text : AgentTexts, access : Accesses, by : Callers,
              rel : SUBSET AgentIds, sup : SUBSET AgentIds]
InFlight == IF import = NoImport THEN {} ELSE DOMAIN import.batch
Owed     == IF import = NoImport THEN {} ELSE import.owed

AgentTypeOK ==
    /\ rows \in [AgentIds -> AgentMems \cup {NoRecord}]
    /\ seen \subseteq used /\ used \subseteq AgentIds
    /\ DOMAIN snapshot \subseteq used
    /\ \A id \in DOMAIN snapshot : snapshot[id] \in AgentMems
    /\ import # NoImport =>
          /\ import = [by |-> import.by, batch |-> import.batch, owed |-> import.owed]
          /\ DOMAIN import.batch \subseteq used
          /\ \A id \in DOMAIN import.batch : import.batch[id] \in AgentMems

\* A memory that its owner may read, if it is private.
Owned(m) == m.access = "private" => m.by \in Agents /\ CanRead(m, m.by)

AllOwned == /\ \A id \in Kept : Owned(rows[id])
            /\ import # NoImport => \A id \in DOMAIN import.batch : Owned(import.batch[id])

\* What stands for a memory of a snapshot is in the store or, once the batch has
\* landed, will be.
StandsFor(e, S, ids) == \/ e.id \in ids
                        \/ \E id \in Kept : KeyOf(rows[id]) = e.key
                        \/ \E f \in S : f.key = e.key /\ f.id \in ids
AllStand == /\ \A e \in restored : StandsFor(e, restored, Kept)
            /\ \A e \in Owed : StandsFor(e, Owed, Kept \cup InFlight)

AllKnown == /\ Kept \subseteq seen
            /\ tenant => /\ \A id \in Kept : References(rows[id]) \subseteq seen
                         /\ import # NoImport => \A id \in DOMAIN import.batch :
                               References(import.batch[id]) \subseteq seen \cup DOMAIN import.batch

AgentInv == AgentTypeOK /\ AllOwned /\ AllStand /\ AllKnown

LEMMA RecordIsNoMem == NoRecord \notin AgentMems
  BY DEF NoRecord, AgentMems, Accesses

LEMMA KeptRecords ==
    ASSUME AgentTypeOK
    PROVE  /\ Kept \subseteq AgentIds
           /\ \A id \in Kept : rows[id] \in AgentMems
  BY DEF AgentTypeOK, Kept

LEMMA AgentInitial == AgentInit => AgentInv
<1> SUFFICES ASSUME AgentInit PROVE AgentInv
  OBVIOUS
<1>1. Kept = {} /\ Owed = {}
  BY DEF AgentInit, Kept, Owed
<1>2. AgentTypeOK
  BY DEF AgentInit, AgentTypeOK
<1>3. AllOwned /\ AllStand /\ AllKnown
  BY <1>1 DEF AgentInit, AllOwned, AllStand, AllKnown
<1> QED BY <1>2, <1>3 DEF AgentInv

\* store() and compress(): a memory comes under an id nobody has had.
LEMMA PutKeeps ==
    ASSUME AgentInv, NEW id \in Fresh, NEW m \in AgentMems, Owned(m),
           tenant => References(m) \subseteq seen,
           Put(id, m), UNCHANGED <<snapshot, import, tenant, restored>>
    PROVE  AgentInv'
<1> USE DEF AgentInv
<1>1. id \in AgentIds /\ id \notin used
  BY DEF Fresh
<1>2. id \notin Kept
  BY <1>1 DEF AllKnown, AgentTypeOK
<1>3. /\ Kept' = Kept \cup {id}
      /\ rows'[id] = m
      /\ \A i \in Kept : rows'[i] = rows[i]
  BY <1>1, <1>2, RecordIsNoMem DEF Put, Kept, AgentTypeOK
<1>4. AgentTypeOK'
  BY <1>1 DEF Put, AgentTypeOK
<1>5. AllOwned'
  BY <1>3 DEF AllOwned
<1>6. AllStand'
  <2>1. Owed' = Owed /\ InFlight' = InFlight
    BY DEF Owed, InFlight
  <2> QED BY <1>3, <2>1 DEF AllStand, StandsFor
<1>7. AllKnown'
  BY <1>3 DEF AllKnown, Put
<1> QED BY <1>4, <1>5, <1>6, <1>7

\* update() and forget(): what a snapshot's memories stand for goes with them.
LEMMA ChangesKeep ==
    ASSUME AgentTypeOK, AllStand, NEW id \in Kept,
           \A i \in Kept \ {id} : i \in Kept' /\ rows'[i] = rows[i],
           Changes(id)
    PROVE  AllStand'
<1> DEFINE Other(S) == {e \in S : /\ e.id # id /\ e.key # KeyOf(rows[id])
                                 /\ \A f \in S : f.id = id => f.key # e.key}
<1>1. ASSUME NEW S, NEW ids, NEW ids2, ids \ {id} \subseteq ids2,
             \A e \in S : StandsFor(e, S, ids)
      PROVE  \A e \in Other(S) : \/ e.id \in ids2
                                 \/ \E i \in Kept' : KeyOf(rows'[i]) = e.key
                                 \/ \E f \in Other(S) : f.key = e.key /\ f.id \in ids2
  <2> SUFFICES ASSUME NEW e \in Other(S)
               PROVE  \/ e.id \in ids2
                      \/ \E i \in Kept' : KeyOf(rows'[i]) = e.key
                      \/ \E f \in Other(S) : f.key = e.key /\ f.id \in ids2
    OBVIOUS
  <2>1. e \in S /\ e.id # id /\ e.key # KeyOf(rows[id])
    OBVIOUS
  <2>2. StandsFor(e, S, ids)
    BY <1>1, <2>1
  <2>3. CASE e.id \in ids
    BY <1>1, <2>1, <2>3
  <2>4. CASE \E i \in Kept : KeyOf(rows[i]) = e.key
    BY <2>1, <2>4
  <2>5. CASE \E f \in S : f.key = e.key /\ f.id \in ids
    <3>1. PICK f \in S : f.key = e.key /\ f.id \in ids
      BY <2>5
    <3>2. f.id # id
      BY <3>1
    <3>3. f \in Other(S) /\ f.id \in ids2
      BY <1>1, <2>1, <3>1, <3>2
    <3> QED BY <3>1, <3>3
  <2> QED BY <2>2, <2>3, <2>4, <2>5 DEF StandsFor
<1>2. restored' = Other(restored)
  BY DEF Changes
<1>3. Kept \ {id} \subseteq Kept'
  OBVIOUS
<1>4. (\/ Owed' = {} 
       \/ Owed' = Other(Owed) /\ InFlight' = InFlight)
  <2>1. CASE import = NoImport
    BY <2>1 DEF Changes, Owed
  <2>2. CASE import # NoImport
    <3>1. /\ import = [by |-> import.by, batch |-> import.batch, owed |-> import.owed]
          /\ import' = [import EXCEPT !.owed = Other(@)]
      BY <2>2 DEF Changes, AgentTypeOK
    <3>2. import'.batch = import.batch /\ import'.owed = Other(import.owed)
      BY <3>1
    <3> HIDE DEF Other
    <3> QED BY <2>2, <3>2 DEF Owed, InFlight
  <2> QED BY <2>1, <2>2
<1>5. \A e \in restored' : StandsFor(e, restored, Kept)'
  <2> HIDE DEF Other
  <2>1. \A e \in restored : StandsFor(e, restored, Kept)
    BY DEF AllStand
  <2>2. \A e \in Other(restored) : \/ e.id \in Kept'
                                   \/ \E i \in Kept' : KeyOf(rows'[i]) = e.key
                                   \/ \E f \in Other(restored) : f.key = e.key /\ f.id \in Kept'
    BY ONLY <1>1, <1>3, <2>1
  <2> QED BY <1>2, <2>2 DEF StandsFor
<1>6. \A e \in Owed' : StandsFor(e, Owed, Kept \cup InFlight)'
  <2>1. CASE Owed' = {}
    BY <2>1
  <2>2. CASE Owed' = Other(Owed) /\ InFlight' = InFlight
    <3> HIDE DEF Other
    <3>1. (Kept \cup InFlight) \ {id} \subseteq Kept' \cup InFlight
      BY <1>3
    <3>2. \A e \in Owed : StandsFor(e, Owed, Kept \cup InFlight)
      BY DEF AllStand
    <3>3. \A e \in Other(Owed) :
             \/ e.id \in Kept' \cup InFlight
             \/ \E i \in Kept' : KeyOf(rows'[i]) = e.key
             \/ \E f \in Other(Owed) : f.key = e.key /\ f.id \in Kept' \cup InFlight
      BY ONLY <1>1, <3>1, <3>2
    <3> QED BY <2>2, <3>3 DEF StandsFor
  <2> QED BY <1>4, <2>1, <2>2
<1> QED BY <1>5, <1>6 DEF AllStand

\* The fields of a memory are what canRead() and References() look at.
LEMMA ImportKeepsFlight ==
    ASSUME AgentTypeOK, NEW id \in AgentIds, Changes(id)
    PROVE  import' # NoImport =>
              /\ import # NoImport
              /\ import' = [by |-> import.by, batch |-> import.batch, owed |-> import'.owed]
<1>1. CASE import = NoImport
  BY <1>1 DEF Changes
<1>2. CASE import # NoImport
  <2>1. import = [by |-> import.by, batch |-> import.batch, owed |-> import.owed]
    BY <1>2 DEF AgentTypeOK
  <2>2. \E S : import' = [import EXCEPT !.owed = S]
    BY <1>2 DEF Changes
  <2> QED BY <1>2, <2>1, <2>2
<1> QED BY <1>1, <1>2

LEMMA AgentUpdateKeeps ==
    ASSUME AgentInv, NEW c \in Callers, NEW id \in AgentIds, Update(c, id)
    PROVE  AgentInv'
<1> USE DEF AgentInv
<1>1. PICK s \in Scopes, t \in AgentTexts :
         /\ CanUseScope(s, c)
         /\ rows' = [rows EXCEPT ![id].scope = s, ![id].text = t]
  BY DEF Update
<1> DEFINE w == [rows[id] EXCEPT !.scope = s, !.text = t]
<1>2. id \in Kept /\ rows[id] \in AgentMems /\ CanRead(rows[id], c)
  BY KeptRecords DEF Update, Visible
<1>3. /\ w \in AgentMems
      /\ w.access = rows[id].access /\ w.by = rows[id].by /\ w.scope = s
      /\ w.rel = rows[id].rel /\ w.sup = rows[id].sup
  BY <1>2 DEF AgentMems
<1>4. rows' = [rows EXCEPT ![id] = w]
  BY <1>1, <1>2 DEF AgentTypeOK
<1> HIDE DEF w
<1>5. /\ Kept' = Kept /\ rows'[id] = w
      /\ \A i \in Kept \ {id} : rows'[i] = rows[i]
  BY <1>2, <1>3, <1>4, RecordIsNoMem DEF Kept, AgentTypeOK
<1>6. UNCHANGED <<seen, used, snapshot, tenant>> /\ Changes(id)
  BY DEF Update
<1>7. AgentTypeOK'
  <2>1. rows' \in [AgentIds -> AgentMems \cup {NoRecord}]
    BY <1>3, <1>4 DEF AgentTypeOK
  <2> QED BY <1>6, <2>1, ImportKeepsFlight DEF AgentTypeOK
<1>8. AllOwned'
  <2>1. Owned(w)
    BY <1>1, <1>2, <1>3 DEF AllOwned, Owned, CanRead
  <2> QED BY <1>5, <1>6, <2>1, ImportKeepsFlight DEF AllOwned
<1>9. AllStand'
  BY <1>2, <1>5, <1>6, ChangesKeep
<1>10. AllKnown'
  BY <1>2, <1>3, <1>5, <1>6, ImportKeepsFlight DEF AllKnown, References
<1> QED BY <1>7, <1>8, <1>9, <1>10

LEMMA ForgetKeeps ==
    ASSUME AgentInv, NEW c \in Callers, NEW id \in AgentIds, AgentForget(c, id)
    PROVE  AgentInv'
<1> USE DEF AgentInv
<1>1. id \in Kept /\ rows' = [rows EXCEPT ![id] = NoRecord]
  BY DEF AgentForget, Visible
<1>2. UNCHANGED <<seen, used, snapshot, tenant>> /\ Changes(id)
  BY DEF AgentForget
<1>3. /\ Kept' = Kept \ {id}
      /\ \A i \in Kept \ {id} : rows'[i] = rows[i]
  BY <1>1 DEF Kept, AgentTypeOK
<1>4. AgentTypeOK'
  <2>1. rows' \in [AgentIds -> AgentMems \cup {NoRecord}]
    BY <1>1 DEF AgentTypeOK
  <2> QED BY <1>2, <2>1, ImportKeepsFlight DEF AgentTypeOK
<1>5. AllOwned'
  BY <1>2, <1>3, ImportKeepsFlight DEF AllOwned
<1>6. AllStand'
  BY <1>1, <1>2, <1>3, ChangesKeep
<1>7. AllKnown'
  BY <1>2, <1>3, ImportKeepsFlight DEF AllKnown
<1> QED BY <1>4, <1>5, <1>6, <1>7

LEMMA RelateKeeps ==
    ASSUME AgentInv, NEW c \in Callers, NEW id \in AgentIds, Relate(c, id)
    PROVE  AgentInv'
<1> USE DEF AgentInv
<1>1. id \in Kept /\ rows[id] \in AgentMems /\ id \in AgentIds
  BY KeptRecords DEF Relate, Visible
<1>2. PICK rel : /\ rel \subseteq rows[id].rel \cup Kept
                 /\ rows' = [rows EXCEPT ![id].rel = rel]
  BY DEF Relate, Visible
<1> DEFINE w == [rows[id] EXCEPT !.rel = rel]
<1>3. UNCHANGED <<seen, used, snapshot, import, tenant, restored>>
  BY DEF Relate
<1>4. /\ w \in AgentMems
      /\ w.access = rows[id].access /\ w.by = rows[id].by /\ w.scope = rows[id].scope
      /\ w.text = rows[id].text /\ w.rel = rel /\ w.sup = rows[id].sup
  BY <1>1, <1>2, KeptRecords DEF AgentMems
<1>5. rows' = [rows EXCEPT ![id] = w]
  BY <1>1, <1>2 DEF AgentTypeOK
<1> HIDE DEF w
<1>6. /\ Kept' = Kept /\ rows'[id] = w
      /\ \A i \in Kept \ {id} : rows'[i] = rows[i]
  BY <1>1, <1>4, <1>5, RecordIsNoMem DEF Kept, AgentTypeOK
<1>7. AgentTypeOK'
  BY <1>3, <1>4, <1>5 DEF AgentTypeOK
<1>8. AllOwned'
  <2>1. Owned(w)
    BY <1>1, <1>4 DEF AllOwned, Owned, CanRead
  <2> QED BY <1>3, <1>6, <2>1 DEF AllOwned
<1>9. AllStand'
  <2>1. \A i \in Kept : KeyOf(rows'[i]) = KeyOf(rows[i])
    BY <1>4, <1>6 DEF KeyOf
  <2>2. Owed' = Owed /\ InFlight' = InFlight
    BY <1>3 DEF Owed, InFlight
  <2> QED BY <1>3, <1>6, <2>1, <2>2 DEF AllStand, StandsFor
<1>10. AllKnown'
  <2>1. tenant => References(w) \subseteq seen
    BY <1>1, <1>2, <1>4 DEF AllKnown, References
  <2> QED BY <1>3, <1>6, <2>1 DEF AllKnown
<1> QED BY <1>7, <1>8, <1>9, <1>10

LEMMA AgentStoreKeeps ==
    ASSUME AgentInv, NEW c \in Callers, AgentStore(c)
    PROVE  AgentInv'
<1>1. PICK in \in Inputs, id \in Fresh, old \in {{}} \cup {{i} : i \in used} :
         LET m == [scope |-> in.scope, text |-> in.text, access |-> in.access, by |-> in.by,
                   rel |-> {}, sup |-> old]
         IN /\ Attributable(m, c) /\ AgentWrite(Canonical(m, c), c) /\ MayRefer(m, c, {})
            /\ Put(id, Canonical(m, c))
  BY DEF AgentStore
<1> DEFINE m == [scope |-> in.scope, text |-> in.text, access |-> in.access, by |-> in.by,
                 rel |-> {}, sup |-> old]
<1>2. m \in AgentMems
  BY InputsAssumption DEF AgentMems, AgentInv, AgentTypeOK
<1> HIDE DEF m
<1> DEFINE k == Canonical(m, c)
<1>3. /\ k \in AgentMems
      /\ k.by = c /\ k.rel = m.rel /\ k.sup = m.sup
  BY <1>2 DEF Canonical, AgentMems
<1> HIDE DEF k
<1>4. AgentWrite(k, c) /\ MayRefer(m, c, {}) /\ Put(id, k)
  BY <1>1 DEF m, k
<1>5. Owned(k)
  BY <1>3, <1>4 DEF Owned, AgentWrite, CanRead, Callers
<1>6. tenant => References(k) \subseteq seen
  BY <1>3, <1>4 DEF MayRefer, References, Visible, AgentInv, AllKnown
<1> QED BY <1>3, <1>4, <1>5, <1>6, PutKeeps DEF AgentStore

LEMMA CompressKeeps ==
    ASSUME AgentInv, NEW c \in Callers, Compress(c)
    PROVE  AgentInv'
<1>1. PICK s \in Scopes, t \in AgentTexts, id \in Fresh :
         \E drawn \in SUBSET Visible(c) :
            /\ AgentWrite(Compressed(drawn, s, t, c), c)
            /\ Put(id, Compressed(drawn, s, t, c))
  BY DEF Compress
<1>2. PICK drawn \in SUBSET Visible(c) :
         /\ AgentWrite(Compressed(drawn, s, t, c), c)
         /\ Put(id, Compressed(drawn, s, t, c))
  BY <1>1
<1> DEFINE k == Compressed(drawn, s, t, c)
<1>3. drawn \subseteq Kept /\ drawn \subseteq AgentIds
  BY DEF Visible, Kept
<1>4. /\ k \in AgentMems
      /\ k.by = c /\ References(k) = drawn
  BY <1>3 DEF Compressed, AgentMems, Accesses, References
<1> HIDE DEF k
<1>5. AgentWrite(k, c) /\ Put(id, k)
  BY <1>2 DEF k
<1>6. Owned(k)
  BY <1>4, <1>5 DEF Owned, AgentWrite, CanRead, Callers
<1>7. tenant => References(k) \subseteq seen
  BY <1>3, <1>4 DEF AgentInv, AllKnown
<1> QED BY <1>4, <1>5, <1>6, <1>7, PutKeeps DEF Compress

LEMMA ExportKeeps ==
    ASSUME AgentInv, NEW c \in Callers, Export(c)
    PROVE  AgentInv'
<1> USE DEF AgentInv
<1>1. PICK S \in SUBSET Visible(c) : snapshot' = [id \in S |-> Sanitized(rows[id], S)]
  BY DEF Export
<1>2. S \subseteq Kept /\ S \subseteq used /\ UNCHANGED <<rows, seen, used, import, tenant, restored>>
  BY DEF Export, Visible, AllKnown, AgentTypeOK
<1>3. \A id \in S : Sanitized(rows[id], S) \in AgentMems
  BY <1>2, KeptRecords DEF Sanitized, AgentMems
<1>4. AgentTypeOK'
  BY <1>1, <1>2, <1>3 DEF AgentTypeOK
<1>5. AllOwned' /\ AllKnown'
  BY <1>2 DEF AllOwned, AllKnown, Kept
<1>6. AllStand'
  BY <1>2 DEF AllStand, StandsFor, Owed, InFlight, Kept
<1> QED BY <1>4, <1>5, <1>6

\* The preflight of an import: every memory of the snapshot is in the store, by
\* its id or its content, or one of its equals is in the batch.
LEMMA PrepareKeeps ==
    ASSUME AgentInv, NEW c \in Callers, PrepareSnapshotImport(c)
    PROVE  AgentInv'
<1> USE DEF AgentInv
<1> DEFINE owed == {[id |-> id, key |-> KeyOf(snapshot[id])] : id \in DOMAIN snapshot}
<1>1. PICK S \in Taken(c) :
         /\ Accepted(S, c)
         /\ import' = [by |-> c, batch |-> [id \in S |-> Prepared(id, c)], owed |-> owed]
  BY DEF PrepareSnapshotImport
<1>2. /\ S \subseteq DOMAIN snapshot /\ S \subseteq used
      /\ \A i \in NewTo(c) : \E k \in S : KeyOf(snapshot[i]) = KeyOf(snapshot[k])
      /\ UNCHANGED <<rows, seen, used, snapshot, tenant, restored>>
  BY DEF PrepareSnapshotImport, Taken, NewTo, AgentTypeOK
<1>3. ASSUME NEW id \in S
      PROVE  /\ Prepared(id, c) \in AgentMems
             /\ Owned(Prepared(id, c))
             /\ tenant => References(Prepared(id, c)) \subseteq seen \cup S
  <2>1. snapshot[id] \in AgentMems
    BY <1>2 DEF AgentTypeOK
  <2> DEFINE k == Canonical(snapshot[id], c)
             p == Prepared(id, c)
  <2>2. /\ k \in AgentMems /\ k.by = c
        /\ k.rel = snapshot[id].rel /\ k.sup = snapshot[id].sup
    BY <2>1 DEF Canonical, AgentMems
  <2>3. AgentWrite(k, c) /\ MayRefer(snapshot[id], c, S)
    BY <1>1 DEF Accepted
  <2>4. p = [k EXCEPT !.rel = @ \ (Kept \ Visible(c))]
    BY DEF Prepared
  <2> HIDE DEF k, p
  <2>5. /\ p \in AgentMems /\ p.by = c /\ p.scope = k.scope /\ p.access = k.access
        /\ p.rel \subseteq k.rel /\ p.sup = k.sup
    BY <2>2, <2>4 DEF AgentMems
  <2>6. Owned(p)
    BY <2>2, <2>3, <2>5 DEF Owned, AgentWrite, CanRead, Callers
  <2>7. tenant => References(p) \subseteq seen \cup S
    BY <2>2, <2>3, <2>5 DEF MayRefer, References, Visible, AllKnown
  <2> QED BY <2>5, <2>6, <2>7 DEF p
<1> DEFINE batch == [id \in S |-> Prepared(id, c)]
<1>4. /\ DOMAIN batch = S
      /\ \A id \in S : batch[id] = Prepared(id, c)
  OBVIOUS
<1> HIDE DEF batch
<1>5. import' = [by |-> c, batch |-> batch, owed |-> owed]
  BY <1>1 DEF batch
<1>6. import'.by = c /\ import'.batch = batch /\ import'.owed = owed
  BY <1>5
<1>7. AgentTypeOK'
  BY <1>2, <1>3, <1>4, <1>5, <1>6 DEF AgentTypeOK
<1>8. AllOwned'
  BY <1>2, <1>3, <1>4, <1>6 DEF AllOwned, Kept
<1>9. AllStand'
  <2>1. \A e \in restored' : StandsFor(e, restored, Kept)'
    BY <1>2 DEF AllStand, StandsFor, Kept
  <2>2. ASSUME NEW id \in DOMAIN snapshot, NEW e, e = [id |-> id, key |-> KeyOf(snapshot[id])]
        PROVE  StandsFor(e, owed, Kept \cup S)
    <3>0. e.id = id /\ e.key = KeyOf(snapshot[id])
      BY <2>2
    <3>1. CASE id \in Visible(c)
      BY <3>0, <3>1 DEF Visible, StandsFor
    <3>2. CASE KeyOf(snapshot[id]) \in {KeyOf(rows[i]) : i \in Visible(c)}
      BY <3>0, <3>2 DEF Visible, StandsFor
    <3>3. CASE id \in NewTo(c)
      <4>1. PICK k \in S : KeyOf(snapshot[id]) = KeyOf(snapshot[k])
        BY <1>2, <3>3
      <4>2. [id |-> k, key |-> KeyOf(snapshot[k])] \in owed
        BY <1>2
      <4> QED BY <3>0, <4>1, <4>2 DEF StandsFor
    <3> QED BY <3>1, <3>2, <3>3 DEF NewTo
  <2>3. Kept' = Kept /\ rows' = rows
    BY <1>2 DEF Kept
  <2>4. \A e \in owed : StandsFor(e, owed, Kept \cup S)
    BY <2>2
  <2> HIDE DEF owed
  <2>5. Owed' = {} \/ (Owed' = owed /\ InFlight' = S)
    BY <1>4, <1>6 DEF Owed, InFlight
  <2>6. \A e \in Owed' : StandsFor(e, Owed, Kept \cup InFlight)'
    BY <2>3, <2>4, <2>5 DEF StandsFor
  <2> QED BY <2>1, <2>6 DEF AllStand
<1>10. AllKnown'
  BY <1>2, <1>3, <1>4, <1>6 DEF AllKnown, Kept
<1> QED BY <1>7, <1>8, <1>9, <1>10

\* The batch of an import lands, among what has changed since its preflight.
LEMMA ImportKeeps ==
    ASSUME AgentInv, ImportSnapshot
    PROVE  AgentInv'
<1> USE DEF AgentInv
<1>1. CASE UNCHANGED <<rows, seen, restored>>
  <2>1. /\ import' = NoImport /\ UNCHANGED <<used, snapshot, tenant>>
        /\ Kept' = Kept /\ Owed' = {}
    BY <1>1 DEF ImportSnapshot, Kept, Owed
  <2>2. AgentTypeOK'
    BY <1>1, <2>1 DEF AgentTypeOK
  <2>3. AllOwned' /\ AllKnown'
    BY <1>1, <2>1 DEF AllOwned, AllKnown
  <2>4. AllStand'
    BY <1>1, <2>1 DEF AllStand, StandsFor
  <2> QED BY <2>2, <2>3, <2>4
<1>2. CASE LET landing == Landing(import.batch)
           IN /\ rows' = [id \in AgentIds |-> IF id \in landing THEN import.batch[id] ELSE rows[id]]
              /\ seen' = seen \cup landing
              /\ restored' = restored \cup import.owed
  <2> DEFINE landing == Landing(import.batch)
  <2>1. /\ import # NoImport /\ import' = NoImport /\ UNCHANGED <<used, snapshot, tenant>>
        /\ InFlight = DOMAIN import.batch /\ Owed = import.owed /\ Owed' = {}
    BY DEF ImportSnapshot, InFlight, Owed
  <2>2. /\ landing \subseteq AgentIds /\ landing \subseteq used
        /\ landing = InFlight \ Kept
        /\ \A id \in landing : import.batch[id] \in AgentMems
    BY <2>1 DEF Landing, AgentTypeOK
  <2>3. /\ rows' = [id \in AgentIds |-> IF id \in landing THEN import.batch[id] ELSE rows[id]]
        /\ seen' = seen \cup landing
        /\ restored' = restored \cup import.owed
    BY <1>2
  <2> HIDE DEF landing
  <2>4. /\ Kept' = Kept \cup InFlight
        /\ \A id \in Kept : rows'[id] = rows[id]
        /\ \A id \in landing : rows'[id] = import.batch[id]
    BY <2>2, <2>3, RecordIsNoMem DEF Kept
  <2>5. AgentTypeOK'
    <3>1. rows' \in [AgentIds -> AgentMems \cup {NoRecord}]
      BY <2>2, <2>3 DEF AgentTypeOK
    <3> QED BY <2>1, <2>2, <2>3, <3>1 DEF AgentTypeOK
  <2>6. AllOwned'
    BY <2>1, <2>2, <2>4 DEF AllOwned
  <2>7. AllStand'
    <3>1. \A e \in restored : StandsFor(e, restored, Kept)
      BY DEF AllStand
    <3>2. \A e \in Owed : StandsFor(e, Owed, Kept \cup InFlight)
      BY DEF AllStand
    <3>3. restored' = restored \cup Owed
      BY <2>1, <2>3
    <3>4. \A e \in restored \cup Owed : StandsFor(e, restored, Kept)'
      BY <2>4, <3>1, <3>2, <3>3 DEF StandsFor
    <3> QED BY <2>1, <3>3, <3>4 DEF AllStand
  <2>8. AllKnown'
    <3>1. InFlight \subseteq seen'
      BY <2>2, <2>3 DEF AllKnown
    <3>2. ASSUME tenant, NEW id \in Kept' PROVE References(rows'[id]) \subseteq seen'
      BY <2>1, <2>2, <2>3, <2>4, <3>1, <3>2 DEF AllKnown
    <3> QED BY <2>1, <2>3, <2>4, <3>1, <3>2 DEF AllKnown
  <2> QED BY <2>5, <2>6, <2>7, <2>8
<1> QED BY <1>1, <1>2 DEF ImportSnapshot

LEMMA EmptyKeeps ==
    ASSUME AgentInv, EmptyStore
    PROVE  AgentInv'
<1> USE DEF AgentInv
<1>1. /\ rows' = [id \in AgentIds |-> NoRecord]
      /\ seen' = {} /\ restored' = {} /\ import = NoImport
      /\ UNCHANGED <<used, snapshot, import, tenant>>
  BY DEF EmptyStore
<1>2. Kept' = {} /\ Owed' = {}
  BY <1>1 DEF Kept, Owed
<1>3. AgentTypeOK'
  BY <1>1 DEF AgentTypeOK
<1>4. AllOwned' /\ AllStand' /\ AllKnown'
  BY <1>1, <1>2 DEF AllOwned, AllStand, AllKnown
<1> QED BY <1>3, <1>4

LEMMA IdleAgentsKeep ==
    ASSUME AgentInv, UNCHANGED agentVars
    PROVE  AgentInv'
<1> USE DEF AgentInv, agentVars
<1>1. Kept' = Kept /\ Owed' = Owed /\ InFlight' = InFlight
  BY DEF Kept, Owed, InFlight
<1>2. AgentTypeOK'
  BY DEF AgentTypeOK
<1>3. AllOwned' /\ AllKnown'
  BY <1>1 DEF AllOwned, AllKnown
<1>4. AllStand'
  BY <1>1 DEF AllStand, StandsFor
<1> QED BY <1>2, <1>3, <1>4
-----------------------------------------------------------------------------
\* Whatever calls agents make, for any number of memories, scopes and agents:
\* the owners, what stands for a snapshot and what references name.
THEOREM AgentInvariant == AgentSpec => []AgentInv
<1>1. AgentInv /\ [AgentNext]_agentVars => AgentInv'
  <2> SUFFICES ASSUME AgentInv, [AgentNext]_agentVars PROVE AgentInv'
    OBVIOUS
  <2>1. ASSUME NEW c \in Callers,
               AgentStore(c) \/ Compress(c) \/ Export(c) \/ PrepareSnapshotImport(c)
        PROVE  AgentInv'
    BY <2>1, AgentStoreKeeps, CompressKeeps, ExportKeeps, PrepareKeeps
  <2>2. ASSUME NEW c \in Callers, NEW id \in AgentIds,
               Update(c, id) \/ AgentForget(c, id) \/ Relate(c, id)
        PROVE  AgentInv'
    BY <2>2, AgentUpdateKeeps, ForgetKeeps, RelateKeeps
  <2>3. CASE ImportSnapshot \/ EmptyStore
    BY <2>3, ImportKeeps, EmptyKeeps
  <2>4. CASE UNCHANGED agentVars
    BY <2>4, IdleAgentsKeep
  <2> QED BY <2>1, <2>2, <2>3, <2>4 DEF AgentNext, AgentStep
<1> QED BY <1>1, AgentInitial, PTL DEF AgentSpec

\* Agents (service.ts in agent mode, agent.ts): a private memory has a reader, an
\* import that succeeds restores its snapshot, and within a tenant a reference
\* names what was in its store.
THEOREM AgentsAreServedTheorem == AgentSpec => []AgentsAreServed
<1>1. AgentInv => AgentsAreServed
  BY DEF AgentInv, AllOwned, Owned, AllStand, StandsFor, AllKnown,
         AgentsAreServed, PrivateHasItsReader, SnapshotIsRestored, ReferencesWereThere
<1> QED BY <1>1, AgentInvariant, PTL

-----------------------------------------------------------------------------
(* The pages of a list.                                                    *)

Places == [stamp : Nat, id : Int]

PagingTypeOK ==
    /\ memories \in [ListIds -> [stamp : Nat, visible : BOOLEAN]]
    /\ cursor \in Places /\ now \in Nat
    /\ given \in [ListIds -> Nat]
    /\ state \in {"walking", "done"}

\* The memories nobody has touched and everybody sees.
Steady == {i \in ListIds \ touched : memories[i].visible}

\* Those that the cursor has passed were given once, the others not yet.
CursorDivides ==
    \A i \in Steady :
        IF state = "done" THEN given[i] = 1
        ELSE given[i] = IF After(Entry(i), cursor) THEN 0 ELSE 1

PagingInv == PagingTypeOK /\ CursorDivides

\* The order of the list: nothing comes after itself, and the rest is transitive.
LEMMA AfterIsAnOrder ==
    ASSUME NEW l \in Places, NEW m \in Places, NEW n \in Places
    PROVE  /\ ~After(l, l)
           /\ After(l, m) /\ After(m, n) => After(l, n)
           /\ l = m \/ After(l, m) \/ After(m, l)
  BY DEF Places, After

LEMMA ListedPlaces ==
    ASSUME PagingTypeOK
    PROVE  /\ Listed \subseteq Places /\ IsFiniteSet(Listed)
           /\ \A i \in ListIds : Entry(i) \in Places
           /\ \A i \in ListIds : Entry(i) \in Listed => memories[i].visible
           /\ \A i \in ListIds : memories[i].visible => Entry(i) \in Listed
<1> DEFINE shown == {j \in ListIds : memories[j].visible}
<1>1. \A i \in ListIds : Entry(i) \in Places /\ Entry(i).id = i
  BY PagingAssumption DEF PagingTypeOK, Places, Entry
<1>2. IsFiniteSet(shown)
  BY PagingAssumption, FS_Subset
<1>3. IsFiniteSet({Entry(i) : i \in shown})
  <2> DEFINE T == {Entry(i) : i \in shown}
             f == [i \in shown |-> Entry(i)]
  <2>1. f \in Surjection(shown, T)
    BY DEF Surjection
  <2> HIDE DEF f, T, shown
  <2>2. IsFiniteSet(T)
    BY <1>2, <2>1, FS_Surjection
  <2> QED BY <2>2 DEF T
<1> QED BY <1>1, <1>3 DEF Listed

LEMMA PagingInitial == PagingInit => PagingInv
<1> SUFFICES ASSUME PagingInit PROVE PagingInv
  OBVIOUS
<1>1. memories \in [ListIds -> [stamp : {0, 1, 2}, visible : BOOLEAN]]
  <2>1. /\ Absent \in [stamp : {0, 1, 2}, visible : BOOLEAN]
        /\ [stamp : {1, 2}, visible : {TRUE}] \subseteq [stamp : {0, 1, 2}, visible : BOOLEAN]
    BY DEF Absent
  <2> QED BY <2>1 DEF PagingInit
<1>2. /\ now = 2 /\ cursor = [stamp |-> MaxStamp + 1, id |-> 0]
      /\ given = [i \in ListIds |-> 0] /\ state = "walking"
      /\ MaxStamp \in Nat /\ MaxStamp >= 2
  BY PagingAssumption DEF PagingInit, First
<1>3. PagingTypeOK
  <2>1. memories \in [ListIds -> [stamp : Nat, visible : BOOLEAN]]
    BY <1>1
  <2>2. cursor \in Places
    BY <1>2 DEF Places
  <2> QED BY <1>2, <2>1, <2>2 DEF PagingTypeOK
<1>4. ASSUME NEW i \in Steady PROVE After(Entry(i), cursor)
  <2>1. memories[i].stamp \in {0, 1, 2}
    BY <1>1 DEF Steady
  <2> QED BY <1>2, <2>1 DEF After, Entry
<1> QED BY <1>2, <1>3, <1>4 DEF PagingInv, CursorDivides, Steady

\* A page takes the first of what the cursor has left.
LEMMA PageKeeps ==
    ASSUME PagingInv, NEW limit \in Limits, Page(limit)
    PROVE  PagingInv'
<1> USE DEF PagingInv
<1> DEFINE rest == {m \in Listed : After(m, cursor)}
<1>1. PICK page \in SUBSET rest :
         /\ Cardinality(page) = IF limit < Cardinality(rest) THEN limit ELSE Cardinality(rest)
         /\ \A m \in page, n \in rest \ page : ~After(m, n)
         /\ given' = [i \in ListIds |-> given[i] + (IF Entry(i) \in page THEN 1 ELSE 0)]
         /\ IF page \notin {{}, rest}
            THEN /\ \E m \in page : (\A n \in page : ~After(n, m)) /\ cursor' = m
                 /\ UNCHANGED state
            ELSE state' = "done" /\ UNCHANGED cursor
  BY DEF Page
<1>2. /\ state = "walking" /\ UNCHANGED <<memories, now, touched>>
      /\ rest \subseteq Places /\ IsFiniteSet(rest) /\ page \subseteq rest
      /\ limit \in Nat /\ limit # 0
  BY ListedPlaces, FS_Subset, PagingAssumption DEF Page
<1>3. /\ Steady' = Steady
      /\ \A i \in ListIds : Entry(i)' = Entry(i)
  BY <1>2 DEF Steady, Entry
<1>4. ASSUME NEW i \in Steady
      PROVE  /\ given'[i] = given[i] + (IF Entry(i) \in page THEN 1 ELSE 0)
             /\ Entry(i) \in Places
             /\ Entry(i) \in rest <=> After(Entry(i), cursor)
             /\ given[i] = IF After(Entry(i), cursor) THEN 0 ELSE 1
  BY <1>1, <1>2, ListedPlaces DEF Steady, CursorDivides
<1>5. given' \in [ListIds -> Nat]
  <2>1. \A i \in ListIds : given[i] + (IF Entry(i) \in page THEN 1 ELSE 0) \in Nat
    BY DEF PagingTypeOK
  <2> QED BY <1>1, <2>1
<1> HIDE DEF rest
<1>6. CASE page \notin {{}, rest}
  <2>1. PICK last \in page : (\A n \in page : ~After(n, last)) /\ cursor' = last
    BY <1>1, <1>6
  <2>2. last \in Places /\ last \in rest /\ cursor \in Places /\ state' = "walking"
    BY <1>1, <1>2, <1>6, <2>1 DEF PagingTypeOK
  <2>3. After(last, cursor)
    BY <2>2 DEF rest
  <2>4. ASSUME NEW i \in Steady
        PROVE  given'[i] = IF After(Entry(i), last) THEN 0 ELSE 1
    <3>1. CASE Entry(i) \in page
      BY <1>2, <1>4, <2>1, <3>1
    <3>2. CASE Entry(i) \in rest \ page
      <4>1. Entry(i) # last /\ ~After(last, Entry(i))
        BY <1>1, <2>1, <3>2
      <4>2. After(Entry(i), last)
        BY <1>4, <2>2, <4>1, AfterIsAnOrder
      <4> QED BY <1>4, <3>2, <4>2
    <3>3. CASE Entry(i) \notin rest
      <4>1. ~After(Entry(i), last)
        BY <1>4, <2>2, <2>3, <3>3, AfterIsAnOrder
      <4> QED BY <1>2, <1>4, <3>3, <4>1
    <3> QED BY <3>1, <3>2, <3>3
  <2>5. CursorDivides'
    BY <1>3, <2>1, <2>2, <2>4 DEF CursorDivides, Steady
  <2>6. PagingTypeOK'
    BY <1>2, <1>5, <2>1, <2>2 DEF PagingTypeOK
  <2> QED BY <2>5, <2>6
<1>7. CASE page \in {{}, rest}
  <2>1. page = rest
    <3> SUFFICES ASSUME page = {} PROVE rest = {}
      BY <1>7
    <3>1. Cardinality(page) = 0 /\ Cardinality(rest) \in Nat
      BY <1>2, FS_EmptySet, FS_CardinalityType
    <3>2. Cardinality(rest) = 0
      BY <1>1, <1>2, <3>1
    <3> QED BY <1>2, <3>2, FS_EmptySet
  <2>2. state' = "done" /\ cursor' = cursor
    BY <1>1, <1>7
  <2>3. \A i \in Steady : given'[i] = 1
    BY <1>4, <2>1
  <2>4. CursorDivides'
    BY <1>3, <2>2, <2>3 DEF CursorDivides
  <2>5. PagingTypeOK'
    BY <1>2, <1>5, <2>2 DEF PagingTypeOK
  <2> QED BY <2>4, <2>5
<1> QED BY <1>6, <1>7

\* What others do to a memory takes it from those nobody has touched.
LEMMA RewriteKeeps ==
    ASSUME PagingInv, NEW i \in ListIds, NEW m \in [stamp : Nat, visible : BOOLEAN], Rewrite(i, m)
    PROVE  PagingInv'
<1>1. PagingTypeOK'
  BY DEF PagingInv, PagingTypeOK, Rewrite
<1>2. /\ Steady' \subseteq Steady
      /\ \A k \in Steady' : Entry(k)' = Entry(k)
  BY DEF PagingInv, PagingTypeOK, Rewrite, Steady, Entry
<1>3. CursorDivides'
  BY <1>2 DEF PagingInv, CursorDivides, Rewrite
<1> QED BY <1>1, <1>3 DEF PagingInv
-----------------------------------------------------------------------------
\* For any list, page size and sequence of changes: a walk has given a memory
\* that nobody touched exactly if its cursor has passed it.
THEOREM PagingInvariant == PagingSpec => []PagingInv
<1>1. PagingInv /\ [PagingNext]_pagingVars => PagingInv'
  <2> SUFFICES ASSUME PagingInv, [PagingNext]_pagingVars PROVE PagingInv'
    OBVIOUS
  <2>1. ASSUME NEW l \in Limits, Page(l) PROVE PagingInv'
    BY <2>1, PageKeeps
  <2>2. ASSUME NEW i \in ListIds, Change(i) PROVE PagingInv'
    <3>1. [stamp |-> now, visible |-> TRUE] \in [stamp : Nat, visible : BOOLEAN]
      BY DEF PagingInv, PagingTypeOK
    <3> QED BY <2>2, <3>1, RewriteKeeps DEF Change
  <2>3. ASSUME NEW i \in ListIds, ForgetListed(i) PROVE PagingInv'
    <3>1. Absent \in [stamp : Nat, visible : BOOLEAN]
      BY DEF Absent
    <3> QED BY <2>3, <3>1, RewriteKeeps DEF ForgetListed
  <2>4. ASSUME NEW i \in ListIds, Hide(i) PROVE PagingInv'
    <3>1. [memories[i] EXCEPT !.visible = FALSE] \in [stamp : Nat, visible : BOOLEAN]
      BY DEF PagingInv, PagingTypeOK
    <3> QED BY <2>4, <3>1, RewriteKeeps DEF Hide
  <2>5. CASE ClockMoves \/ UNCHANGED pagingVars
    <3>1. PagingTypeOK'
      BY <2>5 DEF ClockMoves, pagingVars, PagingInv, PagingTypeOK
    <3>2. CursorDivides'
      BY <2>5 DEF ClockMoves, pagingVars, PagingInv, CursorDivides, Steady, Entry
    <3> QED BY <3>1, <3>2 DEF PagingInv
  <2> QED BY <2>1, <2>2, <2>3, <2>4, <2>5 DEF PagingNext
<1> QED BY <1>1, PagingInitial, PTL DEF PagingSpec

\* A memory nobody touches while a client walks through list() is on exactly one
\* page (compareMemoryDescending() and the cursor of the last memory given).
THEOREM UntouchedOnceTheorem == PagingSpec => []UntouchedOnce
<1>1. PagingInv => UntouchedOnce
  BY DEF PagingInv, CursorDivides, Steady, UntouchedOnce
<1> QED BY <1>1, PagingInvariant, PTL

-----------------------------------------------------------------------------
(* The SDK and its batches.                                                *)

Errors == [kind : {"error"}, status : {"refused", "unavailable"}]
BatchAnswers ==
    [kind : {"answer"}, op : {call.op}, oks : Seq(BOOLEAN), requested : Nat, succeeded : Nat, failed : Nat,
     idempotency : {"stored", "replayed", "unsupported", "read-only"}, policy : {"per-item", "read-only"}]
Handlings == [pc : {"none", "sent", "dropped", "running", "answered"}, results : Seq(ItemOutcomes),
              answer : BatchAnswers \cup Errors \cup {None}]

SdkTypeOK ==
    /\ call \in SdkCalls
    /\ client \in {"start", "send", "wait", "backoff", "end"}
    /\ attempt \in Nat /\ tries \in Nat /\ issues \in 1 .. MaxIssues
    /\ aborted \in BOOLEAN
    /\ server \in [Attempts -> Handlings]
    /\ claim \in [state : {"free", "running", "stored"}, answer : BatchAnswers \cup {None}]
    /\ effects \in [1 .. call.items -> Nat]

\* Only a call that may be sent is, and how often: a keyed one as often as it was
\* issued, another as often as it was tried.
AttemptsFit ==
    /\ client \in {"send", "wait", "backoff"} \/ attempt > 0 => Sendable(call)
    /\ client \in {"send", "wait", "backoff"} => tries > 0
    /\ client = "wait" => attempt > 0
    /\ call.keyed => /\ client # "backoff" /\ tries <= 1
                     /\ attempt <= issues
                     /\ client \in {"start", "send"} => attempt < issues
    /\ ~call.keyed => /\ issues = 1
                      /\ attempt <= tries /\ tries <= call.attempts
                      /\ client = "start" => tries = 0
                      /\ client = "send" => attempt < tries
                      /\ client = "backoff" => tries < call.attempts
    /\ \A a \in Attempts : a > attempt => server[a].pc = "none"
    /\ \A a \in Attempts : server[a].pc \in {"none", "sent"} => server[a].results = <<>>

Writing == {a \in Attempts : server[a].pc = "running"}
Items   == 1 .. call.items
Frozen  == IF call.keyed THEN claim.state = "stored"
           ELSE \A a \in Attempts : server[a].pc \notin {"sent", "running"}

\* What attempt a has done of its items, and nothing else has.
Progress(a) ==
    LET results == server[a].results
    IN /\ Len(results) <= call.items
       /\ \A i \in Items : IF i > Len(results) THEN effects[i] = 0
                           ELSE /\ effects[i] <= 1
                                /\ results[i] = "ok" => effects[i] = 1
                                /\ results[i] = "releasable" => effects[i] = 0

OneWrites ==
    IF call.op \in Mutations
    THEN /\ \A i \in Items : effects[i] <= 1
         /\ \A a \in Writing : Progress(a) /\ \A b \in Writing : a = b
         /\ call.keyed => /\ Writing # {} => claim.state = "running"
                          /\ claim.state = "free" => \A i \in Items : effects[i] = 0
                          /\ claim.state = "stored" => \A i \in Items : effects[i] = 1
         /\ ~call.keyed => /\ \A a \in Attempts : server[a].pc # "none" => a = 1
                           /\ server[1].pc \in {"none", "sent"} => \A i \in Items : effects[i] = 0
    ELSE /\ \A i \in Items : effects[i] = 0
         /\ \A a \in Writing : Len(server[a].results) <= call.items

\* An answer is one the SDK takes, and stays true.
StaysTrue(oks) == call.op \in Mutations => Frozen /\ \A i \in Items : oks[i] => effects[i] = 1
AnswersHold ==
    /\ claim.state = "stored" => claim.answer \in BatchAnswers /\ IsBatchResponse(call, claim.answer)
    /\ \A a \in Attempts : server[a].pc = "answered" =>
          LET r == server[a].answer
          IN \/ r \in Errors
             \/ r \in BatchAnswers /\ IsBatchResponse(call, r) /\ StaysTrue(r.oks)
    /\ client # "end" => outcome = None
    /\ outcome # None => /\ outcome.kind # "invalid"
                         /\ outcome.kind = "answer" => StaysTrue(outcome.oks)

SdkInv == SdkTypeOK /\ AttemptsFit /\ OneWrites /\ AnswersHold

LEMMA CallFacts ==
    ASSUME SdkTypeOK
    PROVE  /\ call.items \in Nat /\ call.attempts \in 1 .. 3 /\ MaxIssues \in Nat
           /\ call.keyed \in BOOLEAN
           /\ 1 \in Attempts /\ 1 .. 3 \subseteq Attempts /\ 1 .. MaxIssues \subseteq Attempts
           /\ Attempts \subseteq Nat
  BY SdkAssumption DEF SdkTypeOK, Attempts

\* A keyed call changes something; what changes something is tried once.
LEMMA SendableFacts ==
    ASSUME SdkTypeOK, Sendable(call)
    PROVE  /\ call.keyed => call.op \in Mutations
           /\ call.op \in Mutations => call.attempts = 1
  BY CallFacts DEF Sendable, MayRetry, MayBeKeyed, Mutations

LEMMA AttemptsAreHandled ==
    ASSUME SdkTypeOK, AttemptsFit
    PROVE  /\ client = "wait" => attempt \in Attempts
           /\ client = "send" => attempt + 1 \in Attempts
<1>0. call.keyed \in BOOLEAN /\ attempt \in Nat /\ tries \in Nat /\ issues \in 1 .. MaxIssues
  BY CallFacts DEF SdkTypeOK
<1>1. CASE call.keyed
  BY <1>0, <1>1, CallFacts DEF AttemptsFit
<1>2. CASE ~call.keyed
  <2>1. client = "wait" => attempt \in 1 .. 3
    BY <1>0, <1>2, CallFacts DEF AttemptsFit
  <2>2. client = "send" => attempt + 1 \in 1 .. 3
    BY <1>0, <1>2, CallFacts DEF AttemptsFit
  <2> QED BY <2>1, <2>2, CallFacts
<1> QED BY <1>1, <1>2

LEMMA SdkInitial == SdkInit => SdkInv
<1> SUFFICES ASSUME SdkInit PROVE SdkInv
  OBVIOUS
<1>0. call \in SdkCalls /\ call.items \in Nat /\ call.attempts \in 1 .. 3 /\ MaxIssues \in Nat \ {0}
  BY SdkAssumption DEF SdkInit
<1>1. SdkTypeOK
  <2>1. NotSent \in Handlings /\ NoClaim \in [state : {"free", "running", "stored"}, answer : BatchAnswers \cup {None}]
    BY DEF NotSent, Handlings, NoClaim
  <2>2. issues \in 1 .. MaxIssues
    BY <1>0 DEF SdkInit
  <2> QED BY <1>0, <2>1, <2>2 DEF SdkInit, SdkTypeOK
<1>2. \A a \in Attempts : server[a].pc = "none" /\ server[a].results = <<>>
  BY DEF SdkInit, NotSent
<1>3. Writing = {}
  BY <1>2 DEF Writing
<1>4. \A i \in Items : effects[i] = 0
  BY DEF SdkInit, Items
<1>5. AttemptsFit
  BY <1>0, <1>2 DEF SdkInit, AttemptsFit
<1>6. OneWrites
  <2>1. claim.state = "free" /\ 1 \in Attempts
    BY <1>1, CallFacts DEF SdkInit, NoClaim
  <2>2. \A i \in Items : effects[i] <= 1
    BY <1>4
  <2> QED BY <1>2, <1>3, <1>4, <2>1, <2>2 DEF OneWrites
<1>7. AnswersHold
  BY <1>2 DEF SdkInit, AnswersHold, NoClaim
<1> QED BY <1>1, <1>5, <1>6, <1>7 DEF SdkInv

\* What the client does alone leaves the server's side as it is.
LEMMA ClientKeeps ==
    ASSUME SdkInv, UNCHANGED <<call, serverVars>>, AttemptsFit',
           client' \in {"start", "send", "wait", "backoff", "end"},
           attempt' \in Nat, tries' \in Nat, issues' \in 1 .. MaxIssues, aborted' \in BOOLEAN,
           client' # "end" => outcome' = None,
           outcome' # None => /\ outcome'.kind # "invalid"
                              /\ outcome'.kind = "answer" => StaysTrue(outcome'.oks)
    PROVE  SdkInv'
<1> USE DEF SdkInv, serverVars
<1>1. SdkTypeOK'
  <2>1. BatchAnswers' = BatchAnswers /\ Handlings' = Handlings
    BY DEF BatchAnswers, Handlings
  <2> QED BY <2>1 DEF SdkTypeOK
<1>2. Writing' = Writing /\ Items' = Items /\ Frozen' = Frozen
  BY DEF Writing, Items, Frozen
<1>3. OneWrites'
  BY <1>2 DEF OneWrites, Progress
<1>4. AnswersHold'
  <2>1. ASSUME NEW oks PROVE StaysTrue(oks)' = StaysTrue(oks)
    BY <1>2 DEF StaysTrue
  <2>2. /\ BatchAnswers' = BatchAnswers
        /\ \A r : IsBatchResponse(call, r)' = IsBatchResponse(call, r)
    BY DEF BatchAnswers, IsBatchResponse, Expected
  <2>3. outcome' # None => /\ outcome'.kind # "invalid"
                           /\ outcome'.kind = "answer" => StaysTrue(outcome.oks)'
    BY <2>1
  <2> QED BY <2>1, <2>2, <2>3 DEF AnswersHold
<1> QED BY <1>1, <1>3, <1>4

LEMMA BeginKeeps ==
    ASSUME SdkInv, Begin
    PROVE  SdkInv'
<1> USE DEF SdkInv
<1>0. /\ call.keyed \in BOOLEAN /\ call.attempts \in 1 .. 3
      /\ attempt \in Nat /\ tries \in Nat /\ issues \in 1 .. MaxIssues
      /\ client = "start" /\ outcome = None /\ tries' = 1
      /\ UNCHANGED <<call, attempt, issues, aborted, serverVars>>
  BY CallFacts DEF Begin, SdkTypeOK, AnswersHold
<1>1. \A a \in Attempts : server'[a] = server[a]
  BY <1>0 DEF serverVars
<1>2. CASE Sendable(call)
  <2>1. client' = "send" /\ outcome' = None
    BY <1>0, <1>2 DEF Begin
  <2>2. AttemptsFit'
    BY <1>0, <1>1, <1>2, <2>1 DEF AttemptsFit, Sendable, MayRetry, MayBeKeyed, Clean
  <2> QED BY <1>0, <2>1, <2>2, ClientKeeps DEF SdkTypeOK
<1>3. CASE ~Sendable(call)
  <2>1. client' = "end" /\ outcome' = [kind |-> "TypeError"]
    BY <1>0, <1>3 DEF Begin
  <2>2. AttemptsFit'
    BY <1>0, <1>1, <1>3, <2>1 DEF AttemptsFit, Sendable, MayRetry, MayBeKeyed, Clean
  <2> QED BY <1>0, <2>1, <2>2, ClientKeeps DEF SdkTypeOK
<1> QED BY <1>2, <1>3

\* A failed attempt ends the request, or is repeated if that is allowed.
LEMMA FailedKeeps ==
    ASSUME SdkInv, client = "wait",
           NEW error \in {"network", "timeout", "unavailable", "refused"}, Failed(error),
           UNCHANGED <<call, attempt, tries, issues, aborted, serverVars>>
    PROVE  SdkInv'
<1> USE DEF SdkInv
<1>0. /\ call.keyed \in BOOLEAN /\ call.attempts \in 1 .. 3
      /\ attempt \in Nat /\ tries \in Nat /\ tries > 0 /\ issues \in 1 .. MaxIssues
      /\ outcome = None /\ Sendable(call)
  BY CallFacts DEF SdkTypeOK, AnswersHold, AttemptsFit
<1>1. \A a \in Attempts : server'[a] = server[a]
  BY DEF serverVars
<1>2. Sendable(call)'
  BY <1>0 DEF Sendable, MayRetry, MayBeKeyed, Clean
<1>3. CASE tries >= call.attempts \/ ~Retryable(error)
  <2>1. client' = "end" /\ outcome' = [kind |-> error]
    BY <1>3 DEF Failed
  <2>2. AttemptsFit'
    BY <1>0, <1>1, <1>2, <2>1 DEF AttemptsFit
  <2> QED BY <1>0, <2>1, <2>2, ClientKeeps DEF SdkTypeOK
<1>4. CASE ~(tries >= call.attempts \/ ~Retryable(error))
  <2>1. client' = "backoff" /\ outcome' = outcome
    BY <1>4 DEF Failed
  <2>2. ~call.keyed
    BY <1>0, <1>4, SendableFacts
  <2>3. AttemptsFit'
    BY <1>0, <1>1, <1>2, <1>4, <2>1, <2>2 DEF AttemptsFit
  <2> QED BY <1>0, <2>1, <2>3, ClientKeeps DEF SdkTypeOK
<1> QED BY <1>3, <1>4

\* The request ends.
LEMMA EndedKeeps ==
    ASSUME SdkInv, client \in {"wait", "send", "backoff"}, client' = "end",
           outcome'.kind # "invalid",
           outcome'.kind = "answer" => StaysTrue(outcome'.oks),
           UNCHANGED <<call, attempt, tries, issues, aborted, serverVars>>
    PROVE  SdkInv'
<1> USE DEF SdkInv
<1>0. /\ call.keyed \in BOOLEAN /\ call.attempts \in 1 .. 3
      /\ attempt \in Nat /\ tries \in Nat /\ issues \in 1 .. MaxIssues /\ Sendable(call)
  BY CallFacts DEF SdkTypeOK, AttemptsFit
<1>1. \A a \in Attempts : server'[a] = server[a]
  BY DEF serverVars
<1>2. Sendable(call)'
  BY <1>0 DEF Sendable, MayRetry, MayBeKeyed, Clean
<1>3. AttemptsFit'
  BY <1>0, <1>1, <1>2 DEF AttemptsFit
<1> QED BY <1>0, <1>3, ClientKeeps DEF SdkTypeOK

LEMMA ReceiveKeeps ==
    ASSUME SdkInv, Receive
    PROVE  SdkInv'
<1> USE DEF SdkInv
<1> DEFINE r == server[attempt].answer
<1>1. /\ client = "wait" /\ attempt \in Attempts /\ server[attempt].pc = "answered"
      /\ UNCHANGED <<call, attempt, tries, issues, aborted, serverVars>>
  BY AttemptsAreHandled DEF Receive
<1>2. \/ r \in Errors
      \/ r \in BatchAnswers /\ IsBatchResponse(call, r) /\ StaysTrue(r.oks)
  BY <1>1 DEF AnswersHold
<1>3. CASE r \in Errors
  <2>1. r.status \in {"refused", "unavailable"} /\ Failed(r.status)
    BY <1>3 DEF Receive, Errors
  <2> QED BY <1>1, <2>1, FailedKeeps
<1>4. CASE r \in BatchAnswers /\ IsBatchResponse(call, r) /\ StaysTrue(r.oks)
  <2>1. r.kind = "answer"
    BY <1>4 DEF BatchAnswers
  <2>2. client' = "end" /\ outcome' = [kind |-> "answer", oks |-> r.oks]
    BY <1>4, <2>1 DEF Receive
  <2> QED BY <1>1, <1>4, <2>2, EndedKeeps
<1> QED BY <1>2, <1>3, <1>4

LEMMA LoseKeeps ==
    ASSUME SdkInv, Lose
    PROVE  SdkInv'
<1>1. client = "wait" /\ UNCHANGED <<call, attempt, tries, issues, aborted, serverVars>>
  BY DEF Lose
<1>2. CASE Failed("network") \/ Failed("timeout")
  BY <1>1, <1>2, FailedKeeps
<1>3. CASE client' = "end" /\ outcome' = [kind |-> "AbortError"]
  BY <1>1, <1>3, EndedKeeps
<1> QED BY <1>2, <1>3 DEF Lose

LEMMA BackoffKeeps ==
    ASSUME SdkInv, Backoff
    PROVE  SdkInv'
<1> USE DEF SdkInv
<1>0. /\ client = "backoff" /\ outcome = None
      /\ call.keyed \in BOOLEAN /\ call.attempts \in 1 .. 3 /\ ~call.keyed
      /\ attempt \in Nat /\ tries \in Nat /\ issues \in 1 .. MaxIssues /\ Sendable(call)
      /\ UNCHANGED <<call, attempt, issues, aborted, serverVars>>
  BY CallFacts DEF SdkTypeOK, AttemptsFit, AnswersHold, Backoff
<1>1. CASE aborted
  BY <1>0, <1>1, EndedKeeps DEF Backoff
<1>2. CASE ~aborted
  <2>1. client' = "send" /\ tries' = tries + 1 /\ outcome' = outcome
    BY <1>2 DEF Backoff
  <2>2. \A a \in Attempts : server'[a] = server[a]
    BY <1>0 DEF serverVars
  <2>3. Sendable(call)'
    BY <1>0 DEF Sendable, MayRetry, MayBeKeyed, Clean
  <2>4. AttemptsFit'
    BY <1>0, <2>1, <2>2, <2>3 DEF AttemptsFit
  <2> QED BY <1>0, <2>1, <2>4, ClientKeeps DEF SdkTypeOK
<1> QED BY <1>1, <1>2

LEMMA AbortKeeps ==
    ASSUME SdkInv, Abort
    PROVE  SdkInv'
<1> USE DEF SdkInv
<1>1. AttemptsFit'
  BY DEF AttemptsFit, Abort, serverVars, Sendable, MayRetry, MayBeKeyed, Clean
<1>2. outcome' # None => /\ outcome'.kind # "invalid"
                         /\ outcome'.kind = "answer" => StaysTrue(outcome'.oks)
  BY DEF AnswersHold, Abort
<1> QED BY <1>1, <1>2, ClientKeeps DEF Abort, SdkTypeOK, AnswersHold

LEMMA ReissueKeeps ==
    ASSUME SdkInv, Reissue
    PROVE  SdkInv'
<1> USE DEF SdkInv
<1>0. /\ call.keyed /\ issues \in 1 .. MaxIssues /\ attempt \in Nat /\ tries \in Nat /\ MaxIssues \in Nat
      /\ issues < MaxIssues /\ client = "end"
      /\ client' = "start" /\ issues' = issues + 1 /\ outcome' = None /\ aborted' = FALSE
      /\ UNCHANGED <<call, attempt, tries, serverVars>>
  BY CallFacts DEF SdkTypeOK, Reissue
<1>1. AttemptsFit'
  <2>1. \A a \in Attempts : server'[a] = server[a]
    BY <1>0 DEF serverVars
  <2>2. attempt' > 0 => Sendable(call)'
    BY <1>0 DEF AttemptsFit, Sendable, MayRetry, MayBeKeyed, Clean
  <2> QED BY <1>0, <2>1, <2>2 DEF AttemptsFit
<1>2. issues' \in 1 .. MaxIssues
  BY <1>0
<1> QED BY <1>0, <1>1, <1>2, ClientKeeps

LEMMA AnsweredIs ==
    ASSUME SdkTypeOK, NEW a \in Attempts, NEW r \in BatchAnswers \cup Errors, Answered(a, r)
    PROVE  /\ server' \in [Attempts -> Handlings]
           /\ \A b \in Attempts \ {a} : server'[b] = server[b]
           /\ server'[a].pc = "answered" /\ server'[a].answer = r
           /\ server'[a].results = server[a].results
<1> DEFINE w == [server[a] EXCEPT !.pc = "answered", !.answer = r]
<1>1. server[a] \in Handlings
  BY DEF SdkTypeOK
<1>2. /\ w \in Handlings
      /\ w.pc = "answered" /\ w.answer = r /\ w.results = server[a].results
  BY <1>1 DEF Handlings
<1>3. server' = [server EXCEPT ![a] = w]
  BY <1>1 DEF Answered, SdkTypeOK
<1> HIDE DEF w
<1> QED BY <1>2, <1>3 DEF SdkTypeOK

\* What the server does with attempt a: a request is there, what was answered
\* stays true, and so does what one item's writes are.
LEMMA ServerKeeps ==
    ASSUME SdkInv, UNCHANGED clientVars,
           NEW a \in Attempts, server[a].pc # "none", server'[a].pc \notin {"none", "sent"},
           server' \in [Attempts -> Handlings],
           \A b \in Attempts \ {a} : server'[b] = server[b],
           claim' \in [state : {"free", "running", "stored"}, answer : BatchAnswers \cup {None}],
           effects' \in [1 .. call.items -> Nat],
           \A oks : StaysTrue(oks) => StaysTrue(oks)',
           claim'.state = "stored" => claim'.answer \in BatchAnswers /\ IsBatchResponse(call, claim'.answer),
           server'[a].pc = "answered" =>
              \E r : /\ r = server'[a].answer
                     /\ \/ r \in Errors
                        \/ r \in BatchAnswers /\ IsBatchResponse(call, r) /\ StaysTrue(r.oks)',
           OneWrites'
    PROVE  SdkInv'
<1> USE DEF SdkInv, clientVars
<1>1. /\ BatchAnswers' = BatchAnswers /\ Handlings' = Handlings
      /\ \A r : IsBatchResponse(call, r)' = IsBatchResponse(call, r)
  BY DEF BatchAnswers, Handlings, IsBatchResponse, Expected
<1>2. SdkTypeOK'
  BY <1>1 DEF SdkTypeOK
<1>3. AttemptsFit'
  <2>1. Sendable(call)' = Sendable(call)
    BY DEF Sendable, MayRetry, MayBeKeyed, Clean
  <2>2. \A b \in Attempts : b > attempt => server'[b].pc = "none"
    BY DEF AttemptsFit
  <2>3. \A b \in Attempts : server'[b].pc \in {"none", "sent"} => server'[b].results = <<>>
    BY DEF AttemptsFit
  <2> QED BY <2>1, <2>2, <2>3 DEF AttemptsFit
<1>4. AnswersHold'
  <2>1. ASSUME NEW b \in Attempts, server'[b].pc = "answered"
        PROVE  \E r : /\ r = server'[b].answer
                      /\ \/ r \in Errors
                         \/ r \in BatchAnswers /\ IsBatchResponse(call, r) /\ StaysTrue(r.oks)'
    <3>1. CASE b = a
      BY <2>1, <3>1
    <3>2. CASE b # a
      <4>1. server'[b] = server[b]
        BY <3>2
      <4>2. PICK r : /\ r = server[b].answer
                     /\ \/ r \in Errors
                        \/ r \in BatchAnswers /\ IsBatchResponse(call, r) /\ StaysTrue(r.oks)
        BY <2>1, <4>1 DEF AnswersHold
      <4>3. r = server'[b].answer
        BY <4>1, <4>2
      <4> QED BY <4>2, <4>3
    <3> QED BY <3>1, <3>2
  <2>2. outcome' # None => /\ outcome'.kind # "invalid"
                           /\ outcome'.kind = "answer" => StaysTrue(outcome.oks)'
    BY DEF AnswersHold
  <2>3. client' # "end" => outcome' = None
    BY DEF AnswersHold
  <2>4. Errors' = Errors
    BY DEF Errors
  <2>5. \A b \in Attempts : server'[b].pc = "answered" =>
            \/ server'[b].answer \in Errors
            \/ /\ server'[b].answer \in BatchAnswers /\ IsBatchResponse(call, server'[b].answer)
               /\ StaysTrue(server[b].answer.oks)'
    BY <2>1
  <2>6. claim'.state = "stored" => claim'.answer \in BatchAnswers /\ IsBatchResponse(call, claim'.answer)
    OBVIOUS
  <2> QED BY <1>1, <2>2, <2>3, <2>4, <2>5, <2>6 DEF AnswersHold
<1> QED BY <1>2, <1>3, <1>4

\* A request that is refused or lost has written nothing.
LEMMA RefuseKeeps ==
    ASSUME SdkInv, NEW a \in Attempts, Refuse(a) \/ Drop(a)
    PROVE  SdkInv'
<1> USE DEF SdkInv
<1>1. /\ server[a].pc = "sent" /\ UNCHANGED <<claim, effects>> /\ UNCHANGED clientVars
  BY DEF Refuse, Drop
<1>2. /\ server' \in [Attempts -> Handlings]
      /\ \A b \in Attempts \ {a} : server'[b] = server[b]
      /\ \/ server'[a].pc = "answered" /\ server'[a].answer \in Errors
         \/ server'[a].pc = "dropped"
  <2>1. CASE Refuse(a)
    <3>1. PICK status \in {"refused", "unavailable"} : Answered(a, Error(status))
      BY <2>1 DEF Refuse
    <3>2. Error(status) \in Errors
      BY DEF Error, Errors
    <3> QED BY <3>1, <3>2, AnsweredIs
  <2>2. CASE Drop(a)
    <3> DEFINE w == [server[a] EXCEPT !.pc = "dropped"]
    <3>1. w \in Handlings /\ w.pc = "dropped"
      BY DEF SdkTypeOK, Handlings
    <3>2. server' = [server EXCEPT ![a] = w]
      BY <2>2 DEF Drop, SdkTypeOK
    <3> HIDE DEF w
    <3> QED BY <3>1, <3>2 DEF SdkTypeOK
  <2> QED BY <2>1, <2>2
<1>3. Writing' = Writing /\ Items' = Items
  BY <1>1, <1>2 DEF Writing, Items, clientVars
<1>4. \A b \in Writing : server'[b] = server[b]
  BY <1>1, <1>2 DEF Writing
<1>5. OneWrites'
  <2>1. call' = call
    BY <1>1 DEF clientVars
  <2>2. 1 \in Attempts
    BY CallFacts
  <2>3. \A b \in Writing : Progress(b) => Progress(b)'
    BY <1>1, <1>3, <1>4, <2>1 DEF Progress
  <2>4. \A b \in Attempts : /\ server'[b].pc # "none" => server[b].pc # "none"
                            /\ server'[b].pc \in {"none", "sent"} => server[b].pc \in {"none", "sent"}
    BY <1>1, <1>2
  <2> QED BY <1>1, <1>3, <1>4, <2>1, <2>2, <2>3, <2>4 DEF OneWrites
<1>6. \A oks : StaysTrue(oks) => StaysTrue(oks)'
  <2>1. Frozen => Frozen'
    BY <1>1, <1>2 DEF Frozen, clientVars
  <2> QED BY <1>1, <1>3, <2>1 DEF StaysTrue, clientVars
<1>7. /\ claim' \in [state : {"free", "running", "stored"}, answer : BatchAnswers \cup {None}]
      /\ effects' \in [1 .. call.items -> Nat]
      /\ claim'.state = "stored" => claim'.answer \in BatchAnswers /\ IsBatchResponse(call, claim'.answer)
  BY <1>1 DEF SdkTypeOK, AnswersHold
<1>8. server[a].pc # "none" /\ server'[a].pc \notin {"none", "sent"}
  BY <1>1, <1>2
<1> HIDE DEF SdkInv
<1> QED BY <1>1, <1>2, <1>5, <1>6, <1>7, <1>8, ServerKeeps

\* batchSummary(): isBatchResponse() takes every answer the server makes of the
\* results of all items.
LEMMA AnswersAreExpected ==
    ASSUME SdkTypeOK, NEW results \in Seq(ItemOutcomes), Len(results) = call.items,
           NEW idempotency \in Expected(call), call.keyed => ~Unresolved(results)
    PROVE  LET r == BatchAnswer(results, idempotency)
           IN /\ r \in BatchAnswers /\ IsBatchResponse(call, r)
              /\ r.idempotency = idempotency
              /\ \A i \in Items : r.oks[i] <=> results[i] = "ok"
<1> DEFINE oks == [i \in DOMAIN results |-> results[i] = "ok"]
           good == {i \in DOMAIN oks : oks[i]}
           n == Cardinality(good)
           itemPolicy == IF call.op \in Mutations THEN "per-item" ELSE "read-only"
<1>1. call.items \in Nat /\ call.keyed \in BOOLEAN
  BY CallFacts
<1>2. DOMAIN results = Items /\ DOMAIN oks = Items
  BY <1>1 DEF Items
<1>3. oks \in [1 .. call.items -> BOOLEAN]
  BY <1>2 DEF Items
<1>4. oks \in Seq(BOOLEAN)
  BY <1>1, <1>3, SeqDef
<1>5. Len(oks) = call.items
  BY <1>1, <1>2, <1>4, LenProperties DEF Items
<1>6. IsFiniteSet(Items) /\ Cardinality(Items) = call.items
  <2>1. ASSUME NEW m \in Nat PROVE IsFiniteSet(1 .. m) /\ Cardinality(1 .. m) = m
    <3>1. 1 \in Int /\ m \in Int
      OBVIOUS
    <3>2. /\ IsFiniteSet(1 .. m)
          /\ Cardinality(1 .. m) = IF 1 > m THEN 0 ELSE m - 1 + 1
      BY ONLY <3>1, FS_Interval
    <3> QED BY <3>2
  <2> QED BY <1>1, <2>1 DEF Items
<1>7. good \subseteq Items
  BY <1>2
<1>8. n \in Nat /\ n <= call.items
  BY <1>6, <1>7, FS_Subset, FS_CardinalityType
<1>9. call.keyed => call.items - n = 0
  <2> SUFFICES ASSUME call.keyed PROVE good = Items
    <3>1. good = Items => call.items - n = 0
      <4> HIDE DEF good
      <4> QED BY <1>1, <1>6
    <3> QED BY <3>1
  <2>1. \A i \in Items : results[i] = "ok"
    BY <1>2 DEF Unresolved
  <2> QED BY <1>2, <2>1
<1>10. \A i \in Items : oks[i] <=> results[i] = "ok"
  BY <1>2
<1>11. idempotency \in {"stored", "replayed", "unsupported", "read-only"}
  BY DEF Expected
<1> DEFINE r == BatchAnswer(results, idempotency)
<1>12. r = [kind |-> "answer", op |-> call.op, oks |-> oks, requested |-> Len(oks), succeeded |-> n,
            failed |-> Len(oks) - n, idempotency |-> idempotency, policy |-> itemPolicy]
  BY DEF BatchAnswer
<1>13. itemPolicy \in {"per-item", "read-only"}
  OBVIOUS
<1>14. n = Cardinality({i \in DOMAIN oks : oks[i]})
  OBVIOUS
<1>15. itemPolicy = IF call.op \in Mutations THEN "per-item" ELSE "read-only"
  OBVIOUS
<1> HIDE DEF oks, n, itemPolicy, r
<1>16. r \in BatchAnswers
  <2>1. Len(oks) - n \in Nat /\ Len(oks) \in Nat
    BY <1>1, <1>5, <1>8
  <2> QED BY <1>4, <1>8, <1>11, <1>12, <1>13, <2>1 DEF BatchAnswers
<1>17. IsBatchResponse(call, r)
  <2>1. /\ r.op = call.op /\ r.oks = oks /\ r.requested = call.items /\ r.succeeded = n
        /\ r.failed = call.items - n /\ r.idempotency = idempotency /\ r.policy = itemPolicy
    BY <1>5, <1>12
  <2>2. n + (call.items - n) = call.items
    BY <1>1, <1>8
  <2> QED BY <1>5, <1>9, <1>14, <1>15, <2>1, <2>2 DEF IsBatchResponse
<1>18. r.oks = oks /\ r.idempotency = idempotency
  BY <1>12
<1> QED BY <1>10, <1>16, <1>17, <1>18 DEF r

\* A request that nobody has handled yet may be handled: only a call that may be
\* sent has one.
LEMMA SentFacts ==
    ASSUME SdkInv, NEW a \in Attempts, server[a].pc # "none"
    PROVE  Sendable(call)
<1>1. a <= attempt /\ a \in Nat /\ a > 0 /\ attempt \in Nat
  BY CallFacts DEF SdkInv, SdkTypeOK, AttemptsFit, Attempts
<1> QED BY <1>1 DEF SdkInv, AttemptsFit

\* claim(): the attempt starts only where nothing has been written.
LEMMA ClaimKeeps ==
    ASSUME SdkInv, NEW a \in Attempts, Claim(a)
    PROVE  SdkInv'
<1> USE DEF SdkInv
<1>1. /\ server[a].pc = "sent" /\ server[a].results = <<>> /\ Sendable(call)
      /\ call.keyed \in BOOLEAN /\ call.items \in Nat /\ 1 \in Attempts
      /\ call' = call /\ effects' = effects /\ UNCHANGED clientVars
      /\ claim.state \in {"free", "running", "stored"}
      /\ a \in Attempts /\ Items' = Items
  BY CallFacts, SentFacts DEF Claim, AttemptsFit, clientVars, SdkTypeOK, Items
<1>2. CASE /\ ~call.keyed \/ claim.state = "free"
           /\ server' = [server EXCEPT ![a].pc = "running"]
           /\ claim' = IF call.keyed THEN [claim EXCEPT !.state = "running"] ELSE claim
  <2> DEFINE w == [server[a] EXCEPT !.pc = "running"]
  <2>1. w \in Handlings /\ w.pc = "running" /\ w.results = <<>>
    BY <1>1 DEF SdkTypeOK, Handlings
  <2>2. server' = [server EXCEPT ![a] = w]
    BY <1>2 DEF SdkTypeOK
  <2> HIDE DEF w
  <2>3. /\ server' \in [Attempts -> Handlings]
        /\ \A b \in Attempts \ {a} : server'[b] = server[b]
        /\ server'[a].pc = "running" /\ server'[a].results = <<>>
    BY <2>1, <2>2 DEF SdkTypeOK
  <2>4. /\ claim' \in [state : {"free", "running", "stored"}, answer : BatchAnswers \cup {None}]
        /\ claim'.state = IF call.keyed THEN "running" ELSE claim.state
        /\ claim'.answer = claim.answer
    BY <1>1, <1>2 DEF SdkTypeOK
  <2>5. Writing' = Writing \cup {a}
    BY <2>3 DEF Writing
  <2>6. call.op \in Mutations => Writing = {} /\ \A i \in Items : effects[i] = 0
    <3>1. CASE call.keyed
      BY <1>1, <1>2, <3>1 DEF OneWrites
    <3>2. CASE ~call.keyed
      <4>1. ASSUME call.op \in Mutations PROVE a = 1 /\ \A b \in Attempts : server[b].pc # "none" => b = 1
        BY <1>1, <3>2, <4>1 DEF OneWrites
      <4>2. call.op \in Mutations => \A i \in Items : effects[i] = 0
        BY <1>1, <3>2, <4>1 DEF OneWrites
      <4>3. call.op \in Mutations => Writing = {}
        BY <1>1, <4>1 DEF Writing
      <4> QED BY <4>2, <4>3
    <3> QED BY <1>1, <3>1, <3>2
  <2>7. OneWrites'
    <3>1. CASE call.op \in Mutations
      <4>1. Writing' = {a}
        BY <2>5, <2>6, <3>1
      <4>2. Progress(a)'
        <5>1. Len(server'[a].results) = 0
          BY <2>3
        <5> QED BY <1>1, <2>6, <3>1, <5>1 DEF Progress, Items
      <4>3. \A i \in Items : effects[i] <= 1
        BY <2>6, <3>1
      <4>4. ~call.keyed => /\ \A b \in Attempts : server'[b].pc # "none" => b = 1
                           /\ server'[1].pc \notin {"none", "sent"}
        <5>1. ~call.keyed => a = 1 /\ \A b \in Attempts : server[b].pc # "none" => b = 1
          BY <1>1, <3>1 DEF OneWrites
        <5> QED BY <2>3, <5>1
      <4>5. call.keyed => claim'.state = "running"
        BY <2>4
      <4> QED BY <1>1, <3>1, <4>1, <4>2, <4>3, <4>4, <4>5 DEF OneWrites
    <3>2. CASE call.op \notin Mutations
      <4>1. \A b \in Writing' : Len(server'[b].results) <= call.items
        <5>1. Len(server'[a].results) <= call.items
          BY <1>1, <2>3
        <5>2. ASSUME NEW b \in Writing, b # a PROVE Len(server'[b].results) <= call.items
          BY <2>3, <3>2, <5>2 DEF OneWrites, Writing
        <5> QED BY <2>5, <5>1, <5>2
      <4> QED BY <1>1, <3>2, <4>1 DEF OneWrites
    <3> QED BY <3>1, <3>2
  <2>8. \A oks : StaysTrue(oks) => StaysTrue(oks)'
    <3>1. ~Frozen
      BY <1>1, <1>2 DEF Frozen
    <3> QED BY <1>1, <3>1 DEF StaysTrue
  <2>9. claim'.state = "stored" => claim'.answer \in BatchAnswers /\ IsBatchResponse(call, claim'.answer)
    BY <2>4 DEF AnswersHold
  <2> HIDE DEF SdkInv
  <2>10. /\ server[a].pc # "none" /\ server'[a].pc \notin {"none", "sent"} /\ server'[a].pc # "answered"
         /\ effects' \in [1 .. call.items -> Nat]
    BY <1>1, <2>3 DEF SdkInv, SdkTypeOK
  <2> QED BY <1>1, <2>3, <2>4, <2>7, <2>8, <2>9, <2>10, ServerKeeps
<1>3. ASSUME NEW r \in BatchAnswers \cup Errors, Answered(a, r), claim' = claim,
             r \in Errors \/ (IsBatchResponse(call, r) /\ call.keyed /\ claim.state = "stored")
      PROVE  SdkInv'
  <2>1. /\ server' \in [Attempts -> Handlings]
        /\ \A b \in Attempts \ {a} : server'[b] = server[b]
        /\ server'[a].pc = "answered" /\ server'[a].answer = r
    BY <1>3, AnsweredIs
  <2>2. Writing' = Writing /\ \A b \in Writing : server'[b] = server[b]
    BY <1>1, <2>1 DEF Writing
  <2>3. OneWrites'
    <3>1. \A b \in Writing : Progress(b) => Progress(b)'
      BY <1>1, <2>2 DEF Progress
    <3>2. \A b \in Attempts : /\ server'[b].pc # "none" => server[b].pc # "none"
                              /\ server'[b].pc \in {"none", "sent"} => server[b].pc \in {"none", "sent"}
      BY <1>1, <2>1
    <3> QED BY <1>1, <1>3, <2>2, <3>1, <3>2 DEF OneWrites
  <2>4. Frozen => Frozen'
    BY <1>1, <1>3, <2>1 DEF Frozen
  <2>5. \A oks : StaysTrue(oks) => StaysTrue(oks)'
    BY <1>1, <2>4 DEF StaysTrue
  <2>6. r \in Errors \/ StaysTrue(r.oks)'
    <3> SUFFICES ASSUME r \notin Errors PROVE \A oks : StaysTrue(oks)
      BY <2>5
    <3>1. call.keyed /\ claim.state = "stored"
      BY <1>3
    <3> QED BY <3>1 DEF StaysTrue, Frozen, OneWrites
  <2>7. /\ claim' \in [state : {"free", "running", "stored"}, answer : BatchAnswers \cup {None}]
        /\ effects' \in [1 .. call.items -> Nat]
        /\ claim'.state = "stored" => claim'.answer \in BatchAnswers /\ IsBatchResponse(call, claim'.answer)
    BY <1>1, <1>3 DEF SdkTypeOK, AnswersHold
  <2>8. server[a].pc # "none" /\ server'[a].pc \notin {"none", "sent"}
    BY <1>1, <2>1
  <2>9. \E x : /\ x = server'[a].answer
               /\ x \in Errors \/ (x \in BatchAnswers /\ IsBatchResponse(call, x) /\ StaysTrue(x.oks)')
    BY <1>3, <2>1, <2>6
  <2> HIDE DEF SdkInv
  <2> QED BY <1>1, <2>1, <2>3, <2>5, <2>7, <2>8, <2>9, ServerKeeps
<1>4. CASE ~call.keyed
  BY <1>2, <1>4 DEF Claim
<1>5. CASE call.keyed /\ claim.state = "free"
  BY <1>2, <1>5 DEF Claim
<1>6. CASE call.keyed /\ claim.state = "running"
  <2>1. Error("refused") \in Errors
    BY DEF Error, Errors
  <2>2. Answered(a, Error("refused")) /\ claim' = claim
    BY <1>6 DEF Claim
  <2> QED BY <1>3, <2>1, <2>2
<1>7. CASE call.keyed /\ claim.state = "stored"
  <2> DEFINE r == [claim.answer EXCEPT !.idempotency = "replayed"]
  <2>1. claim.answer \in BatchAnswers /\ IsBatchResponse(call, claim.answer)
    BY <1>7 DEF AnswersHold
  <2>2. /\ r \in BatchAnswers /\ r.idempotency = "replayed"
        /\ r.op = claim.answer.op /\ r.oks = claim.answer.oks /\ r.requested = claim.answer.requested
        /\ r.succeeded = claim.answer.succeeded /\ r.failed = claim.answer.failed
        /\ r.policy = claim.answer.policy
    BY <2>1 DEF BatchAnswers
  <2>3. Answered(a, r) /\ claim' = claim
    BY <1>7 DEF Claim
  <2> HIDE DEF r
  <2>4. call.op \in Mutations
    BY <1>1, <1>7, SendableFacts
  <2>5. IsBatchResponse(call, r)
    BY <1>7, <2>1, <2>2, <2>4 DEF IsBatchResponse, Expected
  <2> QED BY <1>3, <1>7, <2>2, <2>3, <2>5
<1> QED BY <1>1, <1>4, <1>5, <1>6, <1>7

\* execute(): the next item of the attempt that writes.
LEMMA ExecuteKeeps ==
    ASSUME SdkInv, NEW a \in Attempts, Execute(a)
    PROVE  SdkInv'
<1> USE DEF SdkInv
<1> DEFINE results == server[a].results
           i == Len(results) + 1
<1>1. /\ server[a].pc = "running" /\ a \in Writing
      /\ call.keyed \in BOOLEAN /\ call.items \in Nat /\ 1 \in Attempts
      /\ call' = call /\ claim' = claim /\ UNCHANGED clientVars /\ Items' = Items
      /\ results \in Seq(ItemOutcomes) /\ Len(results) \in Nat
      /\ i \in Items
  <2>1. server[a].pc = "running" /\ call' = call /\ claim' = claim /\ UNCHANGED clientVars
    BY DEF Execute, clientVars
  <2>2. results \in Seq(ItemOutcomes)
    BY DEF SdkTypeOK, Handlings
  <2>3. Len(results) \in Nat
    BY <2>2
  <2>4. call.items \in Nat /\ call.keyed \in BOOLEAN /\ 1 \in Attempts
    BY CallFacts
  <2>5. Len(results) < call.items
    BY DEF Execute
  <2>6. i \in Items
    <3> HIDE DEF results
    <3> QED BY <2>3, <2>4, <2>5 DEF Items
  <2>7. a \in Writing /\ Items' = Items
    BY <2>1 DEF Writing, Items
  <2> QED BY <2>1, <2>2, <2>3, <2>4, <2>6, <2>7
<1>2. PICK o \in ItemOutcomes, wrote \in {0, 1} :
         /\ o = "ok" => wrote = 1
         /\ o = "releasable" => wrote = 0
         /\ server' = [server EXCEPT ![a].results = Append(@, o)]
         /\ effects' = IF call.op \in Mutations THEN [effects EXCEPT ![i] = @ + wrote] ELSE effects
  BY DEF Execute, ItemOutcomes
<1> DEFINE w == [server[a] EXCEPT !.results = Append(results, o)]
<1>3. /\ w \in Handlings /\ w.pc = "running"
      /\ Len(w.results) = Len(results) + 1
      /\ w.results[i] = o /\ \A k \in 1 .. Len(results) : w.results[k] = results[k]
  <2>1. server[a] \in Handlings
    BY DEF SdkTypeOK
  <2>2. Append(results, o) \in Seq(ItemOutcomes)
    BY <1>1
  <2>3. w \in Handlings /\ w.pc = "running" /\ w.results = Append(results, o)
    BY <1>1, <2>1, <2>2 DEF Handlings
  <2>4. /\ Len(Append(results, o)) = Len(results) + 1
        /\ Append(results, o)[Len(results) + 1] = o
        /\ \A k \in 1 .. Len(results) : Append(results, o)[k] = results[k]
    <3> HIDE DEF results
    <3> QED BY <1>1, AppendProperties
  <2> QED BY <2>3, <2>4
<1>4. server' = [server EXCEPT ![a] = w]
  BY <1>2 DEF SdkTypeOK
<1> HIDE DEF w
<1>5. /\ server' \in [Attempts -> Handlings]
      /\ \A b \in Attempts \ {a} : server'[b] = server[b]
      /\ server'[a] = w
  BY <1>3, <1>4 DEF SdkTypeOK
<1>6. Writing' = Writing
  BY <1>1, <1>3, <1>5 DEF Writing
<1>7. effects' \in [1 .. call.items -> Nat]
  <2>1. effects \in [1 .. call.items -> Nat] /\ i \in 1 .. call.items
    BY <1>1 DEF SdkTypeOK, Items
  <2> HIDE DEF i
  <2>2. effects[i] + wrote \in Nat
    BY <2>1
  <2>3. CASE call.op \in Mutations
    BY <1>2, <2>1, <2>2, <2>3
  <2>4. CASE call.op \notin Mutations
    BY <1>2, <2>1, <2>4
  <2> QED BY <2>3, <2>4
<1>8. CASE call.op \in Mutations
  <2>1. Writing = {a} /\ Progress(a)
    BY <1>1, <1>8 DEF OneWrites
  <2>2. effects[i] = 0 /\ effects'[i] = wrote /\ \A k \in Items \ {i} : effects'[k] = effects[k]
    <3>1. effects \in [Items -> Nat]
      BY DEF SdkTypeOK, Items
    <3>2. effects[i] = 0
      BY <1>1, <2>1 DEF Progress
    <3> QED BY <1>1, <1>2, <1>8, <3>1, <3>2
  <2>3. Progress(a)'
    <3>1. Len(server'[a].results) = Len(results) + 1 /\ Len(results) + 1 <= call.items
      BY <1>1, <1>3, <1>5 DEF Items
    <3>2. ASSUME NEW k \in Items
          PROVE  IF k > Len(results) + 1 THEN effects'[k] = 0
                 ELSE /\ effects'[k] <= 1
                      /\ server'[a].results[k] = "ok" => effects'[k] = 1
                      /\ server'[a].results[k] = "releasable" => effects'[k] = 0
      <4>1. CASE k = i
        BY <1>1, <1>2, <1>3, <1>5, <2>2, <4>1
      <4>2. CASE k # i /\ k > Len(results)
        BY <1>1, <2>1, <2>2, <4>2 DEF Progress, Items
      <4>3. CASE k # i /\ ~(k > Len(results))
        <5>1. k \in 1 .. Len(results)
          BY <1>1, <4>3 DEF Items
        <5>2. server'[a].results[k] = results[k] /\ effects'[k] = effects[k]
          BY <1>3, <1>5, <2>2, <4>3, <5>1
        <5>3. ~(k > Len(results) + 1)
          BY <1>1, <4>3 DEF Items
        <5> QED BY <2>1, <4>3, <5>2, <5>3 DEF Progress
      <4> QED BY <4>1, <4>2, <4>3
    <3> QED BY <1>1, <3>1, <3>2 DEF Progress
  <2>4. \A k \in Items : effects'[k] <= 1
    <3>1. ASSUME NEW k \in Items PROVE effects'[k] <= 1
      <4>1. CASE k = i
        BY <1>2, <2>2, <4>1
      <4>2. CASE k # i
        BY <1>8, <2>2, <4>2 DEF OneWrites
      <4> QED BY <4>1, <4>2
    <3> QED BY <3>1
  <2>5. call.keyed => claim.state = "running"
    BY <1>1, <1>8 DEF OneWrites
  <2>6. ~call.keyed => a = 1 /\ \A b \in Attempts : server'[b].pc # "none" => b = 1
    BY <1>1, <1>3, <1>5, <1>8 DEF OneWrites
  <2>7. OneWrites'
    BY <1>1, <1>3, <1>5, <1>6, <1>8, <2>1, <2>3, <2>4, <2>5, <2>6 DEF OneWrites
  <2>8. ~Frozen
    BY <1>1, <2>5 DEF Frozen
  <2>9. \A oks : StaysTrue(oks) => StaysTrue(oks)'
    BY <1>8, <2>8 DEF StaysTrue
  <2>10. /\ claim' \in [state : {"free", "running", "stored"}, answer : BatchAnswers \cup {None}]
         /\ claim'.state = "stored" => claim'.answer \in BatchAnswers /\ IsBatchResponse(call, claim'.answer)
    BY <1>1 DEF SdkTypeOK, AnswersHold
  <2>11. /\ server[a].pc # "none" /\ server'[a].pc \notin {"none", "sent"} /\ server'[a].pc # "answered"
    BY <1>1, <1>3, <1>5
  <2> HIDE DEF SdkInv
  <2> QED BY <1>1, <1>5, <1>7, <2>7, <2>9, <2>10, <2>11, ServerKeeps
<1>9. CASE call.op \notin Mutations
  <2>1. effects' = effects
    BY <1>2, <1>9
  <2>2. \A b \in Writing' : Len(server'[b].results) <= call.items
    <3>1. Len(server'[a].results) <= call.items
      BY <1>1, <1>3, <1>5 DEF Items
    <3>2. ASSUME NEW b \in Writing, b # a PROVE Len(server'[b].results) <= call.items
      BY <1>5, <1>9, <3>2 DEF OneWrites, Writing
    <3> QED BY <1>6, <3>1, <3>2
  <2>3. OneWrites'
    BY <1>1, <1>9, <2>1, <2>2 DEF OneWrites
  <2>4. \A oks : StaysTrue(oks)'
    BY <1>1, <1>9 DEF StaysTrue
  <2>5. /\ claim' \in [state : {"free", "running", "stored"}, answer : BatchAnswers \cup {None}]
        /\ claim'.state = "stored" => claim'.answer \in BatchAnswers /\ IsBatchResponse(call, claim'.answer)
    BY <1>1 DEF SdkTypeOK, AnswersHold
  <2>6. /\ server[a].pc # "none" /\ server'[a].pc \notin {"none", "sent"} /\ server'[a].pc # "answered"
    BY <1>1, <1>3, <1>5
  <2> HIDE DEF SdkInv
  <2> QED BY <1>1, <1>5, <1>7, <2>3, <2>4, <2>5, <2>6, ServerKeeps
<1> QED BY <1>8, <1>9

\* The attempt has done all its items and answers r.
LEMMA AnswerKeeps ==
    ASSUME SdkInv, NEW a \in Attempts, server[a].pc = "running",
           NEW r \in BatchAnswers \cup Errors, Answered(a, r),
           effects' = effects, UNCHANGED clientVars,
           claim' \in [state : {"free", "running", "stored"}, answer : BatchAnswers \cup {None}],
           \/ claim' = claim
           \/ call.keyed /\ claim'.state = "free" /\ \A i \in Items : effects[i] = 0
           \/ /\ call.keyed /\ claim'.state = "stored" /\ \A i \in Items : effects[i] = 1
              /\ claim'.answer \in BatchAnswers /\ IsBatchResponse(call, claim'.answer),
           \/ r \in Errors
           \/ /\ r \in BatchAnswers /\ IsBatchResponse(call, r)
              /\ call.op \in Mutations => \A i \in Items : r.oks[i] => effects[i] = 1
              /\ call.keyed => claim'.state = "stored"
    PROVE  SdkInv'
<1> USE DEF SdkInv
<1>1. /\ server' \in [Attempts -> Handlings]
      /\ \A b \in Attempts \ {a} : server'[b] = server[b]
      /\ server'[a].pc = "answered" /\ server'[a].answer = r
  BY AnsweredIs
<1>2. /\ call' = call /\ Items' = Items /\ a \in Writing /\ 1 \in Attempts
      /\ call.keyed \in BOOLEAN
      /\ Writing' = Writing \ {a}
      /\ \A b \in Writing' : server'[b] = server[b]
  BY <1>1, CallFacts DEF clientVars, Writing, Items
<1>3. call.op \in Mutations => Writing' = {}
  BY <1>2 DEF OneWrites
<1>4. call.op \in Mutations /\ ~call.keyed => a = 1
  BY <1>2 DEF OneWrites
<1>5. OneWrites'
  <2>1. CASE call.op \in Mutations
    <3>1. \A i \in Items : effects[i] <= 1
      BY <2>1 DEF OneWrites
    <3>2. call.keyed => /\ claim'.state = "free" => \A i \in Items : effects[i] = 0
                        /\ claim'.state = "stored" => \A i \in Items : effects[i] = 1
      BY <2>1 DEF OneWrites
    <3>3. ~call.keyed => /\ \A b \in Attempts : server'[b].pc # "none" => b = 1
                         /\ server'[1].pc = "answered"
      BY <1>1, <1>4, <2>1 DEF OneWrites
    <3> QED BY <1>2, <1>3, <2>1, <3>1, <3>2, <3>3 DEF OneWrites
  <2>2. CASE call.op \notin Mutations
    BY <1>2, <2>2 DEF OneWrites
  <2> QED BY <2>1, <2>2
<1>6. \A oks : StaysTrue(oks) => StaysTrue(oks)'
  <2>1. CASE call.op \in Mutations
    <3>1. ~Frozen
      BY <1>2, <2>1 DEF Frozen, OneWrites
    <3> QED BY <2>1, <3>1 DEF StaysTrue
  <2>2. CASE call.op \notin Mutations
    BY <1>2, <2>2 DEF StaysTrue
  <2> QED BY <2>1, <2>2
<1>7. r \in Errors \/ StaysTrue(r.oks)'
  <2> SUFFICES ASSUME r \notin Errors PROVE StaysTrue(r.oks)'
    OBVIOUS
  <2>1. call.op \in Mutations => Frozen'
    <3>1. CASE call.keyed
      BY <1>2, <3>1 DEF Frozen
    <3>2. CASE ~call.keyed
      <4>1. ASSUME call.op \in Mutations, NEW b \in Attempts PROVE server'[b].pc \notin {"sent", "running"}
        <5>1. CASE b = a
          BY <1>1, <5>1
        <5>2. CASE b # a
          <6>1. server[b].pc = "none"
            BY <1>4, <3>2, <4>1, <5>2 DEF OneWrites
          <6> QED BY <1>1, <5>2, <6>1
        <5> QED BY <5>1, <5>2
      <4> QED BY <1>2, <3>2, <4>1 DEF Frozen
    <3> QED BY <3>1, <3>2
  <2>2. call.op \in Mutations => \A i \in Items : r.oks[i] => effects[i] = 1
    OBVIOUS
  <2> QED BY <1>2, <2>1, <2>2 DEF StaysTrue
<1>8. /\ effects' \in [1 .. call.items -> Nat]
      /\ claim'.state = "stored" => claim'.answer \in BatchAnswers /\ IsBatchResponse(call, claim'.answer)
  BY DEF SdkTypeOK, AnswersHold
<1>9. \E x : /\ x = server'[a].answer
             /\ x \in Errors \/ (x \in BatchAnswers /\ IsBatchResponse(call, x) /\ StaysTrue(x.oks)')
  BY <1>1, <1>7
<1>10. server[a].pc # "none" /\ server'[a].pc \notin {"none", "sent"}
  BY <1>1
<1> HIDE DEF SdkInv
<1> QED BY <1>1, <1>5, <1>6, <1>8, <1>9, <1>10, ServerKeeps

LEMMA FinishKeeps ==
    ASSUME SdkInv, NEW a \in Attempts, Finish(a)
    PROVE  SdkInv'
<1> DEFINE results == server[a].results
<1>1. /\ server[a].pc = "running" /\ a \in Writing /\ Sendable(call)
      /\ results \in Seq(ItemOutcomes) /\ Len(results) = call.items /\ DOMAIN results = Items
      /\ call.keyed \in BOOLEAN
      /\ effects' = effects /\ UNCHANGED clientVars
      /\ claim \in [state : {"free", "running", "stored"}, answer : BatchAnswers \cup {None}]
  <2>1. server[a].pc = "running" /\ Len(results) = call.items /\ effects' = effects /\ UNCHANGED clientVars
    BY DEF Finish
  <2>2. /\ results \in Seq(ItemOutcomes)
        /\ claim \in [state : {"free", "running", "stored"}, answer : BatchAnswers \cup {None}]
    BY DEF SdkInv, SdkTypeOK, Handlings
  <2>3. a \in Writing /\ Sendable(call) /\ call.keyed \in BOOLEAN
    BY <2>1, SentFacts, CallFacts DEF Writing, SdkInv
  <2>4. DOMAIN results = Items
    BY <2>1, <2>2 DEF Items
  <2> QED BY <2>1, <2>2, <2>3, <2>4
<1> HIDE DEF results
<1>2. call.op \in Mutations =>
         \A i \in Items : /\ results[i] = "ok" => effects[i] = 1
                          /\ results[i] = "releasable" => effects[i] = 0
  <2> SUFFICES ASSUME call.op \in Mutations, NEW i \in Items
               PROVE  /\ results[i] = "ok" => effects[i] = 1
                      /\ results[i] = "releasable" => effects[i] = 0
    OBVIOUS
  <2>1. Progress(a)
    BY <1>1 DEF SdkInv, OneWrites
  <2>2. ~(i > Len(results))
    BY <1>1, CallFacts DEF SdkInv, Items
  <2> QED BY <2>1, <2>2 DEF Progress, results
<1>3. /\ Error("refused") \in Errors /\ Error("unavailable") \in Errors
  BY DEF Error, Errors
<1>4. CASE ~call.keyed
  <2>1. ASSUME NEW idempotency \in Expected(call), Answered(a, BatchAnswer(results, idempotency)), claim' = claim
        PROVE  SdkInv'
    <3> DEFINE r == BatchAnswer(results, idempotency)
    <3>1. /\ r \in BatchAnswers /\ IsBatchResponse(call, r)
          /\ \A i \in Items : r.oks[i] <=> results[i] = "ok"
      BY <1>1, <1>4, AnswersAreExpected DEF SdkInv
    <3> HIDE DEF r
    <3>2. Answered(a, r)
      BY <2>1 DEF r
    <3> QED BY <1>1, <1>2, <1>4, <2>1, <3>1, <3>2, AnswerKeeps
  <2>2. ASSUME Answered(a, Error("refused")), claim' = claim
        PROVE  SdkInv'
    BY <1>1, <1>3, <2>2, AnswerKeeps
  <2>3. (IF call.op \in Mutations THEN "unsupported" ELSE "read-only") \in Expected(call)
    BY <1>4 DEF Expected
  <2> QED BY <1>4, <2>1, <2>2, <2>3 DEF Finish, results
<1>5. CASE call.keyed /\ Unresolved(results)
  <2>1. Answered(a, Error("unavailable"))
    BY <1>5 DEF Finish, results
  <2>2. claim' = claim \/ (Releasable(results) /\ claim' = NoClaim)
    BY <1>5 DEF Finish, results
  <2>3. CASE claim' = claim
    BY <1>1, <1>3, <2>1, <2>3, AnswerKeeps
  <2>4. CASE Releasable(results) /\ claim' = NoClaim
    <3>1. \A i \in Items : results[i] = "releasable"
      BY <1>1, <2>4 DEF Releasable, ToSet
    <3>2. call.op \in Mutations
      BY <1>1, <1>5, SendableFacts DEF SdkInv
    <3>3. \A i \in Items : effects[i] = 0
      BY <1>2, <3>1, <3>2
    <3>4. /\ claim' \in [state : {"free", "running", "stored"}, answer : BatchAnswers \cup {None}]
          /\ claim'.state = "free"
      BY <2>4 DEF NoClaim
    <3> QED BY <1>1, <1>3, <1>5, <2>1, <3>3, <3>4, AnswerKeeps
  <2> QED BY <2>2, <2>3, <2>4
<1>6. CASE call.keyed /\ ~Unresolved(results)
  <2> DEFINE r == BatchAnswer(results, "stored")
  <2>1. call.op \in Mutations
    BY <1>1, <1>6, SendableFacts DEF SdkInv
  <2>2. "stored" \in Expected(call)
    BY <1>6, <2>1 DEF Expected
  <2>3. r \in BatchAnswers /\ IsBatchResponse(call, r)
    BY <1>1, <1>6, <2>2, AnswersAreExpected DEF SdkInv
  <2>4. \A i \in Items : effects[i] = 1
    BY <1>1, <1>2, <1>6, <2>1 DEF Unresolved
  <2>5. \/ claim' = [state |-> "stored", answer |-> r] /\ Answered(a, r)
        \/ Answered(a, Error("unavailable")) /\ claim' = claim
    BY <1>6 DEF Finish, results
  <2> HIDE DEF r
  <2>6. CASE claim' = [state |-> "stored", answer |-> r] /\ Answered(a, r)
    <3>1. /\ claim' \in [state : {"free", "running", "stored"}, answer : BatchAnswers \cup {None}]
          /\ claim'.state = "stored" /\ claim'.answer = r
      BY <2>3, <2>6
    <3> QED BY <1>1, <1>6, <2>3, <2>4, <2>6, <3>1, AnswerKeeps
  <2>7. CASE Answered(a, Error("unavailable")) /\ claim' = claim
    BY <1>1, <1>3, <2>7, AnswerKeeps
  <2> QED BY <2>5, <2>6, <2>7
<1> QED BY <1>1, <1>4, <1>5, <1>6

\* Another attempt is sent.
LEMMA SendRequestKeeps ==
    ASSUME SdkInv, SendRequest
    PROVE  SdkInv'
<1> USE DEF SdkInv
<1> DEFINE n == attempt + 1
<1>1. /\ client = "send" /\ outcome = None /\ Sendable(call)
      /\ call.keyed \in BOOLEAN /\ call.attempts \in 1 .. 3
      /\ attempt \in Nat /\ tries \in Nat /\ issues \in 1 .. MaxIssues
      /\ n \in Attempts /\ n \in Nat /\ Attempts \subseteq Nat /\ 1 \in Attempts
      /\ UNCHANGED <<call, tries, issues, aborted, claim, effects>>
  BY CallFacts, AttemptsAreHandled DEF SendRequest, SdkTypeOK, AttemptsFit, AnswersHold
<1>2. CASE aborted
  BY <1>1, <1>2, EndedKeeps DEF SendRequest, serverVars
<1>3. CASE ~aborted
  <2>1. /\ client' = "wait" /\ attempt' = n /\ outcome' = None
        /\ server' = [server EXCEPT ![n].pc = "sent"]
    BY <1>1, <1>3 DEF SendRequest
  <2>2. server[n] \in Handlings /\ server[n].pc = "none" /\ server[n].results = <<>>
    BY <1>1 DEF SdkTypeOK, AttemptsFit
  <2> DEFINE w == [server[n] EXCEPT !.pc = "sent"]
  <2>3. w \in Handlings /\ w.pc = "sent" /\ w.results = <<>>
    BY <2>2 DEF Handlings
  <2>4. server' = [server EXCEPT ![n] = w]
    BY <2>1, <2>2 DEF SdkTypeOK
  <2> HIDE DEF w, n
  <2>5. /\ server' \in [Attempts -> Handlings]
        /\ \A b \in Attempts \ {n} : server'[b] = server[b]
        /\ server'[n].pc = "sent" /\ server'[n].results = <<>>
    BY <1>1, <2>3, <2>4 DEF SdkTypeOK
  <2>6. /\ BatchAnswers' = BatchAnswers /\ Handlings' = Handlings /\ Errors' = Errors
        /\ \A r : IsBatchResponse(call, r)' = IsBatchResponse(call, r)
        /\ Items' = Items
    BY <1>1 DEF BatchAnswers, Handlings, Errors, IsBatchResponse, Expected, Items
  <2>7. SdkTypeOK'
    BY <1>1, <2>1, <2>5, <2>6 DEF SdkTypeOK
  <2>8. AttemptsFit'
    <3>1. Sendable(call)'
      BY <1>1 DEF Sendable, MayRetry, MayBeKeyed, Clean
    <3>2. \A b \in Attempts : b > n => server'[b].pc = "none"
      BY <1>1, <2>5 DEF AttemptsFit, n
    <3>3. \A b \in Attempts : server'[b].pc \in {"none", "sent"} => server'[b].results = <<>>
      BY <2>5 DEF AttemptsFit
    <3>4. tries > 0 /\ n > 0
      BY <1>1 DEF AttemptsFit, n
    <3>5. call.keyed => tries <= 1 /\ n <= issues
      BY <1>1 DEF AttemptsFit, n
    <3>6. ~call.keyed => issues = 1 /\ n <= tries /\ tries <= call.attempts
      BY <1>1 DEF AttemptsFit, n
    <3> QED BY <1>1, <2>1, <3>1, <3>2, <3>3, <3>4, <3>5, <3>6 DEF AttemptsFit
  <2>9. Writing' = Writing /\ \A b \in Writing : server'[b] = server[b]
    BY <2>2, <2>5 DEF Writing
  <2>10. call.op \in Mutations /\ ~call.keyed => n = 1 /\ \A b \in Attempts : server[b].pc = "none"
    <3> SUFFICES ASSUME call.op \in Mutations, ~call.keyed
                 PROVE  attempt = 0 /\ \A b \in Attempts : server[b].pc = "none"
      BY DEF n
    <3>1. call.attempts = 1
      BY <1>1, SendableFacts
    <3>2. attempt = 0
      BY <1>1, <3>1 DEF AttemptsFit
    <3>3. \A b \in Attempts : b > 0
      BY DEF Attempts
    <3> QED BY <3>2, <3>3 DEF AttemptsFit
  <2>11. OneWrites'
    <3>1. \A b \in Writing : Progress(b) => Progress(b)'
      BY <1>1, <2>6, <2>9 DEF Progress
    <3>2. CASE call.op \in Mutations /\ call.keyed
      BY <1>1, <2>6, <2>9, <3>1, <3>2 DEF OneWrites
    <3>3. CASE call.op \in Mutations /\ ~call.keyed
      <4>1. \A i \in Items : effects[i] = 0
        BY <1>1, <2>10, <3>3 DEF OneWrites
      <4>2. Writing = {}
        BY <2>10, <3>3 DEF Writing
      <4>3. \A b \in Attempts : server'[b].pc # "none" => b = 1
        BY <2>5, <2>10, <3>3
      <4>4. \A i \in Items : effects[i] <= 1
        BY <4>1
      <4> QED BY <1>1, <2>6, <2>9, <3>3, <4>1, <4>2, <4>3, <4>4 DEF OneWrites
    <3>4. CASE call.op \notin Mutations
      BY <1>1, <2>6, <2>9, <3>4 DEF OneWrites
    <3> QED BY <1>1, <3>2, <3>3, <3>4
  <2>12. AnswersHold'
    <3>1. ASSUME NEW b \in Attempts, server'[b].pc = "answered"
          PROVE  \/ server'[b].answer \in Errors
                 \/ /\ server'[b].answer \in BatchAnswers /\ IsBatchResponse(call, server'[b].answer)
                    /\ StaysTrue(server[b].answer.oks)'
      <4>1. b # n /\ server'[b] = server[b]
        BY <2>5, <3>1
      <4>2. \/ server[b].answer \in Errors
            \/ /\ server[b].answer \in BatchAnswers /\ IsBatchResponse(call, server[b].answer)
               /\ StaysTrue(server[b].answer.oks)
        BY <3>1, <4>1 DEF AnswersHold
      <4>3. ASSUME NEW oks, StaysTrue(oks) PROVE StaysTrue(oks)'
        <5>1. CASE call.op \in Mutations /\ call.keyed
          BY <1>1, <2>6, <4>3, <5>1 DEF StaysTrue, Frozen
        <5>2. CASE call.op \in Mutations /\ ~call.keyed
          BY <2>10, <3>1, <4>1, <5>2
        <5>3. CASE call.op \notin Mutations
          BY <1>1, <5>3 DEF StaysTrue
        <5> QED BY <1>1, <5>1, <5>2, <5>3
      <4>4. PICK r : r = server[b].answer
        OBVIOUS
      <4>5. StaysTrue(r.oks) => StaysTrue(r.oks)'
        BY <4>3
      <4>6. r = server'[b].answer
        BY <4>1, <4>4
      <4>7. StaysTrue(server[b].answer.oks) => StaysTrue(server[b].answer.oks)'
        BY <4>4, <4>5, <4>6
      <4> QED BY <4>1, <4>2, <4>7
    <3> QED BY <1>1, <2>1, <2>6, <3>1 DEF AnswersHold
  <2> QED BY <2>7, <2>8, <2>11, <2>12
<1> QED BY <1>2, <1>3 DEF SdkTypeOK
-----------------------------------------------------------------------------
\* However often a batch is sent and issued again, for any number of items and
\* issues: who writes its items, and what is answered for them.
THEOREM SdkInvariant == SdkSpec => []SdkInv
<1>1. SdkInv /\ [SdkNext]_sdkVars => SdkInv'
  <2> SUFFICES ASSUME SdkInv, [SdkNext]_sdkVars PROVE SdkInv'
    OBVIOUS
  <2>1. CASE Begin \/ SendRequest \/ Receive \/ Lose \/ Backoff \/ Abort \/ Reissue
    BY <2>1, BeginKeeps, SendRequestKeeps, ReceiveKeeps, LoseKeeps, BackoffKeeps, AbortKeeps, ReissueKeeps
  <2>2. ASSUME NEW a \in Attempts, Refuse(a) \/ Drop(a) \/ Claim(a) \/ Execute(a) \/ Finish(a)
        PROVE  SdkInv'
    BY <2>2, RefuseKeeps, ClaimKeeps, ExecuteKeeps, FinishKeeps
  <2>3. CASE UNCHANGED sdkVars
    <3> USE DEF sdkVars, SdkInv
    <3>1. AttemptsFit'
      BY <2>3 DEF AttemptsFit, Sendable, MayRetry, MayBeKeyed, Clean
    <3>2. outcome' # None => /\ outcome'.kind # "invalid"
                             /\ outcome'.kind = "answer" => StaysTrue(outcome'.oks)
      BY <2>3 DEF AnswersHold
    <3> QED BY <2>3, <3>1, <3>2, ClientKeeps DEF SdkTypeOK, AnswersHold, serverVars
  <2> QED BY <2>1, <2>2, <2>3 DEF SdkNext
<1> QED BY <1>1, SdkInitial, PTL DEF SdkSpec

\* No item of a batch is written twice, however often it is sent, and the SDK
\* takes every answer of the server, which is true of the items (sdk.ts, batch()).
THEOREM BatchesAreExactTheorem == SdkSpec => []BatchesAreExact
<1>1. SdkInv => BatchesAreExact
  <2> SUFFICES ASSUME SdkInv PROVE BatchesAreExact
    OBVIOUS
  <2>1. DOMAIN effects = Items
    BY DEF SdkInv, SdkTypeOK, Items
  <2>2. \A i \in Items : effects[i] <= 1
    <3>1. (\A i \in Items : effects[i] = 0) => \A i \in Items : effects[i] <= 1
      OBVIOUS
    <3> QED BY <3>1 DEF SdkInv, OneWrites
  <2> QED BY <2>1, <2>2 DEF SdkInv, AnswersHold, StaysTrue, BatchesAreExact, WritesLandOnce, AnswersAreTaken
<1> QED BY <1>1, SdkInvariant, PTL

-----------------------------------------------------------------------------
(* The call of a provider.                                                 *)

Endings == {"budget", "cancelled", "value", "malformed", "status", "network", "timeout"}

FetchTypeOK ==
    /\ policy \in Policies
    /\ at \in {"call"} \cup Waiting \cup Endings
    /\ nth \in 1 .. AllowedAttempts /\ elapsed \in Nat /\ timer \in Nat
    /\ cancelled \in BOOLEAN /\ deaf \in BOOLEAN /\ sent \in Nat

\* A timer never reaches beyond the budget, and an attempt sends one request:
\* none yet, while the call sleeps before it.
TimersFit ==
    /\ elapsed + timer <= policy.budget
    /\ sent <= nth
    /\ at \in {"call", "sleep"} => sent < nth
    /\ at = "call" => nth = 1

FetchInv == FetchTypeOK /\ TimersFit /\ CancelIsHeard

LEMMA SomePolicy ==
    ASSUME FetchTypeOK
    PROVE  /\ policy.timeout \in Nat /\ policy.retries \in Nat /\ policy.budget \in Nat
           /\ AllowedAttempts \in Nat
           /\ \A n \in 0 .. policy.retries : policy.backoff * 2 ^ n \in Nat
<1>1. policy \in [timeout : Nat, retries : Nat, budget : Nat, backoff : Nat]
  BY FetchAssumption DEF FetchTypeOK
<1>2. \A n \in 0 .. policy.retries : policy.backoff * 2 ^ n \in Nat
  BY FetchAssumption DEF FetchTypeOK
<1> QED BY <1>1, <1>2 DEF AllowedAttempts

LEMMA EndKeeps ==
    ASSUME FetchInv, NEW how \in Endings, End(how),
           how = "value" => cancelled = FALSE \/ deaf
    PROVE  FetchInv'
<1>1. policy.budget \in Nat
  BY SomePolicy DEF FetchInv
<1>2. FetchTypeOK'
  BY DEF FetchInv, FetchTypeOK, End, AllowedAttempts
<1>3. TimersFit'
  BY <1>1 DEF FetchInv, FetchTypeOK, TimersFit, End, Endings, AllowedAttempts
<1>4. CancelIsHeard'
  BY DEF FetchInv, FetchTypeOK, CancelIsHeard, End, Endings
<1> QED BY <1>2, <1>3, <1>4 DEF FetchInv

LEMMA RemainingIsLeft ==
    ASSUME FetchInv
    PROVE  Remaining \in Nat /\ elapsed + Remaining <= policy.budget
  BY SomePolicy DEF FetchInv, FetchTypeOK, TimersFit, Remaining

LEMMA SendKeeps ==
    ASSUME FetchInv, NEW n \in 1 .. AllowedAttempts, sent < n, SendOrGiveUp(n)
    PROVE  FetchInv'
<1>1. CASE Remaining = 0
  BY <1>1, EndKeeps DEF SendOrGiveUp, Endings
<1>2. CASE Remaining # 0
  <2>1. AttemptTimeout \in Nat /\ AttemptTimeout <= Remaining
    BY <1>2, RemainingIsLeft, SomePolicy DEF FetchInv, AttemptTimeout, Least
  <2>2. SendAttempt(n)
    BY <1>2 DEF SendOrGiveUp
  <2>3. FetchTypeOK'
    BY <2>1, <2>2 DEF FetchInv, FetchTypeOK, SendAttempt, AllowedAttempts, Waiting
  <2>4. TimersFit'
    BY <2>1, <2>2, RemainingIsLeft, SomePolicy DEF FetchInv, FetchTypeOK, TimersFit, SendAttempt
  <2>5. CancelIsHeard'
    BY <2>2 DEF FetchInv, FetchTypeOK, CancelIsHeard, SendAttempt
  <2> QED BY <2>3, <2>4, <2>5 DEF FetchInv
<1> QED BY <1>1, <1>2

LEMMA RetryKeeps ==
    ASSUME FetchInv, at \in Waiting, NEW otherwise \in Endings \ {"value"}, Retry(otherwise)
    PROVE  FetchInv'
<1>1. CASE ~(nth < AllowedAttempts /\ elapsed < policy.budget)
  BY <1>1, EndKeeps DEF Retry
<1>2. CASE nth < AllowedAttempts /\ elapsed < policy.budget
  <2> DEFINE n == nth + 1
             capped == Least(BackoffOf(n), Remaining)
  <2>1. n \in 1 .. AllowedAttempts /\ sent < n /\ n - 2 \in 0 .. policy.retries
    BY <1>2, SomePolicy DEF FetchInv, FetchTypeOK, TimersFit, AllowedAttempts
  <2>2. BackoffOf(n) \in Nat
    BY <2>1, SomePolicy DEF FetchInv, BackoffOf
  <2>3. capped \in Nat /\ capped <= Remaining
    BY <2>2, RemainingIsLeft DEF Least
  <2>4. Sleep(n)
    BY <1>2 DEF Retry
  <2> HIDE DEF n
  <2>5. CASE capped = 0
    <3>1. CASE cancelled
      BY <2>4, <2>5, <3>1, EndKeeps DEF Sleep, Endings
    <3>2. CASE ~cancelled
      BY <2>1, <2>4, <2>5, <3>2, SendKeeps DEF Sleep
    <3> QED BY <3>1, <3>2
  <2>6. CASE capped # 0
    <3>1. /\ at' = "sleep" /\ nth' = n /\ timer' = capped
          /\ deaf' = cancelled
          /\ UNCHANGED <<policy, elapsed, cancelled, sent>>
      BY <2>4, <2>6 DEF Sleep
    <3> HIDE DEF capped
    <3>2. FetchTypeOK'
      BY <2>1, <2>3, <3>1 DEF FetchInv, FetchTypeOK, AllowedAttempts, Waiting
    <3>3. TimersFit'
      BY <2>1, <2>3, <3>1, RemainingIsLeft, SomePolicy DEF FetchInv, FetchTypeOK, TimersFit
    <3>4. CancelIsHeard'
      BY <3>1 DEF FetchInv, FetchTypeOK, CancelIsHeard
    <3> QED BY <3>2, <3>3, <3>4 DEF FetchInv
  <2> QED BY <2>5, <2>6
<1> QED BY <1>1, <1>2
-----------------------------------------------------------------------------
\* Whatever the provider answers, and whenever the caller aborts, a call keeps
\* its timers within its budget and its requests within its attempts.
THEOREM FetchInvariant == FetchSpec => []FetchInv
<1>1. FetchInit => FetchInv
  <2> SUFFICES ASSUME FetchInit PROVE FetchInv
    OBVIOUS
  <2>1. policy.budget \in Nat /\ policy.retries \in Nat
    BY FetchAssumption DEF FetchInit
  <2>2. FetchTypeOK
    <3>1. AllowedAttempts \in Nat /\ 1 <= AllowedAttempts
      BY <2>1 DEF AllowedAttempts
    <3>2. nth \in 1 .. AllowedAttempts /\ elapsed \in Nat /\ timer \in Nat /\ sent \in Nat
      BY <3>1 DEF FetchInit
    <3>3. cancelled \in BOOLEAN /\ deaf \in BOOLEAN
      BY DEF FetchInit
    <3> QED BY <3>2, <3>3 DEF FetchInit, FetchTypeOK
  <2>3. TimersFit /\ CancelIsHeard
    BY <2>1 DEF FetchInit, TimersFit, CancelIsHeard
  <2> QED
    BY <2>2, <2>3 DEF FetchInv
<1>2. FetchInv /\ [FetchNext]_fetchVars => FetchInv'
  <2> SUFFICES ASSUME FetchInv, [FetchNext]_fetchVars PROVE FetchInv'
    OBVIOUS
  <2>0. /\ policy.budget \in Nat /\ AllowedAttempts \in Nat /\ nth \in 1 .. AllowedAttempts
        /\ sent \in Nat /\ sent <= nth
    BY SomePolicy DEF FetchInv, FetchTypeOK, TimersFit
  <2>1. CASE Call
    <3>1. sent < 1 /\ 1 \in 1 .. AllowedAttempts
      BY <2>0, <2>1 DEF Call, FetchInv, TimersFit
    <3> QED BY <2>1, <3>1, EndKeeps, SendKeeps DEF Call, Endings
  <2>2. CASE Awake
    <3>1. sent < nth
      BY <2>2 DEF Awake, FetchInv, TimersFit
    <3> QED BY <2>0, <2>2, <3>1, SendKeeps DEF Awake
  <2>3. CASE ProviderAnswers
    BY <2>3 DEF ProviderAnswers, FetchInv, FetchTypeOK, TimersFit, CancelIsHeard, AllowedAttempts, Waiting
  <2>4. CASE Body
    <3>1. cancelled = FALSE \/ deaf
      BY <2>4 DEF Body, FetchInv, FetchTypeOK, CancelIsHeard
    <3> QED BY <2>4, <3>1, EndKeeps DEF Body, Endings
  <2>5. CASE ErrorBody
    BY <2>5, EndKeeps, RetryKeeps DEF ErrorBody, Endings, Waiting
  <2>6. CASE NetworkFails
    BY <2>6, RetryKeeps DEF NetworkFails, Endings, Waiting
  <2>7. CASE TimesOut
    BY <2>7, RetryKeeps DEF TimesOut, Endings, Waiting
  <2>8. CASE CallerAborts
    BY <2>0, <2>8 DEF CallerAborts, FetchInv, FetchTypeOK, TimersFit, CancelIsHeard, AllowedAttempts, Hears, Waiting, Endings
  <2>9. CASE Tick
    BY <2>0, <2>9 DEF Tick, FetchInv, FetchTypeOK, TimersFit, CancelIsHeard, AllowedAttempts
  <2>10. CASE UNCHANGED fetchVars
    BY <2>10 DEF fetchVars, FetchInv, FetchTypeOK, TimersFit, CancelIsHeard, AllowedAttempts
  <2> QED BY <2>1, <2>2, <2>3, <2>4, <2>5, <2>6, <2>7, <2>8, <2>9, <2>10 DEF FetchNext
<1> QED BY <1>1, <1>2, PTL DEF FetchSpec

\* A provider that hangs, fails or answers in pieces holds a call no longer than
\* its budget and for no more requests than its attempts, and a cancelled sleep
\* or request ends without a value (providerFetch()).
THEOREM ProviderIsBoundedTheorem == FetchSpec => []ProviderIsBounded
<1>1. FetchInv => ProviderIsBounded
  <2> SUFFICES ASSUME FetchInv PROVE ProviderIsBounded
    OBVIOUS
  <2>1. policy.budget \in Nat /\ AllowedAttempts \in Nat
    BY SomePolicy DEF FetchInv
  <2> QED BY <2>1 DEF FetchInv, FetchTypeOK, TimersFit, ProviderIsBounded, CallIsBounded
<1> QED BY <1>1, FetchInvariant, PTL

-----------------------------------------------------------------------------
(* The outbox of webhooks.                                                 *)

Statuses == {"none", "pending", "delivered", "dead", "pruned"}
Rows     == [status : Statuses, attempts : Nat, due : BOOLEAN]
ListEntries   == [d : Deliveries, attempts : Nat]
Drains   == [list : SUBSET ListEntries, sending : SUBSET Deliveries, attempt : Nat]

WebhookTypeOK ==
    /\ row \in [Deliveries -> Rows]
    /\ drain \in [Drainers -> Drains]
    /\ retires \in Nat
    /\ retired \subseteq Deliveries
    /\ late \in [Drainers -> Nat]

\* A drain has a delivery once: in its list, or in the request under way.
ListedOnce ==
    \A p \in Drainers :
        /\ \A x, y \in drain[p].list : x.d = y.d => x = y
        /\ \A x \in drain[p].list : x.d \notin drain[p].sending
        /\ drain[p].sending # {} => drain[p].attempt > 0

\* The processes that have a delivery with a number that is not its last: what
\* they record may leave it pending.
Undecided(p, d) ==
    \/ \E x \in drain[p].list : x.d = d /\ x.attempts + 1 < MaxAttempts
    \/ d \in drain[p].sending /\ drain[p].attempt < MaxAttempts

Holders(d) == {p \in Drainers : Undecided(p, d)}

\* While a delivery is pending the attempts made and those that may yet leave it
\* pending stay two below the bound: a process that records one is a holder no
\* more, and one that lists the delivery anew read the attempts made.
AttemptsAreBounded ==
    \A d \in Deliveries :
        /\ row[d].status = "pending" =>
              row[d].attempts + Cardinality(Holders(d)) + 2 <= MaxAttempts + Cardinality(Drainers)
        /\ row[d].attempts < MaxAttempts + Cardinality(Drainers)

\* What a restore has retired is never queued again.
RetiredForGood == \A d \in retired : row[d].status \notin {"none", "pending"}

\* A drain that has sent a retired delivery is sending it, or is over.
LateIsLast ==
    \A p \in Drainers :
        late[p] # 0 => /\ late[p] = 1
                       /\ drain[p] = Idle \/ (drain[p].sending # {} /\ drain[p].sending \subseteq retired)

WebhookInv ==
    /\ WebhookTypeOK
    /\ ListedOnce
    /\ AttemptsAreBounded
    /\ RetiredForGood
    /\ LateIsLast
-----------------------------------------------------------------------------
\* Sets of processes are finite, and smaller ones have fewer members.
LEMMA SomeDrainers ==
    ASSUME NEW S \in SUBSET Drainers
    PROVE  /\ IsFiniteSet(S) /\ Cardinality(S) \in Nat
           /\ Cardinality(S) <= Cardinality(Drainers)
           /\ \A T \in SUBSET S : Cardinality(T) \in Nat /\ Cardinality(T) <= Cardinality(S)
           /\ \A p \in S : \A T \in SUBSET (S \ {p}) : Cardinality(T) + 1 <= Cardinality(S)
<1> USE WebhookAssumption
<1>1. IsFiniteSet(S)
  BY FS_Subset
<1>2. \A T \in SUBSET S : IsFiniteSet(T) /\ Cardinality(T) \in Nat /\ Cardinality(T) <= Cardinality(S)
  BY <1>1, FS_Subset, FS_CardinalityType
<1>3. Cardinality(S) \in Nat /\ Cardinality(S) <= Cardinality(Drainers)
  BY <1>1, FS_Subset, FS_CardinalityType
<1>4. ASSUME NEW p \in S, NEW T \in SUBSET (S \ {p})
      PROVE  Cardinality(T) + 1 <= Cardinality(S)
  <2>1. IsFiniteSet(S \ {p}) /\ Cardinality(S \ {p}) = Cardinality(S) - 1
    BY <1>1, FS_RemoveElement
  <2>2. Cardinality(T) \in Nat /\ Cardinality(T) <= Cardinality(S \ {p})
    BY <2>1, FS_Subset, FS_CardinalityType
  <2> QED BY <2>1, <2>2, <1>3
<1> QED BY <1>1, <1>2, <1>3, <1>4

\* There is a process, and its budget is at least one attempt.
LEMMA SomeDrainer == Cardinality(Drainers) \in Nat \ {0}
BY WebhookAssumption, FS_CardinalityType, FS_EmptySet

LEMMA WebhookStart == WebhookInit => WebhookInv
<1> SUFFICES ASSUME WebhookInit
             PROVE  WebhookInv
  OBVIOUS
<1> USE WebhookAssumption DEF WebhookInit, NoRow, Idle
<1>1. WebhookTypeOK
  BY DEF WebhookTypeOK, Rows, Statuses, Drains, ListEntries
<1>2. ListedOnce
  BY DEF ListedOnce
<1>3. AttemptsAreBounded
  BY SomeDrainer DEF AttemptsAreBounded
<1>4. RetiredForGood /\ LateIsLast
  BY DEF RetiredForGood, LateIsLast
<1> QED BY <1>1, <1>2, <1>3, <1>4 DEF WebhookInv

\* Even when every process is a holder a new delivery has its budget.
LEMMA AnyoneMayHold ==
    ASSUME WebhookTypeOK, ListedOnce, NEW d \in Deliveries
    PROVE  /\ Cardinality(Holders(d)) \in Nat
           /\ Cardinality(Holders(d)) + 2 <= MaxAttempts + Cardinality(Drainers)
<1> USE WebhookAssumption, SomeDrainer
<1>1. Holders(d) \in SUBSET Drainers
  BY DEF Holders
<1>2. Cardinality(Holders(d)) \in Nat /\ Cardinality(Holders(d)) <= Cardinality(Drainers)
  BY <1>1, SomeDrainers
<1>3. CASE MaxAttempts = 1
  <2>1. Holders(d) = {}
    <3> SUFFICES ASSUME NEW p \in Drainers, Undecided(p, d)
                 PROVE  FALSE
      BY DEF Holders
    <3> QED BY <1>3 DEF Undecided, WebhookTypeOK, Drains, ListEntries, ListedOnce
  <2> QED BY <2>1, <1>2, <1>3, FS_EmptySet
<1> QED BY <1>2, <1>3

\* A step that leaves no new holder, and gives no delivery another attempt,
\* keeps the attempts bounded.
LEMMA FewerHolders ==
    ASSUME WebhookTypeOK, ListedOnce, AttemptsAreBounded,
           \A d \in Deliveries : Holders(d)' \subseteq Holders(d),
           \A d \in Deliveries : row'[d].attempts = row[d].attempts \/ row'[d].attempts = 0,
           \A d \in Deliveries : row'[d].status = "pending" =>
                 row[d].status = "pending" \/ row'[d].attempts = 0
    PROVE  AttemptsAreBounded'
<1> USE WebhookAssumption
<1> SUFFICES ASSUME NEW d \in Deliveries
             PROVE  /\ row'[d].status = "pending" =>
                         row'[d].attempts + Cardinality(Holders(d)') + 2 <= MaxAttempts + Cardinality(Drainers)
                    /\ row'[d].attempts < MaxAttempts + Cardinality(Drainers)
  BY DEF AttemptsAreBounded
<1>1. row[d].attempts \in Nat
  BY DEF WebhookTypeOK, Rows
<1>2. Holders(d) \in SUBSET Drainers
  BY DEF Holders
<1>3. /\ Cardinality(Holders(d)) \in Nat /\ Cardinality(Holders(d)') \in Nat
      /\ Cardinality(Holders(d)') <= Cardinality(Holders(d))
  BY <1>2, SomeDrainers
<1>4. CASE row'[d].attempts = 0
  BY <1>3, <1>4, AnyoneMayHold, SomeDrainer
<1>5. CASE row'[d].attempts = row[d].attempts /\ row'[d].attempts # 0
  BY <1>1, <1>3, <1>5, SomeDrainer DEF AttemptsAreBounded
<1> QED BY <1>4, <1>5
\* A step that records an attempt on d, after which a process is a holder of it
\* no more or nobody may try it again, keeps the attempts bounded.
LEMMA RecordedOnce ==
    ASSUME WebhookTypeOK, ListedOnce, AttemptsAreBounded,
           NEW d \in Deliveries, MayRecord(d), NEW status,
           row' = [row EXCEPT ![d] = [status |-> status, attempts |-> row[d].attempts + 1, due |-> FALSE]],
           \A e \in Deliveries : Holders(e)' \subseteq Holders(e),
           NEW p \in Drainers, status = "pending" => p \in Holders(d) /\ p \notin Holders(d)'
    PROVE  AttemptsAreBounded'
<1> USE WebhookAssumption
<1> SUFFICES ASSUME NEW e \in Deliveries
             PROVE  /\ row'[e].status = "pending" =>
                         row'[e].attempts + Cardinality(Holders(e)') + 2 <= MaxAttempts + Cardinality(Drainers)
                    /\ row'[e].attempts < MaxAttempts + Cardinality(Drainers)
  BY DEF AttemptsAreBounded
<1>1. row[e].attempts \in Nat
  BY DEF WebhookTypeOK, Rows
<1>2. Holders(e) \in SUBSET Drainers
  BY DEF Holders
<1>3. /\ Cardinality(Holders(e)) \in Nat /\ Cardinality(Holders(e)') \in Nat
      /\ Cardinality(Holders(e)') <= Cardinality(Holders(e))
  BY <1>2, SomeDrainers
<1>4. CASE e # d
  <2>1. row'[e] = row[e]
    BY <1>4 DEF WebhookTypeOK
  <2> QED BY <1>1, <1>3, <2>1, SomeDrainer DEF AttemptsAreBounded
<1>5. CASE e = d
  <2>1. /\ row'[e].status = status /\ row'[e].attempts = row[e].attempts + 1
        /\ row[e].status = "pending"
    BY <1>5 DEF WebhookTypeOK, MayRecord, Pending
  <2>2. row[e].attempts + Cardinality(Holders(e)) + 2 <= MaxAttempts + Cardinality(Drainers)
    BY <2>1 DEF AttemptsAreBounded
  <2>3. status = "pending" => Cardinality(Holders(e)') + 1 <= Cardinality(Holders(e))
    <3> SUFFICES ASSUME status = "pending"
                 PROVE  Cardinality(Holders(e)') + 1 <= Cardinality(Holders(e))
      OBVIOUS
    <3>1. p \in Holders(e) /\ Holders(e)' \in SUBSET (Holders(e) \ {p})
      BY <1>5
    <3> QED BY <1>2, <3>1, SomeDrainers
  <2> QED BY <1>1, <1>3, <2>1, <2>2, <2>3, SomeDrainer
<1> QED BY <1>4, <1>5

\* A drain that ends, whatever it had left, keeps the invariant.
LEMMA Dropped ==
    ASSUME WebhookInv, NEW p \in Drainers,
           drain' = [drain EXCEPT ![p] = Idle], UNCHANGED <<row, retires, retired, late>>
    PROVE  WebhookInv'
<1> USE WebhookAssumption DEF WebhookInv
<1>1. /\ drain'[p] = Idle
      /\ \A q \in Drainers \ {p} : drain'[q] = drain[q]
  BY DEF WebhookTypeOK
<1>2. WebhookTypeOK'
  BY DEF WebhookTypeOK, Drains, Idle
<1>3. ListedOnce'
  BY <1>1 DEF ListedOnce, Idle
<1>4. \A e \in Deliveries : Holders(e)' \subseteq Holders(e)
  BY <1>1 DEF Holders, Undecided, Idle
<1>5. AttemptsAreBounded'
  BY <1>4, FewerHolders
<1>6. RetiredForGood' /\ LateIsLast'
  BY <1>1 DEF RetiredForGood, LateIsLast
<1> QED BY <1>2, <1>3, <1>5, <1>6

\* Every step of the outbox keeps the invariant.
LEMMA WebhookStep == WebhookInv /\ [WebhookNext]_webhookVars => WebhookInv'
<1> SUFFICES ASSUME WebhookInv, [WebhookNext]_webhookVars
             PROVE  WebhookInv'
  OBVIOUS
<1> USE WebhookAssumption DEF WebhookInv
<1>1. ASSUME NEW d \in Deliveries, Publish(d)
      PROVE  WebhookInv'
  <2> USE <1>1 DEF Publish, Queueable
  <2>1. WebhookTypeOK'
    BY DEF WebhookTypeOK, Rows, Statuses
  <2>2. ListedOnce' /\ LateIsLast'
    BY DEF ListedOnce, LateIsLast
  <2>3. \A e \in Deliveries : Holders(e)' \subseteq Holders(e)
    BY DEF Holders, Undecided
  <2>4. AttemptsAreBounded'
    BY <2>3, FewerHolders DEF WebhookTypeOK, Rows
  <2>5. RetiredForGood'
    BY DEF RetiredForGood, WebhookTypeOK
  <2> QED BY <2>1, <2>2, <2>4, <2>5
<1>2. ASSUME NEW d \in Deliveries, Wait(d)
      PROVE  WebhookInv'
  <2> USE <1>2 DEF Wait, Pending, Due
  <2>1. WebhookTypeOK'
    BY DEF WebhookTypeOK, Rows, Statuses
  <2>2. ListedOnce' /\ LateIsLast'
    BY DEF ListedOnce, LateIsLast
  <2>3. \A e \in Deliveries : Holders(e)' \subseteq Holders(e)
    BY DEF Holders, Undecided
  <2>4. AttemptsAreBounded'
    BY <2>3, FewerHolders DEF WebhookTypeOK, Rows
  <2>5. RetiredForGood'
    BY DEF RetiredForGood, WebhookTypeOK
  <2> QED BY <2>1, <2>2, <2>4, <2>5
<1>3. ASSUME NEW p \in Drainers, List(p)
      PROVE  WebhookInv'
  <2> USE <1>3 DEF List
  <2>1. PICK T \in SUBSET Due :
            drain' = [drain EXCEPT ![p].list = {[d |-> d, attempts |-> row[d].attempts] : d \in T}]
    BY DEF Batches
  <2>2. PICK old \in SUBSET {d \in Deliveries : row[d].status \in {"delivered", "dead"}} :
            row' = [d \in Deliveries |-> IF d \in old THEN [row[d] EXCEPT !.status = "pruned"] ELSE row[d]]
    BY DEF Prune
  <2>3. T \subseteq Pending /\ Pending \subseteq Deliveries
    BY DEF Due, Pending
  <2>4. drain[p].list = {} /\ drain[p].sending = {} /\ drain[p].attempt = 0
    BY DEF Idle
  <2>5. /\ drain'[p].list = {[d |-> d, attempts |-> row[d].attempts] : d \in T}
        /\ drain'[p].sending = {} /\ drain'[p].attempt = 0
        /\ \A q \in Drainers \ {p} : drain'[q] = drain[q]
    BY <2>1, <2>4 DEF WebhookTypeOK, Drains
  <2>6. \A d \in Deliveries : /\ row'[d] \in Rows /\ row'[d].attempts = row[d].attempts
                              /\ row'[d].status \in {row[d].status, "pruned"}
    BY <2>2 DEF WebhookTypeOK, Rows, Statuses
  <2>7. WebhookTypeOK'
    <3>1. {[d |-> d, attempts |-> row[d].attempts] : d \in T} \subseteq ListEntries
      BY <2>3 DEF WebhookTypeOK, Rows, ListEntries
    <3>2. drain' \in [Drainers -> Drains]
      BY <2>1, <3>1 DEF WebhookTypeOK, Drains
    <3>3. row' \in [Deliveries -> Rows]
      BY <2>2, <2>6
    <3> QED BY <3>2, <3>3 DEF WebhookTypeOK
  <2>8. ListedOnce'
    BY <2>5 DEF ListedOnce
  <2>9. ASSUME NEW d \in Deliveries, row'[d].status = "pending"
        PROVE  row'[d].attempts + Cardinality(Holders(d)') + 2 <= MaxAttempts + Cardinality(Drainers)
    <3>1. row[d].status = "pending" /\ row[d].attempts \in Nat
      BY <2>6, <2>9 DEF WebhookTypeOK, Rows
    <3>2. CASE Undecided(p, d)'
      <4>1. row[d].attempts + 1 < MaxAttempts
        BY <2>5, <3>2 DEF Undecided
      <4>2. Holders(d)' \in SUBSET Drainers
        BY DEF Holders
      <4>3. Cardinality(Holders(d)') \in Nat /\ Cardinality(Holders(d)') <= Cardinality(Drainers)
        BY <4>2, SomeDrainers
      <4> QED BY <2>6, <3>1, <4>1, <4>3, SomeDrainer
    <3>3. CASE ~Undecided(p, d)'
      <4>1. Holders(d)' \subseteq Holders(d) /\ Holders(d) \in SUBSET Drainers
        BY <2>5, <3>3 DEF Holders, Undecided
      <4>2. /\ Cardinality(Holders(d)) \in Nat /\ Cardinality(Holders(d)') \in Nat
            /\ Cardinality(Holders(d)') <= Cardinality(Holders(d))
        BY <4>1, SomeDrainers
      <4> QED BY <2>6, <3>1, <4>2, SomeDrainer DEF AttemptsAreBounded
    <3> QED BY <3>2, <3>3
  <2>10. AttemptsAreBounded'
    BY <2>6, <2>9 DEF AttemptsAreBounded
  <2>11. RetiredForGood'
    BY <2>6 DEF RetiredForGood, WebhookTypeOK
  <2>12. LateIsLast'
    BY <2>5 DEF LateIsLast, WebhookTypeOK, Idle
  <2> QED BY <2>7, <2>8, <2>10, <2>11, <2>12
<1>4. ASSUME NEW p \in Drainers, Send(p)
      PROVE  WebhookInv'
  <2> USE <1>4 DEF Send
  <2>1. PICK x \in drain[p].list :
            /\ drain' = [drain EXCEPT ![p] = [list |-> @.list \ {x}, sending |-> {x.d}, attempt |-> x.attempts + 1]]
            /\ late' = IF x.d \in retired THEN [late EXCEPT ![p] = @ + 1] ELSE late
    OBVIOUS
  <2>2. /\ drain'[p].list = drain[p].list \ {x}
        /\ drain'[p].sending = {x.d} /\ drain'[p].attempt = x.attempts + 1
        /\ \A q \in Drainers \ {p} : drain'[q] = drain[q]
    BY <2>1 DEF WebhookTypeOK
  <2>3. x \in ListEntries /\ x.d \in Deliveries /\ x.attempts \in Nat /\ drain[p].list \subseteq ListEntries
    BY DEF WebhookTypeOK, Drains, ListEntries
  <2>4. WebhookTypeOK'
    <3>1. [list |-> drain[p].list \ {x}, sending |-> {x.d}, attempt |-> x.attempts + 1] \in Drains
      BY <2>3 DEF Drains
    <3>2. drain' \in [Drainers -> Drains]
      BY <2>1, <3>1 DEF WebhookTypeOK
    <3> QED BY <2>1, <3>2 DEF WebhookTypeOK
  <2>5. ListedOnce'
    BY <2>2, <2>3 DEF ListedOnce
  <2>6. \A e \in Deliveries : Holders(e)' \subseteq Holders(e)
    <3> SUFFICES ASSUME NEW e \in Deliveries, NEW q \in Drainers, Undecided(q, e)'
                 PROVE  Undecided(q, e)
      BY DEF Holders
    <3>1. CASE q = p
      BY <2>2, <3>1 DEF Undecided
    <3>2. CASE q # p
      BY <2>2, <3>2 DEF Undecided
    <3> QED BY <3>1, <3>2
  <2>7. AttemptsAreBounded'
    BY <2>6, FewerHolders DEF WebhookTypeOK, Rows
  <2>8. RetiredForGood'
    BY DEF RetiredForGood
  <2>9. late[p] = 0
    BY DEF LateIsLast, Idle
  <2>10. LateIsLast'
    BY <2>1, <2>2, <2>9 DEF LateIsLast, WebhookTypeOK
  <2> QED BY <2>4, <2>5, <2>7, <2>8, <2>10
<1>5. ASSUME NEW p \in Drainers, SendOrphan(p)
      PROVE  WebhookInv'
  <2> USE <1>5 DEF SendOrphan
  <2>1. PICK x \in drain[p].list :
            IF MayRecord(x.d)
               THEN Record(x.d, "failed", TRUE) /\ drain' = [drain EXCEPT ![p].list = @ \ {x}]
               ELSE drain' = [drain EXCEPT ![p] = Idle] /\ UNCHANGED row
    OBVIOUS
  <2>2. x.d \in Deliveries
    BY DEF WebhookTypeOK, Drains, ListEntries
  <2>3. CASE ~MayRecord(x.d)
    BY <2>1, <2>3, Dropped
  <2>4. CASE MayRecord(x.d)
    <3>1. /\ row' = [row EXCEPT ![x.d] = [status |-> "dead", attempts |-> row[x.d].attempts + 1, due |-> FALSE]]
          /\ drain' = [drain EXCEPT ![p].list = @ \ {x}]
      BY <2>1, <2>4 DEF Record
    <3>2. /\ drain'[p].list = drain[p].list \ {x}
          /\ drain'[p].sending = drain[p].sending /\ drain'[p].attempt = drain[p].attempt
          /\ \A q \in Drainers \ {p} : drain'[q] = drain[q]
      BY <3>1 DEF WebhookTypeOK, Drains
    <3>3. WebhookTypeOK'
      BY <2>2, <3>1 DEF WebhookTypeOK, Rows, Statuses, Drains
    <3>4. ListedOnce'
      BY <3>2 DEF ListedOnce
    <3>5. \A e \in Deliveries : Holders(e)' \subseteq Holders(e)
      BY <3>2 DEF Holders, Undecided
    <3>6. AttemptsAreBounded'
      <4> DEFINE d == x.d
      <4>1. /\ d \in Deliveries /\ MayRecord(d) /\ "dead" # "pending"
            /\ row' = [row EXCEPT ![d] = [status |-> "dead", attempts |-> row[d].attempts + 1, due |-> FALSE]]
        BY <2>2, <2>4, <3>1
      <4> HIDE DEF d
      <4> QED BY <3>5, <4>1, RecordedOnce
    <3>7. RetiredForGood'
      BY <2>2, <3>1 DEF RetiredForGood, WebhookTypeOK
    <3>8. LateIsLast'
      BY <3>2, <2>1 DEF LateIsLast, Idle
    <3> QED BY <3>3, <3>4, <3>6, <3>7, <3>8
  <2> QED BY <2>3, <2>4
<1>6. ASSUME NEW p \in Drainers, Answer(p)
      PROVE  WebhookInv'
  <2> USE <1>6 DEF Answer
  <2>1. PICK d \in drain[p].sending, verdict \in Outcomes :
            IF MayRecord(d)
               THEN /\ Record(d, verdict, Exhausted(verdict, drain[p].attempt))
                    /\ drain' = [drain EXCEPT ![p].sending = {}, ![p].attempt = 0]
               ELSE drain' = [drain EXCEPT ![p] = Idle] /\ UNCHANGED row
    OBVIOUS
  <2>2. d \in Deliveries
    BY DEF WebhookTypeOK, Drains
  <2>3. CASE ~MayRecord(d)
    BY <2>1, <2>3, Dropped
  <2>4. CASE MayRecord(d)
    <3>1. PICK status \in {"delivered", "dead", "pending"} :
              /\ row' = [row EXCEPT ![d] = [status |-> status, attempts |-> row[d].attempts + 1, due |-> FALSE]]
              /\ status = "pending" => drain[p].attempt < MaxAttempts
      BY <2>1, <2>4 DEF Record, Exhausted, Outcomes, WebhookTypeOK, Drains
    <3>2. /\ drain'[p].list = drain[p].list /\ drain'[p].sending = {} /\ drain'[p].attempt = 0
          /\ \A q \in Drainers \ {p} : drain'[q] = drain[q]
      BY <2>1, <2>4 DEF WebhookTypeOK, Drains
    <3>3. WebhookTypeOK'
      <4>1. row' \in [Deliveries -> Rows]
        BY <2>2, <3>1 DEF WebhookTypeOK, Rows, Statuses
      <4>2. drain' \in [Drainers -> Drains]
        <5>1. drain[p] \in Drains
          BY DEF WebhookTypeOK
        <5>2. \A r \in Drains : [r EXCEPT !.sending = {}, !.attempt = 0] \in Drains
          BY DEF Drains
        <5>3. drain' = [drain EXCEPT ![p].sending = {}, ![p].attempt = 0]
          BY <2>1, <2>4
        <5> HIDE <1>6 DEF Answer, Drains
        <5>4. drain' = [drain EXCEPT ![p] = [drain[p] EXCEPT !.sending = {}, !.attempt = 0]]
          BY <5>3 DEF WebhookTypeOK
        <5> QED BY <5>1, <5>2, <5>4 DEF WebhookTypeOK
      <4>3. retires' = retires /\ retired' = retired /\ late' = late
        OBVIOUS
      <4> HIDE <1>6 DEF Answer, Drains
      <4> QED BY <4>1, <4>2, <4>3 DEF WebhookTypeOK
    <3>4. ListedOnce'
      BY <3>2 DEF ListedOnce
    <3>5. \A e \in Deliveries : Holders(e)' \subseteq Holders(e)
      BY <3>2 DEF Holders, Undecided
    <3>6. status = "pending" => p \in Holders(d) /\ p \notin Holders(d)'
      BY <3>1, <3>2 DEF Holders, Undecided, ListedOnce
    <3>7. AttemptsAreBounded'
      BY <2>2, <2>4, <3>1, <3>5, <3>6, RecordedOnce
    <3>8. RetiredForGood'
      BY <2>2, <2>4, <3>1 DEF RetiredForGood, WebhookTypeOK, MayRecord, Pending
    <3>9. late[p] = 0
      BY <2>1, <2>4 DEF LateIsLast, Idle, RetiredForGood, MayRecord, Pending
    <3>10. LateIsLast'
      BY <3>2, <3>9 DEF LateIsLast
    <3> QED BY <3>3, <3>4, <3>7, <3>8, <3>10
  <2> QED BY <2>3, <2>4
<1>7. ASSUME NEW p \in Drainers, Crash(p)
      PROVE  WebhookInv'
  BY <1>7, Dropped DEF Crash
<1>8. ASSUME RetireQueued
      PROVE  WebhookInv'
  <2>1. /\ row' = [d \in Deliveries |-> IF d \in Pending THEN [row[d] EXCEPT !.status = "dead", !.due = FALSE]
                                         ELSE row[d]]
        /\ retires' = retires + 1 /\ retired' = retired \cup Pending /\ drain' = drain /\ late' = late
    BY <1>8 DEF RetireQueued
  <2>2. /\ \A d \in Deliveries : row[d] \in Rows /\ [row[d] EXCEPT !.status = "dead", !.due = FALSE] \in Rows
        /\ Pending \subseteq Deliveries
    BY DEF WebhookTypeOK, Rows, Statuses, Pending
  <2>3. WebhookTypeOK'
    <3>1. row' \in [Deliveries -> Rows]
      BY <2>1, <2>2
    <3>2. retired' \subseteq Deliveries
      BY <2>1, <2>2 DEF WebhookTypeOK
    <3>3. drain' \in [Drainers -> Drains] /\ late' \in [Drainers -> Nat]
      BY <2>1 DEF WebhookTypeOK
    <3>4. retires' \in Nat
      <4>1. retires' = retires + 1 /\ retires \in Nat
        BY <1>8 DEF RetireQueued, WebhookTypeOK
      <4> QED BY <4>1
    <3> QED BY <3>1, <3>2, <3>3, <3>4 DEF WebhookTypeOK
  <2>4. ListedOnce'
    BY <2>1 DEF ListedOnce
  <2>5. \A e \in Deliveries : Holders(e)' \subseteq Holders(e)
    BY <2>1 DEF Holders, Undecided
  <2>6. \A d \in Deliveries : /\ row'[d].attempts = row[d].attempts
                              /\ d \in Pending => row'[d].status = "dead"
                              /\ d \notin Pending => row'[d] = row[d]
    BY <2>1, <2>2 DEF Rows
  <2>7. AttemptsAreBounded'
    BY <2>5, <2>6, FewerHolders DEF Pending
  <2>8. RetiredForGood'
    BY <2>1, <2>2, <2>6 DEF RetiredForGood, WebhookTypeOK
  <2>9. LateIsLast'
    BY <2>1 DEF LateIsLast
  <2> QED BY <2>3, <2>4, <2>7, <2>8, <2>9
<1>9. ASSUME UNCHANGED webhookVars
      PROVE  WebhookInv'
  BY <1>9 DEF webhookVars, WebhookTypeOK, ListedOnce, AttemptsAreBounded, Holders, Undecided,
     RetiredForGood, LateIsLast
<1> QED BY <1>1, <1>2, <1>3, <1>4, <1>5, <1>6, <1>7, <1>8, <1>9 DEF WebhookNext

\* The invariant holds of every behaviour of the outbox.
THEOREM WebhookSafe == WebhookSpec => []WebhookInv
<1> QED BY WebhookStart, WebhookStep, PTL DEF WebhookSpec

\* A drain that a restore overtakes sends at most one delivery that the restore
\* has retired, and the attempts on a delivery outrun its budget by less than
\* one per process, however many processes drain the outbox of one host: a
\* number that is stale is used once, by a process that listed it.
THEOREM OutboxBounded == WebhookSpec => []DeliveriesAreBounded
<1>1. WebhookInv => DeliveriesAreBounded
  <2> SUFFICES ASSUME WebhookInv
               PROVE  DeliveriesAreBounded
    OBVIOUS
  <2>1. \A p \in Drainers : late[p] \in Nat /\ late[p] <= 1
    BY DEF WebhookInv, LateIsLast, WebhookTypeOK
  <2> QED BY <2>1 DEF WebhookInv, AttemptsAreBounded, DeliveriesAreBounded
<1> QED BY <1>1, WebhookSafe, PTL

-----------------------------------------------------------------------------
(* What a search returns.                                                  *)

\* Of subsets of a finite set, one contains no other.
LEMMA SmallestSet ==
  ASSUME NEW S, IsFiniteSet(S), NEW T \in SUBSET SUBSET S, T # {}
  PROVE  \E X \in T : \A Y \in T : Y \subseteq X => Y = X
<1>1. T \subseteq FiniteSubsetsOf(S)  BY FS_FiniteSubsetsOfFinite
<1>2. IsWellFoundedOn(StrictSubsetOrdering(S), FiniteSubsetsOf(S))
  BY FS_StrictSubsetOrderingWellFounded
<1>3. PICK X \in T : \A Y \in T : ~(<<Y, X>> \in StrictSubsetOrdering(S))
  BY <1>1, <1>2, WFMin
<1> QED  BY <1>3 DEF StrictSubsetOrdering

LEMMA StoredFinite ==
  ASSUME NEW S \in SUBSET PoolIds
  PROVE  IsFiniteSet(S) /\ Cardinality(S) \in Nat
BY RetrievalAssumption, FS_Subset, FS_CardinalityType

\* No two memories have the same rank.
LEMMA OrdersRank ==
  ASSUME NEW S \in SUBSET PoolIds, NEW rank \in Orders(S)
  PROVE  /\ \A i \in S : rank[i] \in Nat
         /\ \A i, k \in S : rank[i] = rank[k] => i = k
<1>1. CASE query.semantic  BY <1>1, StoredFinite DEF Orders, IsInjective
<1>2. CASE ~query.semantic  BY <1>2, RetrievalAssumption DEF Orders
<1> QED  BY <1>1, <1>2

LEMMA ReachedAtOnce ==
  ASSUME NEW R, NEW i, NEW k \in Stored, <<i, k>> \in R
  PROVE  k \in Reached(i, R)
<1> SUFFICES ASSUME NEW T \in SUBSET Stored, \A e \in R : (e[1] = i \/ e[1] \in T) => e[2] \in T
             PROVE  k \in T
  BY DEF Reached
<1> QED  OBVIOUS

\* What is reached from there is reached from here.
LEMMA ReachedOnwards ==
  ASSUME NEW R, NEW i, NEW k \in Reached(i, R)
  PROVE  Reached(k, R) \subseteq Reached(i, R)
<1> SUFFICES ASSUME NEW l \in Reached(k, R), NEW T \in SUBSET Stored,
                    \A e \in R : (e[1] = i \/ e[1] \in T) => e[2] \in T
             PROVE  l \in T
  BY DEF Reached
<1>1. k \in T  BY DEF Reached
<1>2. \A e \in R : (e[1] = k \/ e[1] \in T) => e[2] \in T  BY <1>1
<1> QED  BY <1>2 DEF Reached

\* A memory that dedupeResults() drops has its text, or its text and source, in
\* common with one that it keeps: the best ranked of them.
LEMMA DuplicateKept ==
  ASSUME NEW S \in SUBSET PoolIds, NEW rank, \A i \in S : rank[i] \in Nat,
         NEW i \in S, i \notin Dedupe(S, rank)
  PROVE  /\ query.dedupe # "off" /\ pool[i].text # Blank
         /\ \E k \in Dedupe(S, rank) : Key(i) = Key(k)
<1>1. query.dedupe # "off" /\ Repeats(S, rank, i)  BY DEF Dedupe
<1> DEFINE C == {k \in S : Key(k) = Key(i)}
           T == {Before(S, rank, k) : k \in C}
<1>2. i \in C  OBVIOUS
<1>3. T \in SUBSET SUBSET S /\ T # {}  BY <1>2 DEF Before
<1>4. IsFiniteSet(S)  BY StoredFinite
<1>5. PICK X \in T : \A Y \in T : Y \subseteq X => Y = X
  <2> HIDE DEF T
  <2> QED  BY <1>3, <1>4, SmallestSet
<1>6. PICK k \in C : X = Before(S, rank, k)  OBVIOUS
<1>7. ~Repeats(S, rank, k)
  <2> SUFFICES ASSUME NEW j \in Before(S, rank, k), Key(j) = Key(k) PROVE FALSE
    BY DEF Repeats
  <2>1. j \in C /\ rank[j] < rank[k] /\ rank[j] \in Nat /\ rank[k] \in Nat  BY <1>6 DEF Before
  <2>2. Before(S, rank, j) \subseteq X
    <3> SUFFICES ASSUME NEW l \in S, rank[l] < rank[j] PROVE rank[l] < rank[k]
      BY <1>6 DEF Before
    <3> QED  BY <2>1
  <2>3. j \in X /\ j \notin Before(S, rank, j)  BY <1>6, <2>1 DEF Before
  <2>4. Before(S, rank, j) \in T  BY <2>1
  <2> QED  BY <1>5, <2>2, <2>3, <2>4
<1>8. k \in Dedupe(S, rank)  BY <1>6, <1>7 DEF Dedupe
<1> QED  BY <1>1, <1>6, <1>8 DEF Repeats

\* Whatever the order, what current versions and first copies remain of the
\* memories in scope represents them all.
LEMMA Represented ==
  ASSUME WellFormed, NEW rank \in Orders({i \in Stored : InScope(i)}),
         NEW i \in Stored, InScope(i)
  PROVE  (Reached(i, Stands) \cup {i}) \cap
            Dedupe(Current({k \in Stored : InScope(k)}, Stored), rank) # {}
<1> DEFINE S == {k \in Stored : InScope(k)}
           Newest == Current(S, Stored)
           D == Dedupe(Newest, rank)
           Lost == {k \in S : (Reached(k, Stands) \cup {k}) \cap D = {}}
           T == {Reached(k, Replaced) : k \in Lost}
<1>1. S \in SUBSET PoolIds /\ Stored \in SUBSET PoolIds /\ Newest \subseteq S
  BY DEF Stored, Current
<1>2. \A k \in Newest : rank[k] \in Nat
  <2> HIDE DEF Newest
  <2> QED  BY <1>1, OrdersRank
<1>3. ASSUME NEW k \in Lost PROVE k \notin Newest
  <2> SUFFICES ASSUME k \in Newest PROVE FALSE  OBVIOUS
  <2>1. k \notin D /\ k \in Stored  OBVIOUS
  <2> HIDE DEF Newest
  <2>2. /\ query.dedupe # "off" /\ pool[k].text # Blank
        /\ \E l \in D : Key(k) = Key(l)
    <3>1. Newest \in SUBSET PoolIds  BY <1>1
    <3> QED  BY <1>2, <2>1, <3>1, DuplicateKept
  <2>3. PICK l \in D : Key(k) = Key(l)  BY <2>2
  <2>4. l \in Stored  BY <1>1 DEF Dedupe
  <2>5. <<k, l>> \in Stands  BY <2>1, <2>2, <2>3, <2>4 DEF Stands
  <2>6. l \in Reached(k, Stands)  BY <2>4, <2>5, ReachedAtOnce
  <2> QED  BY <2>3, <2>6
<1>4. ASSUME NEW k \in Lost PROVE /\ pool[k].next \in Lost
                                  /\ Reached(pool[k].next, Replaced) \subseteq Reached(k, Replaced)
                                  /\ Reached(pool[k].next, Replaced) # Reached(k, Replaced)
  <2>1. pool[k].next \in Stored /\ k \in Stored  BY <1>3 DEF Current
  <2>2. PICK l : l = pool[k].next  OBVIOUS
  <2>3. l \in S  BY <2>1, <2>2 DEF WellFormed
  <2>4. <<k, l>> \in Stands /\ <<k, l>> \in Replaced  BY <2>1, <2>2 DEF Stands, Replaced
  <2>5. l \in Reached(k, Stands) /\ l \in Reached(k, Replaced)
    BY <2>1, <2>2, <2>4, ReachedAtOnce
  <2>6. Reached(l, Stands) \subseteq Reached(k, Stands) /\ Reached(l, Replaced) \subseteq Reached(k, Replaced)
    BY <2>5, ReachedOnwards
  <2>7. l \in Lost  BY <2>3, <2>5, <2>6
  <2>8. l \notin Reached(l, Replaced)  BY <2>1, <2>2 DEF WellFormed
  <2> QED  BY <2>2, <2>5, <2>6, <2>7, <2>8
<1>5. Lost = {}
  <2> SUFFICES ASSUME Lost # {} PROVE FALSE  OBVIOUS
  <2>1. T \in SUBSET SUBSET Stored /\ T # {}
    <3>1. \A k : Reached(k, Replaced) \subseteq Stored  BY DEF Reached
    <3> HIDE DEF Lost
    <3> QED  BY <3>1
  <2>2. IsFiniteSet(Stored)  BY <1>1, StoredFinite
  <2>3. PICK X \in T : \A Y \in T : Y \subseteq X => Y = X
    <3> HIDE DEF T
    <3> QED  BY <2>1, <2>2, SmallestSet
  <2>4. PICK k \in Lost : X = Reached(k, Replaced)  OBVIOUS
  <2> HIDE DEF Lost
  <2>5. Reached(pool[k].next, Replaced) \in T  BY <1>4
  <2> QED  BY <1>4, <2>3, <2>4, <2>5
<1> QED  BY <1>5

\* What the last pass returned is of the pool, and the answer is sound.
RetrievalInv == /\ pool \in Pools /\ query \in Queries /\ pass \in 0 .. 2
                /\ found \subseteq Stored
                /\ RetrievalIsSound

\* What is kept of a list, and what is said of it.
LEMMA CutsKeep ==
  ASSUME NEW S \in SUBSET PoolIds, NEW rank, NEW c \in Cuts(S, rank)
  PROVE  /\ c.kept \subseteq S /\ Cardinality(c.kept) <= query.limit
         /\ c.by # {} => c.kept # S
         /\ query.budget /\ c.kept # S =>
              c.by # {} \/ (~query.items /\ Cardinality(c.kept) = query.limit)
<1> DEFINE fitting == {K \in Tops(S, rank) : WithinBounds(K)}
           whole(K) == \A L \in fitting : L \subseteq K
<1>1. CASE \E K \in fitting : c = [kept |-> K, by |-> Reason(S, K)]
  BY <1>1 DEF Tops, WithinBounds, Reason
<1>2. CASE \E K \in fitting : ~whole(K) /\ c = [kept |-> K, by |-> {"maxLatency"}]
  <2>1. PICK K \in fitting : ~whole(K) /\ c = [kept |-> K, by |-> {"maxLatency"}]  BY <1>2
  <2>2. K # S  BY <2>1 DEF Tops
  <2> QED  BY <2>1, <2>2 DEF Tops, WithinBounds
<1> QED  BY <1>1, <1>2 DEF Cuts

\* What one pass of searchQ() over S answers.
LEMMA PassIsClean ==
  ASSUME RetrievalInv, NEW S \in SUBSET Stored, NEW seeds, SearchQ(S, seeds),
         pool' = pool, query' = query
  PROVE  found' \subseteq S /\ ResultsAreClean' /\ CutIsReported'
<1>0. PICK chosen \in SUBSET {i \in S : InScope(i)} :
        \E ranked \in Orders(chosen) :
           LET distinct == Dedupe(Current(chosen, S), ranked)
           IN \E diverse \in Orders(distinct) : \E c \in Cuts(distinct, diverse) :
                 found' = c.kept /\ cut' = (c.kept # distinct) /\ report' = c.by
  BY DEF SearchQ
<1>1. PICK ranked \in Orders(chosen) :
        LET distinct == Dedupe(Current(chosen, S), ranked)
        IN \E diverse \in Orders(distinct) : \E c \in Cuts(distinct, diverse) :
              found' = c.kept /\ cut' = (c.kept # distinct) /\ report' = c.by
  BY <1>0
<1> DEFINE newest == Current(chosen, S)
           distinct == Dedupe(newest, ranked)
<1>2. PICK diverse \in Orders(distinct) : \E c \in Cuts(distinct, diverse) :
        found' = c.kept /\ cut' = (c.kept # distinct) /\ report' = c.by
  BY <1>1
<1>c. PICK c \in Cuts(distinct, diverse) :
        found' = c.kept /\ cut' = (c.kept # distinct) /\ report' = c.by
  BY <1>2
<1>3. /\ newest \subseteq chosen /\ distinct \subseteq newest /\ chosen \subseteq S
      /\ S \subseteq Stored /\ Stored \subseteq PoolIds
  BY DEF Current, Dedupe, Stored
<1>4. /\ found' \subseteq distinct /\ Cardinality(found') <= query.limit
      /\ report' # {} => cut'
      /\ query.budget /\ cut' =>
           report' # {} \/ (~query.items /\ Cardinality(found') = query.limit)
  <2> HIDE DEF distinct
  <2>1. distinct \in SUBSET PoolIds  BY <1>3
  <2> QED  BY <1>c, <2>1, CutsKeep
<1>5. report' # {} => query.budget
  <2>1. query.hurried => query.budget  BY RetrievalAssumption DEF RetrievalInv
  <2> QED  BY <1>c, <2>1 DEF Cuts, Reason
<1>6. \A i \in found' : /\ pool[i] # NoMemory
                        /\ query.scope # "any" => pool[i].scope \in {query.scope, "global"}
  BY <1>3, <1>4 DEF Stored, InScope
<1>7. query.dedupe = "exact" /\ Cardinality(Stored) <= query.window =>
        \A i, k \in found' : pool[i].text = pool[k].text => i = k \/ pool[i].text = Blank
  <2> SUFFICES ASSUME query.dedupe = "exact", Cardinality(Stored) <= query.window,
                      NEW i \in distinct, NEW k \in distinct, pool[i].text = pool[k].text,
                      pool[i].text # Blank, i # k
               PROVE  FALSE
    BY <1>4
  <2>1. i \in newest /\ k \in newest /\ Key(i) = Key(k)  BY <1>3 DEF Key
  <2>2. ranked[i] \in Nat /\ ranked[k] \in Nat /\ ranked[i] # ranked[k]
    <3>1. i \in chosen /\ k \in chosen /\ chosen \in SUBSET PoolIds  BY <1>3, <2>1
    <3> QED  BY <3>1, OrdersRank
  <2>3. \A j \in newest : Cardinality(Before(newest, ranked, j)) < query.window
    <3> SUFFICES ASSUME NEW j \in newest PROVE Cardinality(Before(newest, ranked, j)) < query.window
      OBVIOUS
    <3>1. Before(newest, ranked, j) \subseteq newest /\ j \notin Before(newest, ranked, j)
      <4>1. j \in chosen /\ chosen \in SUBSET PoolIds  BY <1>3
      <4>2. ranked[j] \in Nat  BY <4>1, OrdersRank
      <4> QED  BY <4>2 DEF Before
    <3>2. /\ Before(newest, ranked, j) \in SUBSET Stored /\ Before(newest, ranked, j) # Stored
          /\ Stored \in SUBSET PoolIds
      <4> HIDE DEF newest
      <4> QED  BY <1>3, <3>1
    <3>3. /\ Cardinality(Before(newest, ranked, j)) <= Cardinality(Stored)
          /\ Cardinality(Before(newest, ranked, j)) # Cardinality(Stored)
      BY ONLY <3>2, StoredFinite, FS_Subset
    <3>4. Cardinality(Before(newest, ranked, j)) \in Nat /\ Cardinality(Stored) \in Nat
      <4>1. Before(newest, ranked, j) \in SUBSET PoolIds  BY <3>2
      <4> QED  BY ONLY <3>2, <4>1, StoredFinite
    <3>5. query.window \in Nat  BY RetrievalAssumption DEF RetrievalInv
    <3> QED  BY <3>3, <3>4, <3>5
  <2>4. ~Repeats(newest, ranked, i) /\ ~Repeats(newest, ranked, k)  BY <2>1, <2>3 DEF Dedupe
  <2>5. k \notin Before(newest, ranked, i) /\ i \notin Before(newest, ranked, k)
    BY <2>1, <2>4 DEF Repeats
  <2> QED  BY <2>1, <2>2, <2>5 DEF Before
<1>8. ~query.superseded => \A i \in found' : pool[i].next \notin found'
  <2>1. ~query.superseded => \A i \in newest : pool[i].next \notin S  BY DEF Current
  <2> QED  BY <1>3, <1>4, <2>1
<1>9. found' \subseteq S  BY <1>3, <1>4
<1>10. Stored' = Stored  BY DEF Stored
<1>11. ResultsAreClean'
  BY <1>4, <1>6, <1>7, <1>8, <1>10 DEF ResultsAreClean
<1>12. CutIsReported'
  BY <1>4, <1>5 DEF CutIsReported
<1> QED  BY <1>9, <1>11, <1>12

LEMMA SearchKeeps == RetrievalInv /\ Search => RetrievalInv'
<1> SUFFICES ASSUME RetrievalInv, Search PROVE RetrievalInv'  OBVIOUS
<1>1. pool' = pool /\ query' = query /\ SearchQ(Stored, {}) /\ pass' = 1  BY DEF Search
<1>2. found' \subseteq Stored /\ ResultsAreClean' /\ CutIsReported'  BY <1>1, PassIsClean
<1>3. Stored' = Stored  BY <1>1 DEF Stored
<1>4. NothingVanishes'
  <2> SUFFICES ASSUME ~cut', faint' = {}, WellFormed', NEW i \in Stored, InScope(i)
               PROVE  (Reached(i, Stands)' \cup {i}) \cap found' # {}
    BY <1>1, <1>3 DEF NothingVanishes, InScope
  <2>1. Stands' = Stands /\ Replaced' = Replaced
    BY <1>1, <1>3 DEF Stands, Replaced, Key
  <2>2. \A k : Reached(k, Stands)' = Reached(k, Stands) /\ Reached(k, Replaced)' = Reached(k, Replaced)
    BY <1>3, <2>1 DEF Reached
  <2>3. WellFormed  BY <1>1, <1>3, <2>2 DEF WellFormed, InScope
  <2> DEFINE scored == {k \in Stored : InScope(k)}
  <2>4. PICK ranked \in Orders(scored) :
          LET distinct == Dedupe(Current(scored, Stored), ranked)
          IN \E c : found' = c.kept /\ cut' = (c.kept # distinct)
    <3>1. PICK weak : /\ faint' = weak
                      /\ LET rest == scored \ weak
                             chosen == IF rest \cap {} = {} THEN rest ELSE rest \cap {}
                         IN \E ranked \in Orders(chosen) :
                               LET distinct == Dedupe(Current(chosen, Stored), ranked)
                               IN \E c : found' = c.kept /\ cut' = (c.kept # distinct)
      BY <1>1 DEF SearchQ
    <3>2. weak = {} /\ scored \ weak = scored  BY <3>1
    <3> HIDE DEF scored
    <3> QED  BY <3>1, <3>2
  <2>5. found' = Dedupe(Current(scored, Stored), ranked)  BY <2>4
  <2> QED  BY <2>2, <2>3, <2>5, Represented
<1> QED  BY <1>1, <1>2, <1>3, <1>4 DEF RetrievalInv, RetrievalIsSound

LEMMA ExpandKeeps == RetrievalInv /\ Expand => RetrievalInv'
<1> SUFFICES ASSUME RetrievalInv, Expand PROVE RetrievalInv'  OBVIOUS
<1>1. pool' = pool /\ query' = query /\ pass' = 2  BY DEF Expand
<1>2. PICK E \in Expanded : SearchQ(E, E)  BY DEF Expand
<1>3. E \subseteq Stored  BY DEF RetrievalInv, Expanded, Neighbours
<1>4. found' \subseteq E /\ ResultsAreClean' /\ CutIsReported'  BY <1>1, <1>2, <1>3, PassIsClean
<1>5. Stored' = Stored  BY <1>1 DEF Stored
<1>6. NothingVanishes'  BY <1>1 DEF NothingVanishes
<1> QED  BY <1>1, <1>3, <1>4, <1>5, <1>6 DEF RetrievalInv, RetrievalIsSound

\* Whatever a search has returned so far is of the pool and sound, whichever pass
\* it is in.
THEOREM RetrievalInvariant == RetrievalSpec => []RetrievalInv
<1>1. RetrievalInit => RetrievalInv
  <2> SUFFICES ASSUME RetrievalInit PROVE RetrievalInv  OBVIOUS
  <2>1. Cardinality(found) = 0  BY FS_EmptySet DEF RetrievalInit
  <2>2. query.limit \in Nat  BY RetrievalAssumption DEF RetrievalInit
  <2> QED  BY <2>1, <2>2 DEF RetrievalInit, RetrievalInv, RetrievalIsSound, ResultsAreClean,
                             CutIsReported, NothingVanishes
<1>2. RetrievalInv /\ UNCHANGED retrievalVars => RetrievalInv'
  <2> SUFFICES ASSUME RetrievalInv, UNCHANGED retrievalVars PROVE RetrievalInv'  OBVIOUS
  <2>1. UNCHANGED <<pool, query, pass, found, faint, cut, report>>  BY DEF retrievalVars
  <2>2. Stored' = Stored  BY <2>1 DEF Stored
  <2>3. Stands' = Stands /\ Replaced' = Replaced  BY <2>1, <2>2 DEF Stands, Replaced, Key
  <2>4. \A k : Reached(k, Stands)' = Reached(k, Stands) /\ Reached(k, Replaced)' = Reached(k, Replaced)
    BY <2>2, <2>3 DEF Reached
  <2>5. NothingVanishes'
    BY <2>1, <2>2, <2>4 DEF RetrievalInv, RetrievalIsSound, NothingVanishes, WellFormed, InScope
  <2>6. ResultsAreClean' /\ CutIsReported'
    BY <2>1, <2>2 DEF RetrievalInv, RetrievalIsSound, ResultsAreClean, CutIsReported
  <2> QED  BY <2>1, <2>2, <2>5, <2>6 DEF RetrievalInv, RetrievalIsSound
<1>3. RetrievalInv /\ [RetrievalNext]_retrievalVars => RetrievalInv'
  BY <1>2, SearchKeeps, ExpandKeeps DEF RetrievalNext
<1> QED  BY <1>1, <1>3, PTL DEF RetrievalSpec

\* An answer holds nothing that it may not, reports its cuts, and represents every
\* memory in scope that suppression left out, however long the chain of versions
\* and copies.
THEOREM RetrievalIsSoundTheorem == RetrievalSpec => []RetrievalIsSound
<1>1. RetrievalInv => RetrievalIsSound  BY DEF RetrievalInv
<1> QED  BY <1>1, RetrievalInvariant, PTL
=============================================================================
