---------------------------- MODULE MemoryService ---------------------------
(***************************************************************************)
(* The calls of MemoryService (src/service.ts) that change memories, in    *)
(* one process.  A call reads what it needs, awaits a provider, and writes *)
(* what it read, changed, back through the backend, whose operations are   *)
(* atomic here.  Other calls, and the maintenance job, run at every await. *)
(***************************************************************************)
EXTENDS Naturals, FiniteSets

CONSTANTS Calls, Ids,
          Texts,          \* contents that dedupKey() tells apart
          Workloads,      \* the sets of calls that are made, one per behaviour;
                          \* with "age" memories grow old
          Embeddings,     \* TRUE: an embedding provider is configured
          MaxVer          \* bound on versions

NoText == "none"
NoMem  == [ver |-> 0]
Keeps  == {"decaying", "persistent", "pinned"}
NoJob   == [op |-> "none"]

VARIABLES mem,        \* the backend: a memory or NoMem for each id
          pc, job,
          digesting,  \* the call that holds digestLock, in a set
          workload,
          origin      \* ids stored by digest() that still say what it stored

vars == <<mem, pc, job, digesting, workload, origin>>

Live     == {id \in Ids : mem[id] # NoMem}
Active   == {id \in Live : ~mem[id].arch}
Archived == Live \ Active
Copies(S) == {[id |-> id, m |-> mem[id]] : id \in S}
TextsOf(copies) == {x.m.text : x \in copies}

Init == /\ mem = [id \in Ids |-> NoMem]
        /\ pc = [c \in Calls |-> "idle"]
        /\ job = [c \in Calls |-> NoJob]
        /\ digesting = {}
        /\ workload \in Workloads
        /\ origin = {}

Goto(c, l) == pc' = [pc EXCEPT ![c] = l]
Set(c, j)  == job' = [job EXCEPT ![c] = j]
Return(c)  == Goto(c, "idle") /\ Set(c, NoJob)
Starts(c, op) == pc[c] = "idle" /\ op \in workload

\* maybeEmbed(): nothing without a provider, and nothing when it fails.
MaybeEmbed(t) == IF Embeddings THEN {t, NoText} ELSE {NoText}
-----------------------------------------------------------------------------
(* The backend, as its contract describes it.                              *)

New(t, v) == [ver |-> 1, text |-> t, vec |-> v, arch |-> FALSE, keep |-> "decaying",
              aged |-> FALSE, contra |-> FALSE]

\* A write of a whole memory over the stored one.  The decay clock of an
\* active one restarts, unless it has a lastSeen of its own.
Write(id, m) == /\ \E aged \in {m.aged, m.aged /\ m.arch} :
                      mem' = [mem EXCEPT ![id] = [m EXCEPT !.ver = mem[id].ver + 1, !.aged = aged]]
                /\ origin' = IF m.text = mem[id].text /\ m.arch = mem[id].arch THEN origin ELSE origin \ {id}
Writable(id) == id \in Live /\ mem[id].ver < MaxVer
-----------------------------------------------------------------------------
(* store(): the content is embedded first, then written.                   *)

Store(c) == /\ Starts(c, "store")
            /\ \E t \in Texts : \E v \in MaybeEmbed(t) :
                  Set(c, [op |-> "store", text |-> t, vec |-> v])
            /\ Goto(c, "store")
            /\ UNCHANGED <<mem, digesting, origin>>

StoreLands(c) ==
    /\ pc[c] = "store"
    /\ \E id \in Ids \ Live :
          /\ \A i \in Ids \ Live : id <= i
          /\ mem' = [mem EXCEPT ![id] = New(job[c].text, job[c].vec)]
          /\ origin' = IF job[c].op = "digest" THEN origin \cup {id} ELSE origin \ {id}
          /\ IF job[c].op = "digest"
                THEN /\ Set(c, [job[c] EXCEPT !.seen = @ \cup {job[c].text},
                                              !.active = @ \cup {[id |-> id, m |-> mem'[id]]}])
                     /\ Goto(c, "item")
                ELSE Return(c)
    /\ UNCHANGED digesting
-----------------------------------------------------------------------------
(* update() and relate(): a copy, a provider call, the whole copy back.    *)

\* The patch of the caller: a content, a retention mode, or an edge (relate()).
Patches == [text : Texts \cup {NoText}, keep : Keeps \cup {NoText}]

Get(c, id) ==
    /\ id \in Live /\ mem[id].ver < MaxVer
    /\ Starts(c, "update")
    /\ \E p \in Patches, guarded \in BOOLEAN :
          /\ p.text = NoText \/ p.keep = NoText
          /\ guarded => p.text # NoText
          /\ Set(c, [op |-> "update", id |-> id, copy |-> mem[id], patch |-> p, guarded |-> guarded])
    /\ Goto(c, "update")
    /\ UNCHANGED <<mem, digesting, origin>>

\* A changed content takes its own vector or none; an unchanged one keeps it.
Patched(j) ==
    LET kept == IF j.patch.keep = NoText THEN j.copy ELSE [j.copy EXCEPT !.keep = j.patch.keep]
    IN IF j.patch.text \in {NoText, j.copy.text} THEN {kept}
       ELSE {[kept EXCEPT !.text = j.patch.text, !.vec = v] : v \in MaybeEmbed(j.patch.text)}

UpdateLands(c) ==
    LET j == job[c] IN
    /\ pc[c] = "update"
    /\ IF Writable(j.id) /\ (j.guarded => mem[j.id].ver = j.copy.ver)
          THEN \E m \in Patched(j) : Write(j.id, m)
          ELSE UNCHANGED <<mem, origin>>     \* NOT_FOUND or CONFLICT
    /\ Return(c)
    /\ UNCHANGED digesting

\* forget(), archive(), revive(): the backend looks again, so the read before
\* it decides nothing but the error.
Forget(c, id) == /\ Starts(c, "forget") /\ id \in Live
                 /\ mem' = [mem EXCEPT ![id] = NoMem]
                 /\ origin' = origin \ {id}
                 /\ UNCHANGED <<pc, job, digesting>>

Archive(c, id) == /\ Starts(c, "archive") /\ id \in Active
                  /\ mem' = [mem EXCEPT ![id].arch = TRUE, ![id].aged = FALSE]
                  /\ UNCHANGED <<pc, job, digesting, origin>>

Revive(c, id) == /\ Starts(c, "revive") /\ id \in Archived
                 /\ mem' = [mem EXCEPT ![id].arch = FALSE, ![id].aged = FALSE]
                 /\ origin' = origin \ {id}
                 /\ UNCHANGED <<pc, job, digesting>>

\* search() refreshes the decay clock of what it found.
SearchTouches(c, id) == /\ Starts(c, "search") /\ id \in Active /\ mem[id].aged
                        /\ mem' = [mem EXCEPT ![id].aged = FALSE]
                        /\ UNCHANGED <<pc, job, digesting, origin>>

\* embedMemoryJob(): of a memory without a vector.
EmbedJob(c, id) == /\ Starts(c, "embed") /\ Embeddings
                   /\ id \in Live /\ mem[id].vec = NoText
                   /\ Set(c, [op |-> "embed", left |-> {}, id |-> id, copy |-> mem[id]])
                   /\ Goto(c, "vector")
                   /\ UNCHANGED <<mem, digesting, origin>>
-----------------------------------------------------------------------------
(* digest(): one at a time, under digestLock.                              *)

MutFree == TRUE
Free == digesting = {}

Digest(c) == /\ Starts(c, "digest")
             /\ Free
             /\ digesting' = digesting \cup {c}
             /\ \E items \in (SUBSET Texts) \ {{}} :      \* extractFn()
                   Set(c, [op |-> "digest", items |-> items, seen |-> {}, active |-> {}, archived |-> {},
                           text |-> NoText, vec |-> NoText])
             /\ Goto(c, "active")
             /\ UNCHANGED <<mem, origin>>

DigestActive(c) == /\ pc[c] = "active"
                   /\ Set(c, [job[c] EXCEPT !.active = Copies(Active), !.seen = {mem[i].text : i \in Active}])
                   /\ Goto(c, "archived")
                   /\ UNCHANGED <<mem, digesting, origin>>

DigestArchived(c) == /\ pc[c] = "archived"
                     /\ Set(c, [job[c] EXCEPT !.archived = Copies(Archived)])
                     /\ Goto(c, "item")
                     /\ UNCHANGED <<mem, digesting, origin>>

\* The next item: known, or archived and brought back, or like one that was
\* active at the start, or for the merge.  The near-duplicate comparison is
\* the exact one here.
DigestItem(c) ==
    LET j == job[c] IN
    /\ pc[c] = "item"
    /\ \E t \in j.items :
          LET rest == [j EXCEPT !.items = @ \ {t}, !.text = t]
              twin == {x \in j.archived : x.m.text = t}
          IN \/ /\ t \in j.seen
                /\ Set(c, rest)
                /\ UNCHANGED <<mem, pc, origin>>
             \/ /\ t \notin j.seen
                /\ \E x \in twin : /\ x.id \in Archived
                                   /\ mem' = [mem EXCEPT ![x.id].arch = FALSE, ![x.id].aged = FALSE]
                                   /\ origin' = origin \ {x.id}
                /\ Set(c, [rest EXCEPT !.seen = @ \cup {t}])
                /\ UNCHANGED pc
             \/ /\ t \notin j.seen
                /\ twin = {} \/ \E x \in twin : x.id \notin Archived
                /\ Set(c, rest)
                /\ IF t \in TextsOf(j.active) THEN UNCHANGED pc ELSE Goto(c, "merge")
                /\ UNCHANGED <<mem, origin>>
    /\ UNCHANGED digesting

\* With a candidate the model decides: nothing, a merge, or a fresh memory.
DigestMerge(c) ==
    LET j == job[c] IN
    /\ pc[c] = "merge"
    /\ \/ /\ \E v \in MaybeEmbed(j.text) : Set(c, [j EXCEPT !.vec = v])
          /\ Goto(c, "store")
          /\ UNCHANGED <<mem, origin>>
       \/ /\ j.active \cup j.archived # {}
          /\ Goto(c, "item") /\ UNCHANGED <<mem, job, origin>>
       \/ \E x \in j.active \cup j.archived, t \in Texts : \E v \in MaybeEmbed(t) :
             /\ IF Writable(x.id)
                   THEN /\ Write(x.id, [x.m EXCEPT !.text = t, !.vec = v])
                        /\ Set(c, [j EXCEPT !.seen = (@ \ {x.m.text}) \cup {t}])
                   ELSE Set(c, [j EXCEPT !.items = {}]) /\ UNCHANGED <<mem, origin>>   \* it rejects
             /\ Goto(c, "item")
    /\ UNCHANGED digesting

\* All items are done, or the caller is gone, or the digest has failed.
DigestEnds(c) == /\ pc[c] = "item"
                 /\ digesting' = digesting \ {c}
                 /\ Return(c)
                 /\ UNCHANGED <<mem, origin>>
-----------------------------------------------------------------------------
(* maintain(): the decay pass, the vectors that are missing, the           *)
(* contradictions.  Each part works through a list it made at its start.   *)

\* With "decay" it is the pass that a search starts, which ends earlier.
Maintain(c) == /\ \E op \in {"maintain", "decay"} :
                     /\ Starts(c, op)
                     /\ Set(c, [op |-> op, left |-> Copies({i \in Active : mem[i].aged /\ mem[i].keep # "pinned"})])
               /\ Goto(c, "decay")
               /\ UNCHANGED <<mem, digesting, origin>>

DecayArchive(c) ==
    /\ pc[c] = "decay"
    /\ \E x \in job[c].left :
          /\ Set(c, [job[c] EXCEPT !.left = @ \ {x}])
          /\ mem' = IF x.id \in Active THEN [mem EXCEPT ![x.id].arch = TRUE, ![x.id].aged = FALSE] ELSE mem
    /\ UNCHANGED <<pc, digesting, origin>>

Expirable == {i \in Archived : mem[i].aged /\ mem[i].keep = "decaying"}

DecayList(c) == /\ pc[c] = "decay" /\ job[c].left = {}
                /\ Set(c, [job[c] EXCEPT !.left = Copies(Expirable)])
                /\ Goto(c, "expire")
                /\ UNCHANGED <<mem, digesting, origin>>

\* What is forgotten is what was listed, whatever it has become.
DecayForget(c) ==
    /\ pc[c] = "expire"
    /\ \E x \in job[c].left :
          /\ Set(c, [job[c] EXCEPT !.left = @ \ {x}])
          /\ mem' = [mem EXCEPT ![x.id] = NoMem]
          /\ origin' = origin \ {x.id}
    /\ UNCHANGED <<pc, digesting>>

DecayEnds(c) == /\ pc[c] = "expire" /\ job[c] = [op |-> "decay", left |-> {}]
                /\ Return(c)
                /\ UNCHANGED <<mem, digesting, origin>>

Backfill(c) == /\ pc[c] = "expire" /\ job[c] = [op |-> "maintain", left |-> {}]
               /\ Set(c, [job[c] EXCEPT !.left =
                             IF Embeddings THEN Copies({i \in Active : mem[i].vec = NoText}) ELSE {}])
               /\ Goto(c, "backfill")
               /\ UNCHANGED <<mem, digesting, origin>>

BackfillOne(c) == /\ pc[c] = "backfill"
                  /\ \E x \in job[c].left :
                        Set(c, [op |-> "maintain", left |-> job[c].left \ {x}, id |-> x.id, copy |-> x.m])
                  /\ Goto(c, "vector")
                  /\ UNCHANGED <<mem, digesting, origin>>

\* The provider has answered, or failed; the copy goes back with its vector.
MutVectorOf(copy, id) == [mem[id] EXCEPT !.vec = copy.text]
VectorOf(copy, id) == [copy EXCEPT !.vec = copy.text]

VectorLands(c) ==
    LET j == job[c] IN
    /\ pc[c] = "vector"
    /\ IF j.id \in Live /\ mem[j.id].ver < MaxVer
          THEN Write(j.id, VectorOf(j.copy, j.id)) \/ UNCHANGED <<mem, origin>>
          ELSE UNCHANGED <<mem, origin>>
    /\ IF j.op = "embed" THEN Return(c)
       ELSE Goto(c, "backfill") /\ Set(c, [op |-> "maintain", left |-> j.left])
    /\ UNCHANGED digesting

\* consolidate() finds pairs that contradict each other: both are flagged.
Contradictions(c) ==
    /\ pc[c] = "backfill" /\ job[c].left = {}
    /\ \E S \in SUBSET {i \in Active : ~mem[i].contra} :
          Set(c, [job[c] EXCEPT !.left = Copies(S)])
    /\ Goto(c, "flag")
    /\ UNCHANGED <<mem, digesting, origin>>

Flag(c) ==
    /\ pc[c] = "flag"
    /\ IF job[c].left = {} THEN Return(c) /\ UNCHANGED <<mem, origin>>
       ELSE \E x \in job[c].left :
               /\ Set(c, [job[c] EXCEPT !.left = @ \ {x}])
               /\ IF Writable(x.id) THEN Write(x.id, [x.m EXCEPT !.contra = TRUE]) ELSE UNCHANGED <<mem, origin>>
               /\ UNCHANGED pc
    /\ UNCHANGED digesting
-----------------------------------------------------------------------------
\* A memory is not used for so long that the next threshold is behind it.
Age(id) == /\ "age" \in workload /\ id \in Live /\ ~mem[id].aged
           /\ mem' = [mem EXCEPT ![id].aged = TRUE]
           /\ UNCHANGED <<pc, job, digesting, origin>>

Step == \/ \E c \in Calls :
             \/ Store(c) \/ StoreLands(c) \/ UpdateLands(c)
             \/ \E id \in Ids : \/ Get(c, id) \/ Forget(c, id) \/ Archive(c, id) \/ Revive(c, id)
                                \/ SearchTouches(c, id) \/ EmbedJob(c, id)
             \/ Digest(c) \/ DigestActive(c) \/ DigestArchived(c) \/ DigestItem(c) \/ DigestMerge(c) \/ DigestEnds(c)
             \/ Maintain(c) \/ DecayArchive(c) \/ DecayList(c) \/ DecayForget(c) \/ DecayEnds(c)
             \/ Backfill(c) \/ BackfillOne(c) \/ VectorLands(c) \/ Contradictions(c) \/ Flag(c)
        \/ \E id \in Ids : Age(id)

Next == Step /\ UNCHANGED workload
Spec == Init /\ [][Next]_vars
-----------------------------------------------------------------------------
\* Semantic search compares vectors of what the memories say: whichever of the
\* calls that await a provider write last, a vector is the vector of the
\* content beside it.
VectorMatchesText == \A id \in Live : mem[id].vec \in {NoText, mem[id].text}

\* digestLock: simultaneous digests of the same facts store each fact once.  A
\* memory that was archived and revived, or rewritten, no longer counts as what
\* the digest stored: an update may well make it say what another one says.
DigestsDoNotRepeat ==
    \A i, k \in origin : ~mem[i].arch /\ ~mem[k].arch /\ mem[i].text = mem[k].text => i = k
=============================================================================
